------------------------------ MODULE MCLogLock ------------------------------
(* LogLock with two threads, two handlers and two levels.                  *)
EXTENDS LogLock

CONSTANTS main, io, f1, f2

MCThread == {main, io}
MCFunction == {f1, f2}
==============================================================================
