---------------------------- MODULE MCContextIo ----------------------------
(* ContextIo with threads that call the context and one that destroys it   *)
(* under them, two keys, and more objects than keys so that both sessions  *)
(* and event handlings are replaced.                                       *)
EXTENDS ContextIo

CONSTANTS io, io2, owner, s1, s2, s3, e1, e2
==============================================================================
