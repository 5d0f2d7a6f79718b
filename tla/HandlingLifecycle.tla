-------------------------- MODULE HandlingLifecycle --------------------------
(***************************************************************************)
(* What SendersManager promises to the author of a Handling, with nothing  *)
(* said about tokens, requests or libcoap: a handling belongs to the       *)
(* application until it is handed over, is then managed, is called back at *)
(* most one at a time while it is managed, and is destroyed exactly once   *)
(* and never while one of its own callbacks is on the stack (Handling.h,   *)
(* SendersManager.h:40).                                                   *)
(***************************************************************************)
EXTENDS Naturals

CONSTANTS Handling,    \* the handling objects of the program
          NoHandling   \* the null Handling pointer, not one of them

VARIABLES life,    \* who answers for each handling object
          called   \* the handling whose onAck or onNAck is on the stack

vars == <<life, called>>

Life == {"app", "managed", "destroyed"}

TypeOK ==
    /\ life \in [Handling -> Life]
    /\ called \in Handling \cup {NoHandling}

Init ==
    /\ life \in [Handling -> Life]
    /\ called = NoHandling

(* Ownership only moves forward. *)
Forward(h) ==
    \/ life'[h] = life[h]
    \/ life[h] = "app" /\ life'[h] \in {"managed", "destroyed"}
    \/ life[h] = "managed" /\ life'[h] = "destroyed"

(* Handlings are handed over or destroyed, the one being called stays. *)
Transfer ==
    /\ life' \in [Handling -> Life]
    /\ \A h \in Handling : Forward(h)
    /\ called # NoHandling => life'[called] = life[called]
    /\ UNCHANGED called

(* Only a managed handling is called, and only when no other one is. *)
Call(h) ==
    /\ called = NoHandling
    /\ life[h] = "managed"
    /\ called' = h
    /\ UNCHANGED life

(* The handling is still there to be asked isFinished(), and one handling  *)
(* at most is destroyed on the way out.                                    *)
Return ==
    /\ called # NoHandling
    /\ life[called] = "managed"
    /\ called' = NoHandling
    /\ \/ UNCHANGED life
       \/ \E h \in Handling :
             /\ life[h] = "managed"
             /\ life' = [life EXCEPT ![h] = "destroyed"]

Next ==
    \/ Transfer
    \/ \E h \in Handling : Call(h)
    \/ Return

Spec == Init /\ [][Next]_vars
==============================================================================
