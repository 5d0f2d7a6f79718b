------------------------ MODULE SendersManagerProofs ------------------------
(***************************************************************************)
(* Theorems about SendersManager, for every set of tokens and handlings,   *)
(* every bound and every peer.  Type correctness and ownership hold        *)
(* whatever the application does; that the callee of a callback survives   *)
(* it, and the refinement of the life cycle, need an application that does *)
(* not delete a handling from inside that handling's own callback.  That   *)
(* no request is forgotten needs confirmable requests too, with answers on *)
(* their ACKs.                                                             *)
(***************************************************************************)
EXTENDS SendersManager, TLAPS

(* The calls that delete the handling whose callback is on the stack.      *)
SafeReentry == CallbackOps \cap {"removeSelf", "replaceSelf"} = {}

------------------------------------------------------------------------------
(* Type correctness.                                                       *)

(* Entering a callback records an existing handling as the callee.         *)
LEMMA EnterTypes ==
    ASSUME TypeOK, NEW t \in Token, NEW kind \in {"onAck", "onNAck"},
           Reachable(t), Enter(kind, t)
    PROVE  /\ callback' \in Callback
           /\ called' \in SUBSET Handling
<1>1. Route(t) \in Handling
  BY DEF TypeOK, Reachable, Route
<1>2. IsDefault(t) \in BOOLEAN
  BY DEF IsDefault
<1>3. QED
  BY <1>1, <1>2 DEF Enter, Callback, TypeOK

(* The two outcomes of a handler that looks a token up.                    *)
LEMMA HandlerTypes ==
    ASSUME TypeOK, NEW t \in Token, OnAck(t) \/ OnNack(t)
    PROVE  /\ callback' \in Callback \cup {NoCallback}
           /\ called' \in SUBSET Handling
<1>1. CASE UNCHANGED <<callback, called>>
  BY <1>1 DEF TypeOK
<1>2. ASSUME Reachable(t), NEW kind \in {"onAck", "onNAck"}, Enter(kind, t)
      PROVE  /\ callback' \in Callback \cup {NoCallback}
             /\ called' \in SUBSET Handling
  BY <1>2, EnterTypes
<1>3. QED
  BY <1>1, <1>2 DEF OnAck, OnNack

(* Every variable keeps its type, the map and the queue stay total.        *)
THEOREM TypeCorrect == Spec => []TypeOK
<1> USE ConstantsAssumption DEF Callback
<1>1. Init => TypeOK
  BY DEF Init, TypeOK
<1>2. ASSUME TypeOK, [Next]_vars
      PROVE  TypeOK'
  <2> USE <1>2 DEF TypeOK, managerVars, sessionVars, libcoapVars,
                   Destroyed
  <2>1. ASSUME NEW h \in Handling, SendUnusable(h) PROVE TypeOK'
    BY <2>1 DEF SendUnusable
  <2>2. ASSUME NEW h \in Handling, UpdateDefaultHandling(h) PROVE TypeOK'
    BY <2>2 DEF UpdateDefaultHandling
  <2>3. ASSUME NEW h \in Handling, NEW t \in Token, SendThrows(h, t)
        PROVE  TypeOK'
    BY <2>3 DEF SendThrows
  <2>4. ASSUME NEW h \in Handling, NEW t \in Token, NEW type \in MessageType,
               Send(h, t, type)
        PROVE  TypeOK'
    BY <2>4 DEF Send, SendRegisters, CoapSend
  <2>5. ASSUME NEW h \in Handling, NEW t \in Token, SendFails(h, t)
        PROVE  TypeOK'
    BY <2>5 DEF SendFails, SendRegisters
  <2>6. ASSUME NEW t \in Token, RemoveHandling(t) PROVE TypeOK'
    BY <2>6 DEF RemoveHandling, Remove
  <2>7. ASSUME NEW t \in Token, NEW type \in MessageType,
               SendWithoutHandling(t, type)
        PROVE  TypeOK'
    BY <2>7 DEF SendWithoutHandling, CoapSend
  <2>8. CASE ReleaseSession
    BY <2>8 DEF ReleaseSession
  <2>9. ASSUME NEW t \in Token, Piggybacked(t) PROVE TypeOK'
    BY <2>9, HandlerTypes DEF Piggybacked, Dequeue
  <2>10. ASSUME NEW t \in Token, Separate(t) PROVE TypeOK'
    BY <2>10, HandlerTypes DEF Separate
  <2>11. ASSUME NEW t \in Token, EmptyAck(t) PROVE TypeOK'
    BY <2>11 DEF EmptyAck, Dequeue
  <2>12. ASSUME NEW t \in Token, Mismatched(t) PROVE TypeOK'
    BY <2>12 DEF Mismatched, Dequeue
  <2>13. ASSUME NEW t \in Token, GivenUp(t) PROVE TypeOK'
    BY <2>13, HandlerTypes DEF GivenUp, Dequeue
  <2>14. ASSUME NEW t \in Token, Unreachable(t) PROVE TypeOK'
    BY <2>14, HandlerTypes DEF Unreachable
  <2>15. CASE AckReturns
    BY <2>15 DEF AckReturns, RemoveIfRegistered, Remove
  <2>16. CASE NackReturns
    BY <2>16 DEF NackReturns, RemoveIfRegistered, Remove
  <2>17. CASE DeleteManager
    BY <2>17 DEF DeleteManager
  <2>18. CASE UNCHANGED vars
    BY <2>18 DEF vars
  <2>19. QED
    BY <1>2, <2>1, <2>2, <2>3, <2>4, <2>5, <2>6, <2>7, <2>8, <2>9, <2>10,
       <2>11, <2>12, <2>13, <2>14, <2>15, <2>16, <2>17, <2>18
       DEF Next, Application, Libcoap
<1>3. QED
  BY <1>1, <1>2, PTL DEF Spec

------------------------------------------------------------------------------
(* Ownership.                                                              *)

(* What a step does to the map, the default and the life of handlings:     *)
(* nothing, an application's handling dies, one enters the map, one leaves *)
(* it, the default is replaced, or everything is deleted.                  *)
Refuses(h) ==
    /\ life[h] = "app"
    /\ life' = Destroyed({h})
    /\ UNCHANGED <<m_handlings, m_defaultHandling>>

Registers(h) ==
    /\ SendRegisters(h, TokenOf[h])
    /\ UNCHANGED m_defaultHandling

Removes(t) ==
    /\ m_handlings[t] # NoHandling
    /\ Remove(t)
    /\ UNCHANGED m_defaultHandling

Replaces(h) ==
    /\ life[h] = "app"
    /\ life' = [Destroyed({m_defaultHandling}) EXCEPT ![h] = "managed"]
    /\ m_defaultHandling' = h
    /\ UNCHANGED m_handlings

ManagerStep ==
    \/ UNCHANGED managerVars
    \/ \E h \in Handling : Refuses(h)
    \/ \E h \in Handling : Registers(h)
    \/ \E t \in Token : Removes(t)
    \/ \E h \in Handling : Replaces(h)
    \/ DeleteManager

(* Every step has one of these effects on the manager.                     *)
LEMMA StepEffect ==
    ASSUME TypeOK, [Next]_vars
    PROVE  ManagerStep
<1> USE DEF ManagerStep, managerVars
<1>1. ASSUME NEW h \in Handling, SendUnusable(h) PROVE ManagerStep
  BY <1>1 DEF SendUnusable, Refuses
<1>2. ASSUME NEW h \in Handling, UpdateDefaultHandling(h) PROVE ManagerStep
  BY <1>2 DEF UpdateDefaultHandling, Replaces
<1>3. ASSUME NEW h \in Handling, NEW t \in Token, SendThrows(h, t)
      PROVE  ManagerStep
  BY <1>3 DEF SendThrows, Refuses
<1>4. ASSUME NEW h \in Handling, NEW t \in Token, NEW type \in MessageType,
             Send(h, t, type)
      PROVE  ManagerStep
  BY <1>4 DEF Send, Registers, SendRegisters
<1>5. ASSUME NEW h \in Handling, NEW t \in Token, SendFails(h, t)
      PROVE  ManagerStep
  BY <1>5 DEF SendFails, Registers, SendRegisters
<1>6. ASSUME NEW t \in Token, RemoveHandling(t) PROVE ManagerStep
  BY <1>6 DEF RemoveHandling, Removes
<1>7. ASSUME NEW t \in Token, NEW type \in MessageType,
             SendWithoutHandling(t, type)
      PROVE  ManagerStep
  BY <1>7 DEF SendWithoutHandling
<1>8. CASE ReleaseSession
  BY <1>8 DEF ReleaseSession
<1>9. CASE Libcoap
  BY <1>9 DEF Libcoap, Piggybacked, Separate, EmptyAck, Mismatched, GivenUp,
              Unreachable
<1>10. ASSUME AckReturns \/ NackReturns PROVE ManagerStep
  <2>1. callback.token \in Token
    BY <1>10 DEF AckReturns, NackReturns, TypeOK, Callback
  <2>2. QED
    BY <1>10, <2>1 DEF AckReturns, NackReturns, RemoveIfRegistered, Removes
<1>11. CASE UNCHANGED vars
  BY <1>11 DEF vars
<1>12. QED
  BY <1>1, <1>2, <1>3, <1>4, <1>5, <1>6, <1>7, <1>8, <1>9, <1>10, <1>11
     DEF Next, Application

(* No such effect leaks a handling or leaves it with two owners.           *)
LEMMA OwnedOnceStep ==
    ASSUME TypeOK, OwnedOnce, ManagerStep
    PROVE  OwnedOnce'
<1> USE ConstantsAssumption DEF TypeOK, OwnedOnce, HeldByMap, Destroyed
<1>1. CASE UNCHANGED managerVars
  BY <1>1 DEF managerVars
<1>2. ASSUME NEW h \in Handling, Refuses(h) PROVE OwnedOnce'
  BY <1>2 DEF Refuses
<1>3. ASSUME NEW h \in Handling, Registers(h) PROVE OwnedOnce'
  BY <1>3 DEF Registers, SendRegisters
<1>4. ASSUME NEW t \in Token, Removes(t) PROVE OwnedOnce'
  BY <1>4 DEF Removes, Remove
<1>5. ASSUME NEW h \in Handling, Replaces(h) PROVE OwnedOnce'
  BY <1>5 DEF Replaces
<1>6. CASE DeleteManager
  BY <1>6 DEF DeleteManager
<1>7. QED
  BY <1>1, <1>2, <1>3, <1>4, <1>5, <1>6 DEF ManagerStep

(* Every handling is in one state of ownership and never leaks: this holds *)
(* of every application, the one that deletes the callee included.         *)
THEOREM Ownership == Spec => []OwnedOnce
<1>1. Init => OwnedOnce
  BY ConstantsAssumption DEF Init, OwnedOnce, HeldByMap
<1>2. TypeOK /\ OwnedOnce /\ [Next]_vars => OwnedOnce'
  BY StepEffect, OwnedOnceStep
<1>3. QED
  BY <1>1, <1>2, TypeCorrect, PTL DEF Spec

------------------------------------------------------------------------------
(* Closing the Session.                                                    *)

(* A callback needs app_data, and ~Session clears it before anything else. *)
ClosingInv == AppDataWhileOpen /\ NoCallbackWhileClosing

(* Every step keeps what is known of a closing Session.                    *)
LEMMA ClosingStep ==
    ASSUME TypeOK, ClosingInv, [Next]_vars
    PROVE  ClosingInv'
<1> USE DEF ClosingInv, AppDataWhileOpen, NoCallbackWhileClosing, sessionVars
<1>1. CASE UNCHANGED <<app_data, session, callback>>
  BY <1>1
<1>2. CASE ReleaseSession \/ DeleteManager
  BY <1>2 DEF ReleaseSession, DeleteManager, TypeOK
<1>3. ASSUME NEW t \in Token, OnAck(t) \/ OnNack(t), UNCHANGED sessionVars
      PROVE  ClosingInv'
  BY <1>3 DEF OnAck, OnNack, Reachable
<1>4. CASE Libcoap
  BY <1>1, <1>3, <1>4 DEF Libcoap, Piggybacked, Separate, EmptyAck,
                          Mismatched, GivenUp, Unreachable
<1>5. CASE AckReturns \/ NackReturns
  BY <1>5 DEF AckReturns, NackReturns
<1>6. CASE Application /\ ~ReleaseSession
  BY <1>1, <1>6 DEF Application, SendUnusable, UpdateDefaultHandling,
                    SendThrows, Send, SendFails, RemoveHandling,
                    SendWithoutHandling
<1>7. CASE UNCHANGED vars
  BY <1>1, <1>7 DEF vars
<1>8. QED
  BY <1>2, <1>4, <1>5, <1>6, <1>7 DEF Next

(* ~Session is never overtaken by a callback, for any application.         *)
THEOREM ClosingIsQuiet == Spec => []NoCallbackWhileClosing
<1>1. Init => ClosingInv
  BY DEF Init, ClosingInv, AppDataWhileOpen, NoCallbackWhileClosing
<1>2. TypeOK /\ ClosingInv /\ [Next]_vars => ClosingInv'
  BY ClosingStep
<1>3. ClosingInv => NoCallbackWhileClosing
  BY DEF ClosingInv
<1>4. QED
  BY <1>1, <1>2, <1>3, TypeCorrect, PTL DEF Spec

------------------------------------------------------------------------------
(* Who is called.                                                          *)

(* What RightHandlingCalled says of a step.                                *)
CalledRightly ==
    callback' \notin {callback, NoCallback} =>
        LET t == callback'.token IN
        /\ ~callback'.isDefault => TokenOf[callback'.handling] = t
        /\ (\E h \in Handling : life[h] = "managed" /\ TokenOf[h] = t
                                /\ m_defaultHandling # h)
               => ~callback'.isDefault

(* A handler's lookup finds a handling for the token, or the default.      *)
LEMMA EnterCallsRightly ==
    ASSUME TypeOK, OwnedOnce, NEW t \in Token, NEW kind, Enter(kind, t)
    PROVE  CalledRightly
<1>1. /\ callback'.token = t
      /\ callback'.handling = Route(t)
      /\ callback'.isDefault = IsDefault(t)
  BY DEF Enter
<1>2. ~IsDefault(t) => TokenOf[Route(t)] = t
  BY DEF IsDefault, Route, OwnedOnce
<1>3. ASSUME NEW h \in Handling, life[h] = "managed", TokenOf[h] = t,
             m_defaultHandling # h
      PROVE  ~IsDefault(t)
  BY <1>3, ConstantsAssumption DEF OwnedOnce, HeldByMap, IsDefault
<1>4. QED
  BY <1>1, <1>2, <1>3 DEF CalledRightly

(* Every lookup finds the handling registered under its token, and falls   *)
(* back on the default only when there is none.                            *)
THEOREM RightOneCalled == Spec => RightHandlingCalled
<1>1. ASSUME TypeOK, OwnedOnce, [Next]_vars
      PROVE  CalledRightly
  <2>1. CASE callback' = callback \/ callback' = NoCallback
    BY <2>1 DEF CalledRightly
  <2>2. ASSUME NEW t \in Token, OnAck(t) \/ OnNack(t)
        PROVE  CalledRightly
    BY <1>1, <2>1, <2>2, EnterCallsRightly DEF OnAck, OnNack
  <2>3. CASE Libcoap
    BY <2>1, <2>2, <2>3 DEF Libcoap, Piggybacked, Separate, EmptyAck,
                            Mismatched, GivenUp, Unreachable
  <2>4. CASE Application
    BY <2>1, <2>4
       DEF Application, SendUnusable, UpdateDefaultHandling, SendThrows, Send,
           SendFails, RemoveHandling, SendWithoutHandling, ReleaseSession
  <2>5. CASE AckReturns \/ NackReturns \/ DeleteManager
    BY <2>1, <2>5 DEF AckReturns, NackReturns, DeleteManager
  <2>6. CASE UNCHANGED vars
    BY <2>1, <2>6 DEF vars
  <2>7. QED
    BY <1>1, <2>3, <2>4, <2>5, <2>6 DEF Next
<1>2. TypeOK /\ OwnedOnce /\ [Next]_vars => [CalledRightly]_vars
  BY <1>1
<1>3. QED
  BY <1>2, TypeCorrect, Ownership, PTL
     DEF Spec, RightHandlingCalled, CalledRightly

------------------------------------------------------------------------------
(* The callee of a callback.                                               *)

(* A callee that is still where its lookup found it has not been deleted.  *)
LEMMA WhereFoundIsAlive ==
    ASSUME TypeOK, OwnedOnce, CalleeWhereFound
    PROVE  CalleeAlive
<1> SUFFICES ASSUME callback # NoCallback
             PROVE  life[callback.handling] = "managed"
  BY DEF CalleeAlive
<1>1. callback.handling \in Handling /\ callback.token \in Token
  BY DEF TypeOK, Callback
<1>2. QED
  BY <1>1, ConstantsAssumption
     DEF CalleeWhereFound, OwnedOnce, HeldByMap, TypeOK

(* Entering a callback records where the callee was found.                 *)
LEMMA EnterWhereFound ==
    ASSUME TypeOK, NEW t \in Token, NEW kind, Enter(kind, t),
           UNCHANGED managerVars
    PROVE  CalleeWhereFound'
BY DEF Enter, Route, IsDefault, CalleeWhereFound, managerVars

(* Only the calls that SafeReentry excludes move the callee.               *)
LEMMA CalleeStep ==
    ASSUME TypeOK, OwnedOnce, CalleeWhereFound, SafeReentry, ClosingInv,
           [Next]_vars
    PROVE  CalleeWhereFound'
<1>1. CASE UNCHANGED <<m_handlings, m_defaultHandling, callback>>
  BY <1>1 DEF CalleeWhereFound
<1>2. ASSUME NEW h \in Handling, UpdateDefaultHandling(h)
      PROVE  CalleeWhereFound'
  BY <1>2 DEF UpdateDefaultHandling, Calls, IsCalled, SafeReentry,
              CalleeWhereFound
<1>3. ASSUME NEW h \in Handling, NEW t \in Token, SendRegisters(h, t),
             UNCHANGED <<m_defaultHandling, callback>>
      PROVE  CalleeWhereFound'
  <2>1. callback # NoCallback =>
            callback.token \in Token /\ callback.handling \in Handling
    BY DEF TypeOK, Callback
  <2>2. QED
    BY <1>3, <2>1, ConstantsAssumption
       DEF SendRegisters, CalleeWhereFound, TypeOK
<1>4. ASSUME NEW t \in Token, RemoveHandling(t) PROVE CalleeWhereFound'
  <2>1. CASE callback = NoCallback
    BY <1>4, <2>1 DEF RemoveHandling, CalleeWhereFound
  <2>2. CASE callback # NoCallback
    <3>1. callback.token \in Token /\ callback.handling \in Handling
      BY <2>2 DEF TypeOK, Callback
    <3>2. m_handlings[t] # callback.handling
      BY <1>4, <2>2 DEF RemoveHandling, Calls, IsCalled, SafeReentry
    <3>3. QED
      BY <1>4, <2>2, <3>1, <3>2
         DEF RemoveHandling, Remove, CalleeWhereFound, TypeOK
  <2>3. QED
    BY <2>1, <2>2
<1>5. ASSUME NEW t \in Token, OnAck(t) \/ OnNack(t), UNCHANGED managerVars
      PROVE  CalleeWhereFound'
  BY <1>1, <1>5, EnterWhereFound DEF OnAck, OnNack, managerVars
<1>6. CASE Libcoap
  BY <1>1, <1>5, <1>6 DEF Libcoap, Piggybacked, Separate, EmptyAck,
                          Mismatched, GivenUp, Unreachable, managerVars
<1>7. CASE AckReturns \/ NackReturns \/ DeleteManager
  BY <1>7 DEF AckReturns, NackReturns, DeleteManager, CalleeWhereFound
<1>8. CASE Application
  BY <1>1, <1>2, <1>3, <1>4, <1>8
     DEF Application, SendUnusable, SendThrows, Send, SendFails,
         SendWithoutHandling, ReleaseSession, managerVars
<1>9. CASE UNCHANGED vars
  BY <1>1, <1>9 DEF vars, managerVars
<1>10. QED
  BY <1>6, <1>7, <1>8, <1>9 DEF Next

(* The callee of a callback survives it when the application deletes       *)
(* neither it nor the default that is being called from inside.            *)
THEOREM CalleeSurvives == SafeReentry => (Spec => []CalleeAlive)
<1> SUFFICES ASSUME SafeReentry PROVE Spec => []CalleeAlive
  OBVIOUS
<1>1. Init => CalleeWhereFound /\ ClosingInv
  BY DEF Init, CalleeWhereFound, ClosingInv, AppDataWhileOpen,
         NoCallbackWhileClosing
<1>2. TypeOK /\ OwnedOnce /\ CalleeWhereFound /\ ClosingInv /\ [Next]_vars
         => CalleeWhereFound' /\ ClosingInv'
  BY CalleeStep, ClosingStep
<1>3. TypeOK /\ OwnedOnce /\ CalleeWhereFound => CalleeAlive
  BY WhereFoundIsAlive
<1>4. QED
  BY <1>1, <1>2, <1>3, TypeCorrect, Ownership, PTL DEF Spec

------------------------------------------------------------------------------
(* Finished handlings.                                                     *)

(* A step that keeps the callee and its history keeps the finished gone.   *)
LEMMA FinishedStep ==
    ASSUME TypeOK, OwnedOnce, CalleeWhereFound, FinishedIsForgotten,
           [Next]_vars
    PROVE  FinishedIsForgotten'
<1> USE ConstantsAssumption
<1> DEFINE Gone(h) == \/ life[h] = "destroyed"
                      \/ IsCalled(h)
                      \/ m_defaultHandling = h
<1>1. SUFFICES ASSUME NEW h \in OneShot, h \in called' PROVE Gone(h)'
  BY DEF FinishedIsForgotten
<1>2. CASE UNCHANGED vars
  BY <1>1, <1>2 DEF vars, managerVars, FinishedIsForgotten,
                    IsCalled
<1>3. ASSUME NEW t \in Token, NEW kind \in {"onAck", "onNAck"},
             Reachable(t), Enter(kind, t), UNCHANGED managerVars,
             callback = NoCallback
      PROVE  Gone(h)'
  <2>1. callback' # NoCallback
    BY <1>3, EnterTypes
  <2>2. CASE h \in called
    BY <1>3, <2>2 DEF managerVars, FinishedIsForgotten, IsCalled
  <2>3. CASE h = Route(t)
    BY <1>3, <2>1, <2>3 DEF Enter, IsCalled
  <2>4. QED
    BY <1>1, <1>3, <2>2, <2>3 DEF Enter
<1>4. CASE h \in called /\ UNCHANGED <<callback, managerVars>>
  BY <1>4 DEF managerVars, FinishedIsForgotten, IsCalled
<1>5. CASE Libcoap
  BY <1>1, <1>3, <1>4, <1>5
     DEF Libcoap, Piggybacked, Separate, EmptyAck, Mismatched, GivenUp,
         Unreachable, OnAck, OnNack
<1>6. CASE (Application \/ DeleteManager) /\ UNCHANGED <<callback, called>>
  <2>1. Gone(h)
    BY <1>1, <1>6 DEF FinishedIsForgotten
  <2>2. ManagerStep
    BY StepEffect
  <2>3. QED
    BY <1>6, <2>1, <2>2
       DEF ManagerStep, Refuses, Registers, SendRegisters, Removes, Remove,
           Replaces, DeleteManager, Destroyed, IsCalled, managerVars, TypeOK
<1>7. CASE AckReturns \/ NackReturns
  <2>1. h \in called /\ callback' = NoCallback /\ UNCHANGED m_defaultHandling
    BY <1>1, <1>7 DEF AckReturns, NackReturns
  <2>2. CASE h # callback.handling
    BY <1>7, <2>1, <2>2
       DEF AckReturns, NackReturns, RemoveIfRegistered, Remove, Destroyed,
           FinishedIsForgotten, IsCalled, TypeOK
  <2>3. CASE h = callback.handling /\ callback.isDefault
    BY <1>7, <2>1, <2>3 DEF AckReturns, NackReturns, CalleeWhereFound
  <2>4. CASE h = callback.handling /\ ~callback.isDefault
    <3>1. life[h] = "managed"
      BY <1>7, <2>4, WhereFoundIsAlive DEF AckReturns, NackReturns, CalleeAlive
    <3>2. IsFinished(h) = {TRUE}
      BY <3>1 DEF IsFinished
    <3>3. m_handlings[callback.token] = h /\ h # NoHandling
      BY <1>7, <2>4 DEF AckReturns, NackReturns, CalleeWhereFound
    <3>4. Remove(callback.token)
      BY <1>7, <2>4, <3>2, <3>3
         DEF AckReturns, NackReturns, RemoveIfRegistered
    <3>5. QED
      BY <3>3, <3>4 DEF Remove, Destroyed
  <2>5. QED
    BY <2>2, <2>3, <2>4, <1>7 DEF TypeOK, Callback, AckReturns, NackReturns
<1>8. (Application \/ DeleteManager) => UNCHANGED <<callback, called>>
  BY DEF Application, DeleteManager, SendUnusable, UpdateDefaultHandling,
         SendThrows, Send, SendFails, RemoveHandling, SendWithoutHandling,
         ReleaseSession
<1>9. QED
  BY <1>2, <1>5, <1>6, <1>7, <1>8 DEF Next

(* A finished one-shot handling is gone once its callback is over, so it   *)
(* is called once and its token is free again.                             *)
THEOREM FinishedAreForgotten ==
    SafeReentry => (Spec => []FinishedIsForgotten)
<1> SUFFICES ASSUME SafeReentry PROVE Spec => []FinishedIsForgotten
  OBVIOUS
<1> DEFINE IInv == CalleeWhereFound /\ ClosingInv /\ FinishedIsForgotten
<1>1. Init => IInv
  BY DEF Init, CalleeWhereFound, ClosingInv, AppDataWhileOpen,
         NoCallbackWhileClosing, FinishedIsForgotten
<1>2. TypeOK /\ OwnedOnce /\ IInv /\ [Next]_vars => IInv'
  BY CalleeStep, ClosingStep, FinishedStep
<1>3. IInv => FinishedIsForgotten
  OBVIOUS
<1> HIDE DEF IInv
<1>4. QED
  BY <1>1, <1>2, <1>3, TypeCorrect, Ownership, PTL DEF Spec

------------------------------------------------------------------------------
(* The abstract life cycle.                                                *)

(* The effects on the manager only move ownership forward.                 *)
LEMMA MovesForward ==
    ASSUME TypeOK, TypeOK', OwnedOnce, ManagerStep
    PROVE  \A h \in Handling : Lifecycle!Forward(h)
<1> SUFFICES ASSUME NEW h \in Handling PROVE Lifecycle!Forward(h)
  OBVIOUS
<1> USE ConstantsAssumption DEF Lifecycle!Forward, TypeOK, Destroyed
<1>1. CASE UNCHANGED managerVars
  BY <1>1 DEF managerVars
<1>2. ASSUME NEW g \in Handling, Refuses(g) PROVE Lifecycle!Forward(h)
  BY <1>2 DEF Refuses
<1>3. ASSUME NEW g \in Handling, Registers(g) PROVE Lifecycle!Forward(h)
  BY <1>3 DEF Registers, SendRegisters
<1>4. ASSUME NEW t \in Token, Removes(t) PROVE Lifecycle!Forward(h)
  BY <1>4 DEF Removes, Remove, OwnedOnce, HeldByMap
<1>5. ASSUME NEW g \in Handling, Replaces(g) PROVE Lifecycle!Forward(h)
  BY <1>5 DEF Replaces, OwnedOnce, HeldByMap
<1>6. CASE DeleteManager
  BY <1>6 DEF DeleteManager, OwnedOnce, HeldByMap
<1>7. QED
  BY <1>1, <1>2, <1>3, <1>4, <1>5, <1>6 DEF ManagerStep

(* A step that leaves the stack alone and keeps the callee is a transfer.  *)
LEMMA TransferStep ==
    ASSUME TypeOK, TypeOK', OwnedOnce, OwnedOnce', CalleeWhereFound,
           CalleeWhereFound', ManagerStep, UNCHANGED callback
    PROVE  Lifecycle!Transfer
<1>1. \A h \in Handling : Lifecycle!Forward(h)
  BY MovesForward
<1>2. callback # NoCallback => life'[callback.handling] = life[callback.handling]
  <2>1. CalleeAlive
    BY WhereFoundIsAlive
  <2>2. ASSUME callback # NoCallback
        PROVE  life'[callback.handling] = "managed"
    <3>1. callback.handling \in Handling /\ callback.token \in Token
      BY <2>2 DEF TypeOK, Callback
    <3>2. QED
      BY <2>2, <3>1, ConstantsAssumption
         DEF CalleeWhereFound, OwnedOnce, HeldByMap, TypeOK
  <2>3. QED
    BY <2>1, <2>2 DEF CalleeAlive
<1>3. callback # NoCallback => callback.handling # NoHandling
  BY ConstantsAssumption DEF TypeOK, Callback
<1>4. life' \in [Handling -> Lifecycle!Life]
  BY DEF TypeOK, Lifecycle!Life
<1>5. QED
  BY <1>1, <1>2, <1>3, <1>4 DEF Lifecycle!Transfer

(* Entering a callback calls a managed handling.                           *)
LEMMA CallStep ==
    ASSUME TypeOK, OwnedOnce, NEW t \in Token,
           NEW kind \in {"onAck", "onNAck"}, Reachable(t), Enter(kind, t),
           UNCHANGED managerVars, callback = NoCallback
    PROVE  \E h \in Handling : Lifecycle!Call(h)
<1>1. Route(t) \in Handling
  BY DEF TypeOK, Reachable, Route
<1>2. life[Route(t)] = "managed"
  BY <1>1, ConstantsAssumption
     DEF Route, Reachable, OwnedOnce, HeldByMap, TypeOK
<1>3. callback' # NoCallback /\ callback'.handling = Route(t)
  BY EnterTypes, ConstantsAssumption DEF Enter
<1>4. Lifecycle!Call(Route(t))
  BY <1>2, <1>3 DEF Lifecycle!Call, managerVars
<1>5. QED
  BY <1>1, <1>4

(* Leaving a callback returns from a handling that is still managed.       *)
LEMMA ReturnStep ==
    ASSUME TypeOK, OwnedOnce, CalleeWhereFound, AckReturns \/ NackReturns
    PROVE  Lifecycle!Return
<1>1. /\ callback # NoCallback
      /\ callback.handling \in Handling
      /\ callback.token \in Token
      /\ callback' = NoCallback
  BY DEF AckReturns, NackReturns, TypeOK, Callback
<1>2. life[callback.handling] = "managed"
  BY <1>1, WhereFoundIsAlive DEF CalleeAlive
<1>3. \/ UNCHANGED life
      \/ \E h \in Handling : /\ life[h] = "managed"
                             /\ life' = [life EXCEPT ![h] = "destroyed"]
  <2>1. CASE m_handlings[callback.token] = NoHandling
    BY <2>1 DEF AckReturns, NackReturns, RemoveIfRegistered
  <2>2. CASE m_handlings[callback.token] # NoHandling
    <3> DEFINE h == m_handlings[callback.token]
    <3>1. h \in Handling /\ life[h] = "managed"
      BY <1>1, <2>2, ConstantsAssumption DEF OwnedOnce, HeldByMap, TypeOK
    <3>2. Destroyed({h}) = [life EXCEPT ![h] = "destroyed"]
      BY <3>1 DEF Destroyed, TypeOK
    <3>3. UNCHANGED life \/ life' = Destroyed({h})
      BY <2>2 DEF AckReturns, NackReturns, RemoveIfRegistered, Remove
    <3>4. QED
      BY <3>1, <3>2, <3>3
  <2>3. QED
    BY <2>1, <2>2
<1>4. callback.handling # NoHandling
  BY <1>1, ConstantsAssumption
<1>5. QED
  BY <1>1, <1>2, <1>3, <1>4 DEF Lifecycle!Return

(* Every step of the manager is a step of the life cycle.                  *)
LEMMA RefinementStep ==
    ASSUME TypeOK, TypeOK', OwnedOnce, OwnedOnce', CalleeWhereFound,
           CalleeWhereFound', [Next]_vars
    PROVE  [Lifecycle!Next]_(Lifecycle!vars)
<1> USE DEF Lifecycle!Next
<1>1. ManagerStep
  BY StepEffect
<1>2. CASE UNCHANGED callback
  BY <1>1, <1>2, TransferStep
<1>3. ASSUME NEW t \in Token, OnAck(t) \/ OnNack(t), UNCHANGED managerVars,
             callback = NoCallback
      PROVE  Lifecycle!Next
  <2>1. ASSUME NEW kind \in {"onAck", "onNAck"}, Reachable(t), Enter(kind, t)
        PROVE  Lifecycle!Next
    <3>1. \E h \in Handling : Lifecycle!Call(h)
      BY <1>3, <2>1, CallStep
    <3>2. QED
      BY <3>1
  <2>2. CASE Reachable(t) /\ (Enter("onAck", t) \/ Enter("onNAck", t))
    BY <2>1, <2>2
  <2>3. CASE UNCHANGED callback
    BY <1>1, <2>3, TransferStep
  <2>4. QED
    BY <1>3, <2>2, <2>3 DEF OnAck, OnNack
<1>4. CASE Libcoap
  BY <1>2, <1>3, <1>4 DEF Libcoap, Piggybacked, Separate, EmptyAck,
                          Mismatched, GivenUp, Unreachable
<1>5. CASE AckReturns \/ NackReturns
  BY <1>5, ReturnStep
<1>6. CASE Application \/ DeleteManager
  BY <1>2, <1>6
     DEF Application, DeleteManager, SendUnusable, UpdateDefaultHandling,
         SendThrows, Send, SendFails, RemoveHandling, SendWithoutHandling,
         ReleaseSession
<1>7. CASE UNCHANGED vars
  BY <1>2, <1>7 DEF vars
<1>8. QED
  BY <1>4, <1>5, <1>6, <1>7 DEF Next

(* The manager implements the life cycle it promises to each handling.     *)
THEOREM ImplementsLifecycle == SafeReentry => (Spec => LifecycleSpec)
<1> SUFFICES ASSUME SafeReentry PROVE Spec => LifecycleSpec
  OBVIOUS
<1> DEFINE IInv == CalleeWhereFound /\ ClosingInv
<1>1. Init => IInv /\ Lifecycle!Init
  BY DEF Init, CalleeWhereFound, ClosingInv, AppDataWhileOpen,
         NoCallbackWhileClosing, Lifecycle!Init, Lifecycle!Life
<1>2. TypeOK /\ OwnedOnce /\ IInv /\ [Next]_vars => IInv'
  BY CalleeStep, ClosingStep
<1>3. /\ TypeOK /\ TypeOK' /\ OwnedOnce /\ OwnedOnce' /\ IInv /\ IInv'
      /\ [Next]_vars
      => [Lifecycle!Next]_(Lifecycle!vars)
  BY RefinementStep
<1> HIDE DEF IInv
<1>4. QED
  BY <1>1, <1>2, <1>3, TypeCorrect, Ownership, PTL
     DEF Spec, LifecycleSpec, Lifecycle!Spec

------------------------------------------------------------------------------
(* Requests that are answered or given up.                                 *)

(* Every request is confirmable, libcoap takes it, and its answer rides on *)
(* the ACK: libcoap gives nothing up that it does not report.              *)
ReliableRequests ==
    /\ MessageType = {"CON"}
    /\ ~SendMayFail
    /\ Peer \cap {"separate", "mismatch"} = {}

(* A one-shot handling that waits for its answer is being called, or its   *)
(* request is in libcoap's queue.                                          *)
NoneForgotten ==
    session = "open" =>
        \A h \in OneShot :
            HeldByMap(h) => sendqueue[TokenOf[h]] > 0 \/ IsCalled(h)

(* What libcoap takes off its queue is reported to the handling.           *)
LEMMA DequeueCalls ==
    ASSUME TypeOK, AppDataWhileOpen, NEW h \in OneShot, NEW t \in Token,
           HeldByMap(h), TokenOf[h] = t, session = "open",
           OnAck(t) \/ OnNack(t)
    PROVE  IsCalled(h)'
<1>1. h \in Handling /\ h # NoHandling /\ m_handlings[t] = h
  BY ConstantsAssumption DEF HeldByMap
<1>2. Route(t) = h /\ Reachable(t)
  BY <1>1 DEF Route, Reachable, AppDataWhileOpen
<1>3. PICK kind \in {"onAck", "onNAck"} : Enter(kind, t)
  BY <1>2 DEF OnAck, OnNack
<1>4. callback' # NoCallback
  BY <1>2, <1>3, EnterTypes, ConstantsAssumption
<1>5. QED
  BY <1>2, <1>3, <1>4 DEF Enter, IsCalled

(* A one-shot handling in the map is gone when its callback is over.       *)
LEMMA CalledIsRemoved ==
    ASSUME TypeOK, OwnedOnce, CalleeWhereFound, NEW h \in OneShot,
           HeldByMap(h), IsCalled(h), AckReturns \/ NackReturns
    PROVE  ~HeldByMap(h)'
<1>1. /\ h \in Handling /\ h # NoHandling
      /\ callback # NoCallback /\ callback.handling = h
      /\ callback.token \in Token
  BY ConstantsAssumption DEF IsCalled, TypeOK, Callback
<1>2. life[h] = "managed" /\ m_defaultHandling # h
  BY <1>1 DEF OwnedOnce
<1>3. ~callback.isDefault /\ m_handlings[callback.token] = h
  BY <1>1, <1>2 DEF CalleeWhereFound
<1>4. TokenOf[h] = callback.token
  BY <1>1, <1>3 DEF OwnedOnce
<1>5. IsFinished(h) = {TRUE}
  BY <1>2 DEF IsFinished
<1>6. Remove(callback.token)
  BY <1>1, <1>3, <1>5 DEF AckReturns, NackReturns, RemoveIfRegistered
<1>7. m_handlings'[TokenOf[h]] = NoHandling
  BY <1>1, <1>4, <1>6 DEF Remove, TypeOK
<1>8. QED
  BY <1>1, <1>7 DEF HeldByMap

(* Every step keeps the waiting handlings reachable.                       *)
LEMMA NoneForgottenStep ==
    ASSUME TypeOK, OwnedOnce, CalleeWhereFound, AppDataWhileOpen,
           NoneForgotten, ReliableRequests, [Next]_vars
    PROVE  NoneForgotten'
<1> USE ConstantsAssumption
<1>1. SUFFICES ASSUME session' = "open", NEW h \in OneShot, HeldByMap(h)'
               PROVE  sendqueue'[TokenOf[h]] > 0 \/ IsCalled(h)'
  BY DEF NoneForgotten
<1> DEFINE t == TokenOf[h]
<1>2. h \in Handling /\ h # NoHandling /\ t \in Token
  OBVIOUS
<1>3. sendqueue[t] \in Nat
  BY <1>2 DEF TypeOK
<1>4. session = "open"
  BY <1>1 DEF Next, Application, Libcoap, SendUnusable, SendThrows, Send,
      SendRegisters, SendFails, SendWithoutHandling, RemoveHandling,
      UpdateDefaultHandling, Calls, ReleaseSession, Piggybacked, Separate,
      EmptyAck, Mismatched, GivenUp, Unreachable, AckReturns, NackReturns,
      DeleteManager, sessionVars, vars
<1>5. HeldByMap(h) => sendqueue[t] > 0 \/ IsCalled(h)
  BY <1>4 DEF NoneForgotten
<1>6. ASSUME NEW g \in Handling, NEW u \in Token, NEW type \in MessageType,
             Send(g, u, type)
      PROVE  sendqueue'[t] > 0 \/ IsCalled(h)'
  <2>1. type = "CON"
    BY DEF ReliableRequests
  <2>2. /\ sendqueue' = [sendqueue EXCEPT ![u] = sendqueue[u] + 1]
        /\ m_handlings' = [m_handlings EXCEPT ![u] = g]
        /\ callback' = callback
    BY <1>6, <2>1 DEF Send, CoapSend, SendRegisters
  <2>3. CASE t = u
    BY <1>2, <1>3, <2>2, <2>3 DEF TypeOK
  <2>4. CASE t # u
    BY <1>1, <1>2, <1>5, <2>2, <2>4 DEF TypeOK, HeldByMap, IsCalled
  <2>5. QED
    BY <2>3, <2>4
<1>7. ASSUME NEW u \in Token, NEW type \in MessageType,
             SendWithoutHandling(u, type)
      PROVE  sendqueue'[t] > 0 \/ IsCalled(h)'
  <2>1. type = "CON"
    BY DEF ReliableRequests
  <2>2. /\ sendqueue' = [sendqueue EXCEPT ![u] = sendqueue[u] + 1]
        /\ m_handlings' = m_handlings
        /\ callback' = callback
    BY <1>7, <2>1 DEF SendWithoutHandling, CoapSend, managerVars
  <2>3. CASE t = u
    BY <1>2, <1>3, <2>2, <2>3 DEF TypeOK
  <2>4. CASE t # u
    BY <1>1, <1>2, <1>5, <2>2, <2>4 DEF TypeOK, HeldByMap, IsCalled
  <2>5. QED
    BY <2>3, <2>4
<1>8. ASSUME UNCHANGED <<callback, sendqueue>>, HeldByMap(h)
      PROVE  sendqueue'[t] > 0 \/ IsCalled(h)'
  BY <1>5, <1>8 DEF IsCalled
<1>9. CASE Application
  <2>1. ASSUME NEW g \in Handling, SendUnusable(g)
        PROVE  HeldByMap(h) /\ UNCHANGED <<callback, sendqueue>>
    BY <1>1, <2>1 DEF SendUnusable, HeldByMap, libcoapVars
  <2>2. ASSUME NEW g \in Handling, UpdateDefaultHandling(g)
        PROVE  HeldByMap(h) /\ UNCHANGED <<callback, sendqueue>>
    BY <1>1, <2>2 DEF UpdateDefaultHandling, HeldByMap, libcoapVars
  <2>3. ASSUME NEW g \in Handling, NEW u \in Token, SendThrows(g, u)
        PROVE  HeldByMap(h) /\ UNCHANGED <<callback, sendqueue>>
    BY <1>1, <2>3 DEF SendThrows, HeldByMap, libcoapVars
  <2>4. ASSUME NEW g \in Handling, NEW u \in Token, SendFails(g, u)
        PROVE  FALSE
    BY <2>4 DEF SendFails, ReliableRequests
  <2>5. ASSUME NEW u \in Token, RemoveHandling(u)
        PROVE  HeldByMap(h) /\ UNCHANGED <<callback, sendqueue>>
    BY <1>1, <1>2, <2>5
    DEF RemoveHandling, Remove, HeldByMap, libcoapVars, TypeOK
  <2>6. ASSUME ReleaseSession
        PROVE  FALSE
    BY <1>1, <2>6 DEF ReleaseSession
  <2>7. QED
    BY <1>6, <1>7, <1>8, <1>9, <2>1, <2>2, <2>3, <2>4, <2>5, <2>6
    DEF Application
<1>10. CASE Libcoap
  <2>1. PICK u \in Token : Piggybacked(u) \/ GivenUp(u) \/ Unreachable(u)
    BY <1>10 DEF Libcoap, Separate, EmptyAck, Mismatched, ReliableRequests
  <2>2. /\ UNCHANGED managerVars
        /\ callback = NoCallback
        /\ OnAck(u) \/ OnNack(u)
        /\ \/ sendqueue' = sendqueue
           \/ sendqueue' = [sendqueue EXCEPT ![u] = sendqueue[u] - 1]
    BY <2>1 DEF Piggybacked, GivenUp, Unreachable, Dequeue, libcoapVars
  <2>3. HeldByMap(h)
    BY <1>1, <2>2 DEF HeldByMap, managerVars
  <2>4. CASE t = u
    BY <1>4, <2>2, <2>3, <2>4, DequeueCalls
  <2>5. CASE t # u
    <3>1. sendqueue'[t] = sendqueue[t]
      BY <1>2, <2>2, <2>5 DEF TypeOK
    <3>2. ~IsCalled(h)
      BY <2>2 DEF IsCalled
    <3>3. QED
      BY <1>5, <2>3, <3>1, <3>2
  <2>6. QED
    BY <2>4, <2>5
<1>11. CASE AckReturns \/ NackReturns
  <2>1. HeldByMap(h)
    BY <1>1, <1>2, <1>11
    DEF AckReturns, NackReturns, RemoveIfRegistered, Remove, HeldByMap, TypeOK
  <2>2. ~IsCalled(h)
    BY <1>1, <1>11, <2>1, CalledIsRemoved
  <2>3. sendqueue' = sendqueue
    BY <1>11 DEF AckReturns, NackReturns, libcoapVars
  <2>4. QED
    BY <1>5, <2>1, <2>2, <2>3
<1>12. CASE DeleteManager
  BY <1>1, <1>12 DEF DeleteManager
<1>13. CASE UNCHANGED vars
  BY <1>1, <1>8, <1>13 DEF vars, managerVars, libcoapVars, HeldByMap
<1>14. QED
  BY <1>9, <1>10, <1>11, <1>12, <1>13 DEF Next

(* No confirmable request is lost between libcoap and the manager: while   *)
(* the session is open, a one-shot handling that send() registered is      *)
(* called, or libcoap still has a request of its token to answer or give   *)
(* up (SendersManagerHandlerWrapper.cc:13-103).  What RequestsEnd adds is  *)
(* that libcoap concludes what it has.                                     *)
THEOREM NoRequestIsForgotten ==
    SafeReentry /\ ReliableRequests => (Spec => []NoneForgotten)
<1> SUFFICES ASSUME SafeReentry, ReliableRequests
             PROVE  Spec => []NoneForgotten
  OBVIOUS
<1> DEFINE IInv == CalleeWhereFound /\ ClosingInv /\ NoneForgotten
<1>1. Init => IInv
  <2>1. ASSUME Init
        PROVE  NoneForgotten
    BY <2>1, ConstantsAssumption DEF Init, NoneForgotten, HeldByMap
  <2>2. QED
    BY <2>1 DEF Init, CalleeWhereFound, ClosingInv, AppDataWhileOpen,
                NoCallbackWhileClosing
<1>2. TypeOK /\ OwnedOnce /\ IInv /\ [Next]_vars => IInv'
  BY CalleeStep, ClosingStep, NoneForgottenStep DEF ClosingInv
<1>3. IInv => NoneForgotten
  OBVIOUS
<1> HIDE DEF IInv
<1>4. QED
  BY <1>1, <1>2, <1>3, TypeCorrect, Ownership, PTL DEF Spec
==============================================================================
