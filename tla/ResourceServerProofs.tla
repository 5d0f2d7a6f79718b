------------------------ MODULE ResourceServerProofs ------------------------
(***************************************************************************)
(* Theorems about ResourceServer, for any number of clients and resources: *)
(* types, the owner of each resource, the temporary Session, the observers *)
(* of a resource, and the reference count of a session that has only       *)
(* served GET.                                                             *)
(***************************************************************************)
EXTENDS ResourceServer, TLAPS

------------------------------------------------------------------------------
(* Counting.                                                               *)

(* A count that is taken from stays a count.                               *)
LEMMA LessType ==
    ASSUME NEW m \in Nat, NEW n \in Nat PROVE Less(m, n) \in Nat
BY DEF Less

(* Releasing what was counted undoes it.                                   *)
LEMMA LessUndoes ==
    ASSUME NEW m \in Nat, NEW n \in Nat PROVE Less(m + n, n) = m
BY DEF Less

(* The count after a response.                                             *)
LEMMA CountedType ==
    ASSUME TypeOK, NEW c \in Client, NEW reason \in Reason, NEW dropped
    PROVE  /\ Counted(c, reason, dropped) \in [Client -> Nat]
           /\ \A d \in Client \ {c} : Counted(c, reason, dropped)[d] = ref[d]
           /\ Counted(c, reason, dropped)[c] =
                  Less(ref[c] + One(Sent(reason)), One(dropped))
<1>1. Less(ref[c] + One(Sent(reason)), One(dropped)) \in Nat
  BY DEF One, Less, TypeOK
<1>2. QED
  BY <1>1 DEF Counted, TypeOK

------------------------------------------------------------------------------
(* Type correctness.                                                       *)

(* A step of libcoap before the GET callback keeps the types.              *)
LEMMA SubscribeTypes ==
    ASSUME TypeOK, NEW c \in Client, NEW reason \in Reason,
           Subscribe(c, reason)
    PROVE  /\ observers' \in SUBSET Client
           /\ dirty' \in SUBSET Client
           /\ ref' \in [Client -> Nat]
<1>1. observers' \in SUBSET Client
  BY DEF Subscribe, TypeOK, Reason
<1>2. dirty' \in SUBSET Client
  BY DEF Subscribe, TypeOK, Reason
<1>3. Less(ref[c], 1) \in Nat
  BY LessType DEF TypeOK
<1>4. ref' \in [Client -> Nat]
  BY <1>3 DEF Subscribe, TypeOK
<1>5. QED
  BY <1>1, <1>2, <1>4

(* So does a response.                                                     *)
LEMMA RespondTypes ==
    ASSUME TypeOK, NEW c \in Client, NEW reason \in Reason, NEW dropped,
           Respond(c, reason, dropped)
    PROVE  /\ observers' \in SUBSET Client
           /\ dirty' \in SUBSET Client
           /\ queued' \in [Client -> Nat]
<1>1. queued[c] + One(Sent(reason)) \in Nat
  BY DEF One, TypeOK
<1>2. QED
  BY <1>1 DEF Respond, TypeOK

(* Every variable keeps its type; no count goes below zero.                *)
THEOREM TypeCorrect == Spec => []TypeOK
<1> USE ConstantsAssumption
<1>1. ASSUME Init
      PROVE  TypeOK
  <2>1. m_resourceInterface \in [Resource -> SUBSET Code]
    BY <1>1 DEF Init
  <2>2. /\ life \in [Resource -> {"app", "registered", "deleted"}]
        /\ ref \in [Client -> Nat]
        /\ queued \in [Client -> Nat]
    BY <1>1 DEF Init
  <2>3. QED
    BY <1>1, <2>1, <2>2 DEF Init, TypeOK
<1>2. ASSUME TypeOK, [Next]_vars
      PROVE  TypeOK'
  <2>1. ASSUME NEW r \in Resource, NEW code \in Code, RegisterInterface(r, code)
        PROVE  TypeOK'
    BY <1>2, <2>1 DEF TypeOK, RegisterInterface, sessionVars, observeVars
  <2>2. ASSUME NEW r \in Resource, RegisterResource(r)
        PROVE  TypeOK'
    BY <1>2, <2>2 DEF TypeOK, RegisterResource, sessionVars, observeVars
  <2>3. ASSUME UnregisterResource
        PROVE  TypeOK'
    <3>1. \A c \in Client : Less(ref[c], One(c \in observers)) \in Nat
      BY <1>2 DEF One, Less, TypeOK
    <3>2. ref' \in [Client -> Nat]
      BY <2>3, <3>1 DEF UnregisterResource
    <3>3. QED
      BY <1>2, <2>3, <3>2 DEF TypeOK, UnregisterResource
  <2>4. ASSUME NEW enable \in BOOLEAN,
               EnableNotificationMessageConfirmable(enable)
        PROVE  TypeOK'
    BY <1>2, <2>4
    DEF TypeOK, EnableNotificationMessageConfirmable, sessionVars, observeVars
  <2>5. ASSUME NotifyObserver
        PROVE  TypeOK'
    BY <1>2, <2>5 DEF TypeOK, NotifyObserver, resourceVars, sessionVars
  <2>6. ASSUME NEW c \in Client, NEW code \in Code, NEW reason \in Reason,
               EnterRequest(c, code, reason)
        PROVE  TypeOK'
    <3>1. request' \in Request
      BY <1>2, <2>6 DEF EnterRequest, Request, TypeOK
    <3>2. app_data' \in SUBSET Client
      BY <1>2, <2>6 DEF EnterRequest, SessionMade, TypeOK
    <3>3. Subscribe(c, reason)
      BY <2>6 DEF EnterRequest
    <3>4. QED
      BY <1>2, <2>6, <3>1, <3>2, <3>3, SubscribeTypes
      DEF TypeOK, EnterRequest, resourceVars
  <2>7. ASSUME NEW c \in Client, NEW code \in Code, NEW reason \in Reason,
               NotImplemented(c, code, reason)
        PROVE  TypeOK'
    <3> DEFINE dropped == reason # "request" /\ c \in observers
    <3>1. Respond(c, reason, dropped) /\ ref' = Counted(c, reason, dropped)
      BY <2>7 DEF NotImplemented
    <3> HIDE DEF dropped
    <3>2. QED
      BY <1>2, <2>7, <3>1, RespondTypes, CountedType
      DEF TypeOK, NotImplemented, resourceVars
  <2>8. ASSUME NEW ok \in BOOLEAN, LeaveRequest(ok)
        PROVE  TypeOK'
    <3> DEFINE c == request.client
               dropped == ~ok /\ request.reason # "request" /\ c \in observers
               count == Counted(c, request.reason, dropped)
    <3>1. c \in Client /\ request.reason \in Reason
      BY <1>2, <2>8 DEF LeaveRequest, TypeOK, Request
    <3>2. Respond(c, request.reason, dropped)
      BY <2>8 DEF LeaveRequest
    <3>3. SessionGone(c, request.code, count)
      BY <2>8 DEF LeaveRequest
    <3>4. wrote' \in SUBSET Client
      BY <1>2, <2>8, <3>1 DEF LeaveRequest, TypeOK
    <3>5. /\ request' = NoRequest
          /\ UNCHANGED <<resourceVars, alive>>
      BY <2>8 DEF LeaveRequest
    <3> HIDE DEF c, dropped
    <3>6. count \in [Client -> Nat]
      BY <1>2, <3>1, CountedType
    <3> HIDE DEF count
    <3>7. Less(count[c], 1) \in Nat
      BY <3>1, <3>6, LessType
    <3>8. ref' \in [Client -> Nat] /\ app_data' \in SUBSET Client
      BY <1>2, <3>3, <3>6, <3>7 DEF SessionGone, TypeOK
    <3>9. QED
      BY <1>2, <3>1, <3>2, <3>4, <3>5, <3>8, RespondTypes
      DEF TypeOK, resourceVars
  <2>9. ASSUME NEW c \in Client, NewSession(c)
        PROVE  TypeOK'
    BY <1>2, <2>9 DEF TypeOK, NewSession, resourceVars, observeVars
  <2>10. ASSUME NEW c \in Client, NEW lost \in BOOLEAN,
                NotificationEnds(c, lost)
         PROVE  TypeOK'
    <3> DEFINE dropped == lost /\ c \in observers
    <3>1. Less(ref[c], 1 + One(dropped)) \in Nat
      BY <1>2 DEF One, Less, TypeOK
    <3>2. ref' = [ref EXCEPT ![c] = Less(@, 1 + One(dropped))]
      BY <2>10 DEF NotificationEnds
    <3>3. ref' \in [Client -> Nat]
      BY <1>2, <3>1, <3>2 DEF TypeOK
    <3>4. queued' \in [Client -> Nat]
      BY <1>2, <2>10 DEF TypeOK, NotificationEnds
    <3>5. QED
      BY <1>2, <2>10, <3>3, <3>4 DEF TypeOK, NotificationEnds, resourceVars
  <2>11. ASSUME NEW c \in Client, ReclaimSession(c)
         PROVE  TypeOK'
    BY <1>2, <2>11 DEF TypeOK, ReclaimSession, resourceVars, observeVars
  <2>12. CASE UNCHANGED vars
    BY <1>2, <2>12
    DEF TypeOK, vars, resourceVars, sessionVars, observeVars
  <2>13. QED
    BY <1>2, <2>1, <2>2, <2>3, <2>4, <2>5, <2>6, <2>7, <2>8, <2>9, <2>10,
       <2>11, <2>12 DEF Next, ResourceOperations, ResourceManagerOperations,
        Requests, ClientSessions
<1>3. QED
  BY <1>1, <1>2, PTL DEF Spec

------------------------------------------------------------------------------
(* Resources.                                                              *)

(* The manager owns each registered resource and no other: registering on  *)
(* a taken path and unregistering leave one owner.                         *)
THEOREM Registration == Spec => []RegisteredOnce
<1>1. ASSUME Init
      PROVE  RegisteredOnce
  BY <1>1, ConstantsAssumption DEF Init, RegisteredOnce
<1>2. ASSUME TypeOK, RegisteredOnce, [Next]_vars
      PROVE  RegisteredOnce'
  <2>1. ASSUME NEW r \in Resource, RegisterResource(r)
        PROVE  RegisteredOnce'
    BY <1>2, <2>1, ConstantsAssumption
    DEF RegisteredOnce, RegisterResource, TypeOK
  <2>2. ASSUME UnregisterResource
        PROVE  RegisteredOnce'
    BY <1>2, <2>2, ConstantsAssumption
    DEF RegisteredOnce, UnregisterResource, TypeOK
  <2>3. CASE UNCHANGED <<m_resources, life>>
    BY <1>2, <2>3 DEF RegisteredOnce
  <2>4. QED
    BY <1>2, <2>1, <2>2, <2>3
    DEF Next, ResourceOperations, ResourceManagerOperations,
        Requests, ClientSessions, RegisterInterface,
        EnableNotificationMessageConfirmable, NotifyObserver, EnterRequest, NotImplemented, LeaveRequest,
        NewSession, NotificationEnds, ReclaimSession, resourceVars, vars
<1>3. QED
  BY <1>1, <1>2, TypeCorrect, PTL DEF Spec

(* An observed resource stays registered and keeps its GET interface.      *)
THEOREM ObserversServed == Spec => []ObserversAreServed
<1>1. ASSUME Init
      PROVE  ObserversAreServed
  BY <1>1 DEF Init, ObserversAreServed
<1>2. ASSUME TypeOK, ObserversAreServed, [Next]_vars
      PROVE  ObserversAreServed'
  <2>1. ASSUME NEW r \in Resource, NEW code \in Code,
               RegisterInterface(r, code)
        PROVE  ObserversAreServed'
    BY <1>2, <2>1
    DEF ObserversAreServed, RegisterInterface, TypeOK, observeVars
  <2>2. ASSUME NEW r \in Resource, RegisterResource(r)
        PROVE  ObserversAreServed'
    BY <1>2, <2>2, ConstantsAssumption
    DEF ObserversAreServed, RegisterResource, TypeOK, observeVars
  <2>3. CASE UnregisterResource
    BY <2>3 DEF ObserversAreServed, UnregisterResource
  <2>4. ASSUME NEW c \in Client, NEW code \in Code, NEW reason \in Reason,
               Asked(c, code, reason), EnterRequest(c, code, reason)
        PROVE  ObserversAreServed'
    <3>1. CASE reason = "observe"
      BY <2>4, <3>1
      DEF ObserversAreServed, EnterRequest, Asked, resourceVars
    <3>2. CASE reason # "observe"
      BY <1>2, <2>4, <3>2
      DEF ObserversAreServed, EnterRequest, Subscribe, resourceVars
    <3>3. QED
      BY <3>1, <3>2
  <2>5. CASE /\ observers' \subseteq observers
             /\ UNCHANGED <<m_resources, m_resourceInterface>>
    BY <1>2, <2>5 DEF ObserversAreServed
  <2>6. QED
    BY <1>2, <2>1, <2>2, <2>3, <2>4, <2>5
    DEF Next, ResourceOperations, ResourceManagerOperations,
        Requests, ClientSessions, EnableNotificationMessageConfirmable,
        NotifyObserver,
        NotImplemented, LeaveRequest, Respond, NewSession, NotificationEnds,
        ReclaimSession, resourceVars, observeVars, vars
<1>3. QED
  BY <1>1, <1>2, TypeCorrect, PTL DEF Spec

------------------------------------------------------------------------------
(* Sessions.                                                               *)

(* Only an owning Session sets app_data, and it is the one whose callback  *)
(* is on the stack: what a callback over a borrowed session must not find. *)
AppDataOwned ==
    \A c \in app_data :
        request # NoRequest /\ request.client = c /\ Owning(request.code)

(* The temporary Session of a callback is found through app_data by nobody *)
(* once the callback is over.                                              *)
THEOREM TemporarySession == Spec => []AppDataOnlyInRequest
<1>1. ASSUME Init
      PROVE  AppDataOwned
  BY <1>1 DEF Init, AppDataOwned
<1>2. ASSUME TypeOK, AppDataOwned, [Next]_vars
      PROVE  AppDataOwned'
  <2>1. ASSUME NEW c \in Client, NEW code \in Code, NEW reason \in Reason,
               EnterRequest(c, code, reason)
        PROVE  AppDataOwned'
    <3>1. app_data = {} /\ request' # NoRequest
      BY <1>2, <2>1, ConstantsAssumption
      DEF AppDataOwned, EnterRequest, Request, TypeOK
    <3>2. QED
      BY <2>1, <3>1
      DEF AppDataOwned, EnterRequest, SessionMade, Owning
  <2>2. ASSUME NEW ok \in BOOLEAN, LeaveRequest(ok)
        PROVE  AppDataOwned'
    <3>1. app_data' = {}
      BY <1>2, <2>2
      DEF AppDataOwned, LeaveRequest, SessionGone, Owning, TypeOK
    <3>2. QED
      BY <3>1 DEF AppDataOwned
  <2>3. CASE UNCHANGED <<app_data, request>>
    BY <1>2, <2>3 DEF AppDataOwned, Owning
  <2>4. QED
    BY <1>2, <2>1, <2>2, <2>3
    DEF Next, ResourceOperations, ResourceManagerOperations,
        Requests, ClientSessions, RegisterInterface, RegisterResource,
        UnregisterResource,
        EnableNotificationMessageConfirmable, NotifyObserver, NotImplemented,
        NewSession, NotificationEnds, ReclaimSession, vars
<1>3. ASSUME AppDataOwned
      PROVE  AppDataOnlyInRequest
  BY <1>3 DEF AppDataOwned, AppDataOnlyInRequest
<1>4. QED
  BY <1>1, <1>2, <1>3, TypeCorrect, PTL DEF Spec

(* A request is served on a session libcoap has.                           *)
CallerAlive == request # NoRequest => request.client \in alive

(* The count of client d, and what it says about its session.              *)
Exact(d) ==
    d \notin wrote =>
        /\ d \in alive => ref[d] = Holders(d)
        /\ Holders(d) > 0 => d \in alive

CountInv == CallerAlive /\ \A d \in Client : Exact(d)

(* One response to client c, with or without a notification waiting for    *)
(* its ACK, with or without the observer dropped, keeps the count exact.   *)
LEMMA ResponseIsExact ==
    ASSUME TypeOK, NEW c \in Client, NEW reason \in Reason,
           NEW dropped \in BOOLEAN, dropped => c \in observers,
           Respond(c, reason, dropped), ref' = Counted(c, reason, dropped),
           c \in alive, alive' = alive,
           NEW d \in Client, d \notin wrote, Exact(d)
    PROVE  Exact(d)'
<1>1. CASE d # c
  <2>1. ref'[d] = ref[d] /\ queued'[d] = queued[d]
    BY <1>1 DEF TypeOK, Counted, Respond
  <2>2. d \in observers' <=> d \in observers
    BY <1>1 DEF Respond
  <2>3. QED
    BY <2>1, <2>2 DEF Exact, Holders, One
<1>2. CASE d = c
  <2>1. queued'[d] = queued[d] + One(Sent(reason))
    BY <1>2 DEF Respond, TypeOK
  <2>2. ref'[d] = Less(ref[d] + One(Sent(reason)), One(dropped))
    BY <1>2 DEF Counted, TypeOK
  <2>3. ref[d] = One(d \in observers) + queued[d]
    BY <1>2 DEF Exact, Holders
  <2>4. d \in observers' <=> d \in observers /\ ~dropped
    BY <1>2 DEF Respond
  <2>5. queued[d] \in Nat
    BY DEF TypeOK
  <2>6. ref'[d] = One(d \in observers') + queued'[d]
    BY <2>1, <2>2, <2>3, <2>4, <2>5, <1>2 DEF One, Less
  <2>7. QED
    BY <1>2, <2>6 DEF Exact, Holders
<1>3. QED
  BY <1>1, <1>2

(* So does what libcoap does with an observation before the GET callback.  *)
LEMMA SubscriptionIsExact ==
    ASSUME TypeOK, NEW c \in Client, NEW reason \in Reason,
           Subscribe(c, reason), c \in alive, UNCHANGED <<alive, queued, wrote>>,
           NEW d \in Client, Exact(d)
    PROVE  Exact(d)'
BY DEF Exact, Holders, One, Less, Subscribe, TypeOK

(* The reference count of a session that served only GET is exact, and the *)
(* session is there as long as something refers to it.                     *)
THEOREM CountIsExact == Spec => [](GetKeepsCount /\ GetKeepsSession)
<1>1. ASSUME Init
      PROVE  CountInv
  BY <1>1 DEF Init, CountInv, CallerAlive, Exact, Holders, One
<1>2. ASSUME TypeOK, CountInv, [Next]_vars
      PROVE  CountInv'
  <2> DEFINE Same == UNCHANGED <<alive, ref, queued, observers, wrote>>
  <2>1. ASSUME Same, UNCHANGED request
        PROVE  CountInv'
    BY <1>2, <2>1 DEF CountInv, CallerAlive, Exact, Holders
  <2>2. CASE UnregisterResource
    BY <1>2, <2>2
    DEF CountInv, CallerAlive, Exact, Holders, One, Less, UnregisterResource,
        TypeOK
  <2>3. ASSUME NEW c \in Client, NEW code \in Code, NEW reason \in Reason,
               EnterRequest(c, code, reason)
        PROVE  CountInv'
    <3>1. CallerAlive'
      BY <2>3 DEF EnterRequest, CallerAlive
    <3>2. ASSUME NEW d \in Client
          PROVE  Exact(d)'
      BY <1>2, <2>3, <3>2, SubscriptionIsExact DEF CountInv, EnterRequest
    <3>3. QED
      BY <3>1, <3>2 DEF CountInv
  <2>4. ASSUME NEW c \in Client, NEW code \in Code, NEW reason \in Reason,
               NotImplemented(c, code, reason)
        PROVE  CountInv'
    <3> DEFINE dropped == reason # "request" /\ c \in observers
    <3>1. /\ Respond(c, reason, dropped)
          /\ ref' = Counted(c, reason, dropped)
          /\ c \in alive
          /\ UNCHANGED <<request, alive, wrote>>
      BY <2>4 DEF NotImplemented
    <3>2. dropped \in BOOLEAN /\ (dropped => c \in observers)
      OBVIOUS
    <3> HIDE DEF dropped
    <3>3. ASSUME NEW d \in Client
          PROVE  Exact(d)'
      <4>1. CASE d \notin wrote
        BY <1>2, <3>1, <3>2, <4>1, ResponseIsExact DEF CountInv
      <4>2. CASE d \in wrote
        BY <3>1, <4>2 DEF Exact
      <4>3. QED
        BY <4>1, <4>2
    <3>4. QED
      BY <1>2, <3>1, <3>3 DEF CountInv, CallerAlive
  <2>5. ASSUME NEW ok \in BOOLEAN, LeaveRequest(ok)
        PROVE  CountInv'
    <3> DEFINE c == request.client
               dropped == ~ok /\ request.reason # "request" /\ c \in observers
    <3>1. /\ c \in Client
          /\ c \in alive
          /\ request.reason \in Reason
      BY <1>2, <2>5 DEF LeaveRequest, TypeOK, Request, CountInv, CallerAlive
    <3>2. /\ Respond(c, request.reason, dropped)
          /\ SessionGone(c, request.code, Counted(c, request.reason, dropped))
          /\ wrote' = IF request.code = "Get" THEN wrote ELSE wrote \cup {c}
          /\ request' = NoRequest
          /\ alive' = alive
      BY <2>5 DEF LeaveRequest
    <3>3. dropped \in BOOLEAN /\ (dropped => c \in observers)
      OBVIOUS
    <3> HIDE DEF c, dropped
    <3>4. ASSUME NEW d \in Client
          PROVE  Exact(d)'
      <4>1. CASE request.code = "Get" /\ d \notin wrote
        <5>1. ref' = Counted(c, request.reason, dropped)
          BY <3>2, <4>1 DEF SessionGone, Owning
        <5>2. QED
          BY <1>2, <3>1, <3>2, <3>3, <4>1, <5>1, ResponseIsExact DEF CountInv
      <4>2. CASE d \in wrote
        BY <3>2, <4>2 DEF Exact
      <4>3. CASE request.code # "Get" /\ d \notin wrote /\ d # c
        <5>1. Counted(c, request.reason, dropped)[d] = ref[d]
          BY <1>2, <3>1, <4>3, CountedType
        <5>2. ref'[d] = ref[d]
          BY <1>2, <3>1, <3>2, <4>3, <5>1, CountedType DEF SessionGone
        <5>3. queued'[d] = queued[d] /\ (d \in observers' <=> d \in observers)
          BY <1>2, <3>2, <4>3 DEF Respond, TypeOK
        <5>4. QED
          BY <1>2, <3>2, <5>2, <5>3, <4>3 DEF CountInv, Exact, Holders, One
      <4>4. CASE request.code # "Get" /\ d = c
        BY <3>2, <4>4 DEF Exact
      <4>5. QED
        BY <4>1, <4>2, <4>3, <4>4
    <3>5. QED
      BY <3>2, <3>4 DEF CountInv, CallerAlive
  <2>6. ASSUME NEW c \in Client, NewSession(c)
        PROVE  CountInv'
    <3>1. CallerAlive'
      BY <1>2, <2>6 DEF CountInv, CallerAlive, NewSession
    <3>2. ASSUME NEW d \in Client
          PROVE  Exact(d)'
      BY <1>2, <2>6
      DEF CountInv, Exact, Holders, One, NewSession, observeVars, TypeOK
    <3>3. QED
      BY <3>1, <3>2 DEF CountInv
  <2>7. ASSUME NEW c \in Client, NEW lost \in BOOLEAN,
               NotificationEnds(c, lost)
        PROVE  CountInv'
    <3>1. CallerAlive'
      BY <1>2, <2>7 DEF CountInv, CallerAlive, NotificationEnds
    <3>2. ASSUME NEW d \in Client
          PROVE  Exact(d)'
      BY <1>2, <2>7
      DEF CountInv, Exact, Holders, One, Less, NotificationEnds, TypeOK
    <3>3. QED
      BY <3>1, <3>2 DEF CountInv
  <2>8. ASSUME NEW c \in Client, ReclaimSession(c)
        PROVE  CountInv'
    BY <1>2, <2>8
    DEF CountInv, CallerAlive, Exact, Holders, One, ReclaimSession,
        observeVars, TypeOK
  <2>9. QED
    BY <1>2, <2>1, <2>2, <2>3, <2>4, <2>5, <2>6, <2>7, <2>8
    DEF Next, ResourceOperations, ResourceManagerOperations,
        Requests, ClientSessions, RegisterInterface, RegisterResource,
        EnableNotificationMessageConfirmable, NotifyObserver, sessionVars,
        observeVars, vars
<1>3. ASSUME TypeOK, CountInv
      PROVE  GetKeepsCount /\ GetKeepsSession
  BY <1>3 DEF TypeOK, CountInv, Exact, GetKeepsCount, GetKeepsSession
<1>4. QED
  BY <1>1, <1>2, <1>3, TypeCorrect, PTL DEF Spec
==============================================================================
