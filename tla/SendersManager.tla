--------------------------- MODULE SendersManager ---------------------------
(***************************************************************************)
(* The request side of one owned client Session: the map from tokens to    *)
(* handlings that SendersManager keeps, send() with each of its outcomes,  *)
(* the two functions libcoap calls back (AckHandler and NackHandler), what *)
(* the application does from inside the callbacks they make, and ~Session. *)
(*                                                                         *)
(* Everything runs on one thread.  AckHandler and NackHandler are split    *)
(* where they enter and where they leave the application's virtual         *)
(* function, because that function may call the manager again.             *)
(***************************************************************************)
EXTENDS Naturals

CONSTANTS
    Token,         \* the tokens requests carry
    Handling,      \* the handling objects the program ever creates
    NoHandling,    \* the null Handling pointer
    NoCallback,    \* no onAck or onNAck is on the stack
    TokenOf,       \* Handling::token(), fixed when a handling is built
    BuiltIn,       \* the DefaultHandling registerHandlerInit creates
    OneShot,       \* handlings whose isFinished() answers true once called
    Observed,      \* tokens with an observe relation: answers may repeat
    CallbackOps,   \* what the application does from inside a callback
    Peer,          \* how the peer and the network treat a request
    MessageType,   \* the types of the requests sent
    SendMayFail,   \* coap_send may return COAP_INVALID_MID
    MaxInFlight    \* bound: queued confirmable requests per token

Op == {"send", "removeOther", "removeSelf", "updateDefault", "replaceSelf"}
PeerBehaviour == {"piggyback", "separate", "mismatch", "icmp"}

(* An application call running inside a callback, as AckHandler sees it. *)
Callback == [kind : {"onAck", "onNAck"}, token : Token,
             handling : Handling, isDefault : BOOLEAN]

ASSUME ConstantsAssumption ==
    /\ NoHandling \notin Handling
    /\ NoCallback \notin Callback
    /\ TokenOf \in [Handling -> Token]
    /\ BuiltIn \in OneShot
    /\ OneShot \subseteq Handling
    /\ Observed \subseteq Token
    /\ CallbackOps \subseteq Op
    /\ Peer \subseteq PeerBehaviour
    /\ MessageType \subseteq {"CON", "NON"}
    /\ SendMayFail \in BOOLEAN
    /\ MaxInFlight \in Nat

VARIABLES
    m_handlings,        \* SendersManager::m_handlings
    m_defaultHandling,  \* SendersManager::m_defaultHandling
    life,               \* "app", "managed" by a manager, or "destroyed"
    callback,           \* the callback on the stack, or NoCallback
    app_data,           \* coap_session_get_app_data() is this Session
    session,            \* the Session object: "open", "releasing", "closed"
    sendqueue,          \* libcoap: confirmable requests it retransmits
    heard,              \* libcoap: tokens the peer may still answer
    called              \* history: handlings that have been called back

managerVars == <<m_handlings, m_defaultHandling, life>>
sessionVars == <<app_data, session>>
libcoapVars == <<sendqueue, heard>>
vars == <<managerVars, callback, sessionVars, libcoapVars, called>>

TypeOK ==
    /\ m_handlings \in [Token -> Handling \cup {NoHandling}]
    /\ m_defaultHandling \in Handling \cup {NoHandling}
    /\ life \in [Handling -> {"app", "managed", "destroyed"}]
    /\ callback \in Callback \cup {NoCallback}
    /\ app_data \in BOOLEAN
    /\ session \in {"open", "releasing", "closed"}
    /\ sendqueue \in [Token -> Nat]
    /\ heard \in SUBSET Token
    /\ called \in SUBSET Handling

(* Session(raw, own = true): the manager starts empty with its own default *)
(* handling, or with none when createToken throws; app_data is this.       *)
Init ==
    /\ m_handlings = [t \in Token |-> NoHandling]
    /\ \E created \in BOOLEAN :
          /\ m_defaultHandling = IF created THEN BuiltIn ELSE NoHandling
          /\ life = [h \in Handling |->
                        IF h # BuiltIn THEN "app"
                        ELSE IF created THEN "managed" ELSE "destroyed"]
    /\ callback = NoCallback
    /\ app_data = TRUE
    /\ session = "open"
    /\ sendqueue = [t \in Token |-> 0]
    /\ heard = {}
    /\ called = {}

------------------------------------------------------------------------------
(* The application's calls.  From inside a callback it makes only those    *)
(* that CallbackOps lists.                                                 *)

Calls(op) ==
    /\ session = "open"
    /\ callback = NoCallback \/ op \in CallbackOps

Destroyed(hs) ==
    [h \in Handling |-> IF h \in hs THEN "destroyed" ELSE life[h]]

(* send() given no pdu, or a token it cannot copy: the handling goes.      *)
SendUnusable(h) ==
    /\ Calls("send")
    /\ life[h] = "app"
    /\ life' = Destroyed({h})
    /\ UNCHANGED <<m_handlings, m_defaultHandling, callback, sessionVars,
                   libcoapVars, called>>

(* send() throws: the tokens differ, or the token already has a handling.  *)
SendThrows(h, t) ==
    /\ Calls("send")
    /\ life[h] = "app"
    /\ TokenOf[h] # t \/ m_handlings[t] # NoHandling
    /\ life' = Destroyed({h})
    /\ UNCHANGED <<m_handlings, m_defaultHandling, callback, sessionVars,
                   libcoapVars, called>>

(* coap_send took the request: it is queued when confirmable.              *)
CoapSend(t, type) ==
    /\ type = "CON" => sendqueue[t] < MaxInFlight
    /\ sendqueue' = IF type = "CON"
                    THEN [sendqueue EXCEPT ![t] = @ + 1] ELSE sendqueue
    /\ heard' = heard \cup {t}

(* Variant: without the duplicate check the older handling is dropped.     *)
SendOverwrites(h, t) ==
    /\ Calls("send")
    /\ life[h] = "app"
    /\ TokenOf[h] = t
    /\ m_handlings' = [m_handlings EXCEPT ![t] = h]
    /\ life' = [life EXCEPT ![h] = "managed"]

(* Variant: a duplicate replaces and destroys the older handling.          *)
SendReplaces(h, t) ==
    /\ Calls("send")
    /\ life[h] = "app"
    /\ TokenOf[h] = t
    /\ m_handlings' = [m_handlings EXCEPT ![t] = h]
    /\ life' = [Destroyed({m_handlings[t]}) EXCEPT ![h] = "managed"]

(* The handling is in the map before coap_send runs.                       *)
SendRegisters(h, t) ==
    /\ Calls("send")
    /\ life[h] = "app"
    /\ TokenOf[h] = t
    /\ m_handlings[t] = NoHandling
    /\ m_handlings' = [m_handlings EXCEPT ![t] = h]
    /\ life' = [life EXCEPT ![h] = "managed"]

(* send() returns true.                                                    *)
Send(h, t, type) ==
    /\ SendRegisters(h, t)
    /\ CoapSend(t, type)
    /\ UNCHANGED <<m_defaultHandling, callback, sessionVars, called>>

(* send() returns false because coap_send failed.                          *)
SendFails(h, t) ==
    /\ SendMayFail
    /\ SendRegisters(h, t)
    /\ UNCHANGED <<m_defaultHandling, callback, sessionVars, libcoapVars,
                   called>>

(* send(pdu, nullptr): whoever the map holds, else the default, answers.   *)
SendWithoutHandling(t, type) ==
    /\ Calls("send")
    /\ CoapSend(t, type)
    /\ UNCHANGED <<managerVars, callback, sessionVars, called>>

(* Variant: the handling is deleted and its entry is not erased.           *)
RemoveWithoutErase(t) ==
    /\ life' = Destroyed({m_handlings[t]})
    /\ UNCHANGED m_handlings

(* What removeHandling(t) does to the map: true when it found a handling.  *)
Remove(t) ==
    /\ life' = Destroyed({m_handlings[t]})
    /\ m_handlings' = [m_handlings EXCEPT ![t] = NoHandling]

IsCalled(h) == callback # NoCallback /\ callback.handling = h

RemoveHandling(t) ==
    /\ m_handlings[t] # NoHandling
    /\ Calls(IF IsCalled(m_handlings[t]) THEN "removeSelf" ELSE "removeOther")
    /\ Remove(t)
    /\ UNCHANGED <<m_defaultHandling, callback, sessionVars, libcoapVars,
                   called>>

UpdateDefaultHandling(h) ==
    /\ Calls(IF IsCalled(m_defaultHandling) THEN "replaceSelf"
             ELSE "updateDefault")
    /\ life[h] = "app"
    /\ life' = [Destroyed({m_defaultHandling}) EXCEPT ![h] = "managed"]
    /\ m_defaultHandling' = h
    /\ UNCHANGED <<m_handlings, callback, sessionVars, libcoapVars,
                   called>>

------------------------------------------------------------------------------
(* libcoap, from coap_io_process: it calls AckHandler or NackHandler.      *)

(* Variant: the default handling is preferred to the map.                  *)
RouteToDefault(t) ==
    IF m_defaultHandling # NoHandling THEN m_defaultHandling ELSE m_handlings[t]

(* The handling a token is routed to: the map's, else the default one.     *)
Route(t) ==
    IF m_handlings[t] # NoHandling THEN m_handlings[t] ELSE m_defaultHandling

IsDefault(t) == m_handlings[t] = NoHandling

(* Variant: a missing default handling is not noticed.                     *)
ReachableUnchecked(t) == app_data

(* A handler that finds no Session, or nobody to call, throws and logs.    *)
Reachable(t) == app_data /\ Route(t) # NoHandling

Enter(kind, t) ==
    /\ callback' = [kind |-> kind, token |-> t, handling |-> Route(t),
                    isDefault |-> IsDefault(t)]
    /\ called' = called \cup {Route(t)}

Dequeue(t) == sendqueue' = [sendqueue EXCEPT ![t] = @ - 1]

(* AckHandler up to onAck: the request leaves libcoap's queue, then the    *)
(* handling is looked up and called.  Without a Session or a handling the  *)
(* answer is COAP_RESPONSE_FAIL and libcoap resets the peer.               *)
OnAck(t) ==
    \/ Reachable(t) /\ Enter("onAck", t)
    \/ ~Reachable(t) /\ UNCHANGED <<callback, called>>

(* The response rides on the ACK: sent is the request.                     *)
Piggybacked(t) ==
    /\ "piggyback" \in Peer
    /\ callback = NoCallback
    /\ sendqueue[t] > 0
    /\ Dequeue(t)
    /\ heard' = IF t \in Observed THEN heard ELSE heard \ {t}
    /\ OnAck(t)
    /\ UNCHANGED <<managerVars, sessionVars>>

(* A response of its own (NON request, separate response, notification):   *)
(* sent is null and libcoap drops every queued request with that token.    *)
Separate(t) ==
    /\ "separate" \in Peer
    /\ callback = NoCallback
    /\ t \in heard
    /\ sendqueue' = [sendqueue EXCEPT ![t] = 0]
    /\ heard' = IF t \in Observed THEN heard ELSE heard \ {t}
    /\ OnAck(t)
    /\ UNCHANGED <<managerVars, sessionVars>>

(* An empty ACK ends the retransmissions and calls nobody.                 *)
EmptyAck(t) ==
    /\ "separate" \in Peer
    /\ callback = NoCallback
    /\ sendqueue[t] > 0
    /\ Dequeue(t)
    /\ UNCHANGED <<managerVars, callback, sessionVars, heard, called>>

(* The ACK of t carries another token: AckHandler throws, libcoap has      *)
(* dropped the request and nobody is called.                               *)
Mismatched(t) ==
    /\ "mismatch" \in Peer
    /\ callback = NoCallback
    /\ sendqueue[t] > 0
    /\ Dequeue(t)
    /\ UNCHANGED <<managerVars, callback, sessionVars, heard, called>>

(* NackHandler up to onNAck.                                               *)
OnNack(t) ==
    \/ Reachable(t) /\ Enter("onNAck", t)
    \/ ~Reachable(t) /\ UNCHANGED <<callback, called>>

(* TooManyRetransmit or Reset: libcoap gives the request up.               *)
GivenUp(t) ==
    /\ callback = NoCallback
    /\ sendqueue[t] > 0
    /\ Dequeue(t)
    /\ OnNack(t)
    /\ UNCHANGED <<managerVars, sessionVars, heard>>

(* IcmpIssue: reported for a request libcoap goes on retransmitting.       *)
Unreachable(t) ==
    /\ "icmp" \in Peer
    /\ callback = NoCallback
    /\ sendqueue[t] > 0
    /\ OnNack(t)
    /\ UNCHANGED <<managerVars, sessionVars, libcoapVars>>

------------------------------------------------------------------------------
(* The application's onAck or onNAck returns.                              *)

(* What isFinished() may answer.  On a destroyed object it is undefined.   *)
IsFinished(h) ==
    IF h \in OneShot /\ life[h] # "destroyed" THEN {TRUE} ELSE BOOLEAN

RemoveIfRegistered(t) ==
    IF m_handlings[t] # NoHandling THEN Remove(t)
    ELSE UNCHANGED <<m_handlings, life>>

(* Variant: AckHandler never asks isFinished().                            *)
AckKeeps ==
    /\ callback # NoCallback
    /\ callback.kind = "onAck"
    /\ callback' = NoCallback
    /\ UNCHANGED <<managerVars, sessionVars, libcoapVars, called>>

(* AckHandler after onAck: a finished handling is removed by the token of  *)
(* the response, whoever was called; what onAck returned is not looked at. *)
AckReturns ==
    /\ callback # NoCallback
    /\ callback.kind = "onAck"
    /\ \E finished \in IsFinished(callback.handling) :
          IF finished THEN RemoveIfRegistered(callback.token)
          ELSE UNCHANGED <<m_handlings, life>>
    /\ callback' = NoCallback
    /\ UNCHANGED <<m_defaultHandling, sessionVars, libcoapVars, called>>

(* Variant: NackHandler never asks isFinished().                           *)
NackKeeps ==
    /\ callback # NoCallback
    /\ callback.kind = "onNAck"
    /\ callback' = NoCallback
    /\ UNCHANGED <<managerVars, sessionVars, libcoapVars, called>>

(* NackHandler after onNAck: the default handling removes nothing.         *)
NackReturns ==
    /\ callback # NoCallback
    /\ callback.kind = "onNAck"
    /\ \E finished \in IsFinished(callback.handling) :
          IF finished /\ ~callback.isDefault
          THEN RemoveIfRegistered(callback.token)
          ELSE UNCHANGED <<m_handlings, life>>
    /\ callback' = NoCallback
    /\ UNCHANGED <<m_defaultHandling, sessionVars, libcoapVars, called>>

------------------------------------------------------------------------------
(* ~Session.                                                               *)

(* Variant: app_data keeps pointing at the Session being destroyed.        *)
ReleaseAttached ==
    /\ session = "open"
    /\ callback = NoCallback
    /\ session' = "releasing"
    /\ UNCHANGED <<managerVars, callback, app_data, libcoapVars, called>>

(* app_data is cleared before the libcoap session is released, so that     *)
(* what libcoap reports while releasing finds no Session.                  *)
ReleaseSession ==
    /\ session = "open"
    /\ callback = NoCallback
    /\ app_data' = FALSE
    /\ session' = "releasing"
    /\ UNCHANGED <<managerVars, callback, libcoapVars, called>>

(* The manager is deleted last, with every handling it still holds.        *)
DeleteManager ==
    /\ session = "releasing"
    /\ callback = NoCallback
    /\ session' = "closed"
    /\ life' = Destroyed({m_handlings[t] : t \in Token}
                         \cup {m_defaultHandling})
    /\ m_handlings' = [t \in Token |-> NoHandling]
    /\ m_defaultHandling' = NoHandling
    /\ UNCHANGED <<callback, app_data, libcoapVars, called>>

------------------------------------------------------------------------------
Application ==
    \/ \E h \in Handling :
          \/ SendUnusable(h)
          \/ UpdateDefaultHandling(h)
          \/ \E t \in Token :
                \/ SendThrows(h, t)
                \/ \E type \in MessageType : Send(h, t, type)
                \/ SendFails(h, t)
    \/ \E t \in Token :
          \/ RemoveHandling(t)
          \/ \E type \in MessageType : SendWithoutHandling(t, type)
    \/ ReleaseSession

Libcoap ==
    \E t \in Token :
        \/ Piggybacked(t)
        \/ Separate(t)
        \/ EmptyAck(t)
        \/ Mismatched(t)
        \/ GivenUp(t)
        \/ Unreachable(t)

Next ==
    \/ Application
    \/ Libcoap
    \/ AckReturns
    \/ NackReturns
    \/ DeleteManager

(* A confirmable request does not stay queued: it is answered, or libcoap  *)
(* counts its retransmissions and gives up, whatever happens to others.    *)
Conclude(t) == Piggybacked(t) \/ GivenUp(t)

Fairness ==
    /\ WF_vars(AckReturns)
    /\ WF_vars(NackReturns)
    /\ WF_vars(DeleteManager)
    /\ \A t \in Token : SF_vars(Conclude(t))

Spec == Init /\ [][Next]_vars /\ Fairness

------------------------------------------------------------------------------
(* Properties.                                                             *)

(* A managed handling is owned exactly once, by the map under its own      *)
(* token or as the default, and nothing else is reachable from either: no  *)
(* handling leaks, dangles or is deleted twice (SendersManager.h:40, and   *)
(* the loops of ~SendersManager).                                          *)
HeldByMap(h) == m_handlings[TokenOf[h]] = h

OwnedOnce ==
    /\ \A t \in Token :
          m_handlings[t] # NoHandling => TokenOf[m_handlings[t]] = t
    /\ \A h \in Handling :
          /\ life[h] = "managed" <=> (HeldByMap(h) \/ m_defaultHandling = h)
          /\ ~(HeldByMap(h) /\ m_defaultHandling = h)

(* The handling whose onAck or onNAck is on the stack has not been deleted *)
(* under it, so the isFinished() call that follows is made on an object    *)
(* that exists (Handling.h:73).                                            *)
CalleeAlive ==
    callback # NoCallback => life[callback.handling] = "managed"

(* No callback is made on a Session whose destructor has begun, although   *)
(* libcoap may keep the session, its queue and the manager's handlers.     *)
NoCallbackWhileClosing ==
    callback # NoCallback => session = "open"

(* The strengthening that makes the three invariants above and the next    *)
(* one inductive: the callee is where its lookup found it, and libcoap has *)
(* a Session to call exactly as long as that Session is open.              *)
CalleeWhereFound ==
    callback # NoCallback =>
        IF callback.isDefault THEN m_defaultHandling = callback.handling
        ELSE m_handlings[callback.token] = callback.handling

AppDataWhileOpen == app_data <=> session = "open"

(* A one-shot handling that has been called back is gone as soon as that   *)
(* callback is over: it is never called a second time and never lingers in *)
(* the map, where its token would refuse the next send().                  *)
FinishedIsForgotten ==
    \A h \in OneShot \cap called :
        \/ life[h] = "destroyed"
        \/ IsCalled(h)
        \/ m_defaultHandling = h

(* A handling found by token is called for its own token only, and the     *)
(* default one only for a token nobody is registered under at the lookup.  *)
RightHandlingCalled ==
    [][callback' \notin {callback, NoCallback} =>
           LET t == callback'.token IN
           /\ ~callback'.isDefault => TokenOf[callback'.handling] = t
           /\ (\E h \in Handling : life[h] = "managed" /\ TokenOf[h] = t
                                   /\ m_defaultHandling # h)
                  => ~callback'.isDefault]_vars

(* The manager implements the abstract life cycle of its handlings.        *)
Lifecycle == INSTANCE HandlingLifecycle WITH
    called <- IF callback = NoCallback THEN NoHandling ELSE callback.handling

LifecycleSpec == Lifecycle!Spec

(* A one-shot handling registered with send() is released: an answer, or   *)
(* libcoap giving the request up, ends in its destruction (Handling.h:23). *)
RequestsEnd ==
    \A h \in OneShot :
        (m_handlings[TokenOf[h]] = h) ~> (life[h] = "destroyed")
==============================================================================
