--------------------------- MODULE ResourceServer ---------------------------
(***************************************************************************)
(* The server side of one URI path: the ResourceManager entry, the         *)
(* Resource registered under it with its ResourceInterfaces, the four      *)
(* request callbacks, and what they do to the libcoap sessions of the      *)
(* clients, whose reference counts decide when libcoap reclaims a session. *)
(*                                                                         *)
(* libcoap takes one reference for each observer and for each confirmable  *)
(* notification it still retransmits, and reclaims a session nobody        *)
(* refers to.  It produces a notification by calling the GET callback.     *)
(* A request callback is split where it enters and leaves onRequest.       *)
(***************************************************************************)
EXTENDS Integers, FiniteSets

CONSTANTS
    Client,        \* the peers that talk to this server
    Resource,      \* the Resource objects created for the path
    NoResource,    \* nothing registered under the path
    NoRequest,     \* no onRequest on the stack
    Code,          \* the request codes in use
    CallbackOps,   \* what the application does from inside onRequest
    MaxQueued      \* bound: unacknowledged notifications per client

Op == {"notify", "unregister"}
Reason == {"request", "observe", "cancel", "notify"}
Request == [client : Client, code : Code, reason : Reason,
            resource : Resource]

ASSUME ConstantsAssumption ==
    /\ NoResource \notin Resource
    /\ NoRequest \notin Request
    /\ Code \subseteq {"Get", "Put", "Post", "Delete"}
    /\ "Get" \in Code
    /\ CallbackOps \subseteq Op
    /\ MaxQueued \in Nat

VARIABLES
    m_resources,          \* ResourceManager::m_resources at this path
    life,                 \* each Resource: "app", "registered", "deleted"
    m_resourceInterface,  \* the request codes each Resource can answer
    confirmable,          \* notifications are confirmable
    request,              \* the onRequest on the stack, or NoRequest
    app_data,             \* clients whose session points to a Session
    alive,                \* libcoap: clients that have a session
    ref,                  \* libcoap: reference count of each session
    observers,            \* libcoap: clients observing the resource
    dirty,                \* libcoap: observers due a notification
    queued,               \* libcoap: notifications awaiting their ACK
    wrote                 \* history: clients whose session served PUT,
                          \* POST or DELETE

resourceVars == <<m_resources, life, m_resourceInterface, confirmable>>
observeVars == <<observers, dirty>>
sessionVars == <<alive, ref, queued>>
vars == <<resourceVars, request, app_data, sessionVars, observeVars, wrote>>

TypeOK ==
    /\ m_resources \in Resource \cup {NoResource}
    /\ life \in [Resource -> {"app", "registered", "deleted"}]
    /\ m_resourceInterface \in [Resource -> SUBSET Code]
    /\ confirmable \in BOOLEAN
    /\ request \in Request \cup {NoRequest}
    /\ app_data \in SUBSET Client
    /\ alive \in SUBSET Client
    /\ ref \in [Client -> Nat]
    /\ observers \in SUBSET Client
    /\ dirty \in SUBSET Client
    /\ queued \in [Client -> Nat]
    /\ wrote \in SUBSET Client

Init ==
    /\ m_resources = NoResource
    /\ life = [r \in Resource |-> "app"]
    /\ m_resourceInterface = [r \in Resource |-> {}]
    /\ confirmable = FALSE
    /\ request = NoRequest
    /\ app_data = {}
    /\ alive = {}
    /\ ref = [c \in Client |-> 0]
    /\ observers = {}
    /\ dirty = {}
    /\ queued = [c \in Client |-> 0]
    /\ wrote = {}

------------------------------------------------------------------------------
(* The application's calls.                                                *)

Calls(op) == request = NoRequest \/ op \in CallbackOps

(* registerInterface: one interface per request code, the second throws.   *)
RegisterInterface(r, code) ==
    /\ request = NoRequest
    /\ life[r] # "deleted"
    /\ code \notin m_resourceInterface[r]
    /\ m_resourceInterface' = [m_resourceInterface EXCEPT ![r] = @ \cup {code}]
    /\ UNCHANGED <<m_resources, life, confirmable, request, app_data,
                   sessionVars, observeVars, wrote>>

(* Variant: the resource that held the path is overwritten in the map.     *)
RegisterOver(r) ==
    /\ request = NoRequest
    /\ life[r] = "app"
    /\ m_resources' = r
    /\ life' = [life EXCEPT ![r] = "registered"]
    /\ confirmable' = FALSE
    /\ UNCHANGED <<m_resourceInterface, request, app_data, sessionVars,
                   observeVars, wrote>>

(* registerResource: a taken path, or a libcoap resource that cannot be    *)
(* made, leaves the unique_ptr to delete the object.                       *)
RegisterResource(r) ==
    /\ request = NoRequest
    /\ life[r] = "app"
    /\ \/ /\ m_resources = NoResource
          /\ m_resources' = r
          /\ life' = [life EXCEPT ![r] = "registered"]
          /\ confirmable' = FALSE
       \/ /\ life' = [life EXCEPT ![r] = "deleted"]
          /\ UNCHANGED <<m_resources, confirmable>>
    /\ UNCHANGED <<m_resourceInterface, request, app_data, sessionVars,
                   observeVars, wrote>>

(* Variant: the count of references goes below zero.                       *)
LessUnchecked(count, released) == count - released

(* coap_session_release does not count below zero.                         *)
Less(count, released) == IF count >= released THEN count - released ELSE 0

One(condition) == IF condition THEN 1 ELSE 0

(* unregisterResource, and ~ResourceManager for each path: ~Resource       *)
(* deletes the libcoap resource, which drops its observers, and then the   *)
(* interfaces.                                                             *)
UnregisterResource ==
    /\ Calls("unregister")
    /\ m_resources # NoResource
    /\ life' = [life EXCEPT ![m_resources] = "deleted"]
    /\ m_resources' = NoResource
    /\ observers' = {}
    /\ dirty' = {}
    /\ ref' = [c \in Client |-> Less(ref[c], One(c \in observers))]
    /\ UNCHANGED <<m_resourceInterface, confirmable, request, app_data, alive,
                   queued, wrote>>

EnableNotificationMessageConfirmable(enable) ==
    /\ request = NoRequest
    /\ m_resources # NoResource
    /\ confirmable' = enable
    /\ UNCHANGED <<m_resources, life, m_resourceInterface, request, app_data,
                   sessionVars, observeVars, wrote>>

(* notifyObserver, from the application or from inside an onRequest.       *)
NotifyObserver ==
    /\ Calls("notify")
    /\ m_resources # NoResource
    /\ dirty' = observers
    /\ UNCHANGED <<resourceVars, request, app_data, sessionVars, observers,
                   wrote>>

------------------------------------------------------------------------------
(* Requests.                                                               *)

(* Variant: the GET callback passes the raw pointer like the others.       *)
OwningAlways(code) == TRUE

(* Only getRequestCallback passes Session(session, false); the others pass *)
(* the raw pointer, from which an owning Session is made.                  *)
Owning(code) == code # "Get"

(* What the Session given to onRequest does when it is made.               *)
SessionMade(c, code) ==
    app_data' = IF Owning(code) THEN app_data \cup {c} ELSE app_data

(* Variant: the destructor releases and leaves app_data as it was.         *)
SessionGoneAttached(c, code, count) ==
    /\ ref' = IF Owning(code) THEN [count EXCEPT ![c] = Less(@, 1)] ELSE count
    /\ UNCHANGED app_data

(* ... and when it is destroyed: an owning one clears app_data and         *)
(* releases one reference.                                                 *)
SessionGone(c, code, count) ==
    IF Owning(code)
    THEN /\ app_data' = app_data \ {c}
         /\ ref' = [count EXCEPT ![c] = Less(@, 1)]
    ELSE /\ ref' = count
         /\ UNCHANGED app_data

(* libcoap makes the client an observer before it calls the GET callback,  *)
(* or drops it when the observation is cancelled.                          *)
Subscribe(c, reason) ==
    /\ \/ /\ reason = "observe"
          /\ c \notin observers
          /\ observers' = observers \cup {c}
          /\ ref' = [ref EXCEPT ![c] = @ + 1]
       \/ /\ reason = "cancel"
          /\ c \in observers
          /\ observers' = observers \ {c}
          /\ ref' = [ref EXCEPT ![c] = Less(@, 1)]
       \/ /\ reason = "observe" => c \in observers
          /\ reason = "cancel" => c \notin observers
          /\ UNCHANGED <<observers, ref>>
    /\ dirty' = IF reason = "request" THEN dirty ELSE dirty \ {c}

(* A callback whose Resource has an interface for the code enters its      *)
(* onRequest.                                                              *)
EnterRequest(c, code, reason) ==
    /\ request = NoRequest
    /\ c \in alive
    /\ m_resources # NoResource
    /\ code \in m_resourceInterface[m_resources]
    /\ Subscribe(c, reason)
    /\ SessionMade(c, code)
    /\ request' = [client |-> c, code |-> code, reason |-> reason,
                   resource |-> m_resources]
    /\ UNCHANGED <<resourceVars, alive, queued, wrote>>

(* The response is on its way: a notification is sent, and waits for its   *)
(* ACK when confirmable; an observer answered with an error is dropped.    *)
Sent(reason) == reason = "notify" /\ confirmable

Respond(c, reason, dropped) ==
    /\ queued' = [queued EXCEPT ![c] = @ + One(Sent(reason))]
    /\ observers' = IF dropped THEN observers \ {c} ELSE observers
    /\ dirty' = IF dropped THEN dirty \ {c} ELSE dirty

Counted(c, reason, dropped) ==
    [ref EXCEPT ![c] = Less(@ + One(Sent(reason)), One(dropped))]

(* Variant: a missing interface is answered like a success.                *)
NotImplementedSilently(c, code, reason) ==
    /\ request = NoRequest
    /\ c \in alive
    /\ m_resources # NoResource
    /\ code \notin m_resourceInterface[m_resources]
    /\ Subscribe(c, reason)
    /\ UNCHANGED <<resourceVars, request, app_data, alive, queued, wrote>>

(* A callback with no interface answers 5.01 and makes no Session.         *)
NotImplemented(c, code, reason) ==
    /\ request = NoRequest
    /\ c \in alive
    /\ m_resources # NoResource
    /\ code \notin m_resourceInterface[m_resources]
    /\ LET dropped == reason # "request" /\ c \in observers
       IN  /\ Respond(c, reason, dropped)
           /\ ref' = Counted(c, reason, dropped)
    /\ UNCHANGED <<resourceVars, request, app_data, alive, wrote>>

(* What a client sends, and what libcoap asks of the GET callback.         *)
Asked(c, code, reason) ==
    \/ reason = "request"
    \/ code = "Get" /\ reason \in {"observe", "cancel"}
    \/ /\ code = "Get"
       /\ reason = "notify"
       /\ c \in dirty
       /\ queued[c] < MaxQueued

(* onRequest returned (ok) or threw, which answers 5.01.                   *)
LeaveRequest(ok) ==
    /\ request # NoRequest
    /\ LET c == request.client
           dropped == ~ok /\ request.reason # "request" /\ c \in observers
       IN  /\ Respond(c, request.reason, dropped)
           /\ SessionGone(c, request.code,
                          Counted(c, request.reason, dropped))
           /\ wrote' = IF request.code = "Get" THEN wrote ELSE wrote \cup {c}
    /\ request' = NoRequest
    /\ UNCHANGED <<resourceVars, alive>>

------------------------------------------------------------------------------
(* libcoap's sessions.                                                     *)

(* A packet from a client without a session makes one nobody refers to.    *)
(* A client whose session was reclaimed under an observer is not followed  *)
(* any further.                                                            *)
NewSession(c) ==
    /\ c \notin alive \cup observers
    /\ queued[c] = 0
    /\ alive' = alive \cup {c}
    /\ ref' = [ref EXCEPT ![c] = 0]
    /\ wrote' = wrote \ {c}
    /\ UNCHANGED <<resourceVars, request, app_data, queued, observeVars>>

(* A notification is acknowledged, or given up with the observer dropped.  *)
NotificationEnds(c, lost) ==
    /\ request = NoRequest
    /\ c \in alive
    /\ queued[c] > 0
    /\ LET dropped == lost /\ c \in observers
       IN  /\ ref' = [ref EXCEPT ![c] = Less(@, 1 + One(dropped))]
           /\ observers' = IF dropped THEN observers \ {c} ELSE observers
           /\ dirty' = IF dropped THEN dirty \ {c} ELSE dirty
    /\ queued' = [queued EXCEPT ![c] = @ - 1]
    /\ UNCHANGED <<resourceVars, request, app_data, alive, wrote>>

(* An idle session nobody refers to is closed.                             *)
ReclaimSession(c) ==
    /\ request = NoRequest
    /\ c \in alive
    /\ ref[c] = 0
    /\ alive' = alive \ {c}
    /\ UNCHANGED <<resourceVars, request, app_data, ref, queued, observeVars,
                   wrote>>

------------------------------------------------------------------------------
ResourceOperations ==
    \/ \E r \in Resource, code \in Code : RegisterInterface(r, code)
    \/ \E enable \in BOOLEAN : EnableNotificationMessageConfirmable(enable)
    \/ NotifyObserver

ResourceManagerOperations ==
    \/ \E r \in Resource : RegisterResource(r)
    \/ UnregisterResource

Requests ==
    \/ \E c \in Client, code \in Code, reason \in Reason :
          /\ Asked(c, code, reason)
          /\ \/ EnterRequest(c, code, reason)
             \/ NotImplemented(c, code, reason)
    \/ \E ok \in BOOLEAN : LeaveRequest(ok)

ClientSessions ==
    \E c \in Client :
        \/ NewSession(c)
        \/ \E lost \in BOOLEAN : NotificationEnds(c, lost)
        \/ ReclaimSession(c)

Next ==
    \/ ResourceOperations
    \/ ResourceManagerOperations
    \/ Requests
    \/ ClientSessions

Spec == Init /\ [][Next]_vars

------------------------------------------------------------------------------
(* Properties.                                                             *)

(* Everything that relies on a session being there.                        *)
Holders(c) == One(c \in observers) + queued[c]

(* A session that has served GET only is counted exactly as often as it is *)
(* referred to, whatever observers, notifications, errors and removals     *)
(* there were: the Session getRequestCallback makes does not own           *)
(* (Resource.cc:73).                                                       *)
GetKeepsCount ==
    \A c \in alive \ wrote : ref[c] = Holders(c)

(* Such a session is not reclaimed under an observer or a notification.    *)
GetKeepsSession ==
    \A c \in Client \ wrote : Holders(c) > 0 => c \in alive

(* The same of every session, whatever codes it served: a request callback *)
(* leaves libcoap's session to libcoap (Session.h:36).                     *)
HoldersHaveSession ==
    \A c \in Client : Holders(c) > 0 => c \in alive

(* A session points at the Session made for onRequest only while that      *)
(* onRequest runs: nothing reaches a Session that is gone.                 *)
AppDataOnlyInRequest ==
    \A c \in app_data : request # NoRequest /\ request.client = c

(* An observed resource is registered and answers GET: there is a callback *)
(* to produce the next notification with.                                  *)
ObserversAreServed ==
    observers # {} =>
        /\ m_resources # NoResource
        /\ "Get" \in m_resourceInterface[m_resources]

(* The manager holds each registered resource, and only one: none leaks    *)
(* when the path is taken, none is deleted twice.                          *)
RegisteredOnce ==
    \A r \in Resource : life[r] = "registered" <=> m_resources = r

(* The resource, and the interface whose onRequest is on the stack with    *)
(* it, exist until it returns, also when it does what ResourceManager.h:55 *)
(* has it do on a DELETE request: unregister the resource.                 *)
DeleteServed ==
    request # NoRequest /\ request.code = "Delete" =>
        life[request.resource] = "registered"
==============================================================================
