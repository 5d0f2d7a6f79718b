------------------------------ MODULE ContextIo ------------------------------
(***************************************************************************)
(* A ContextClient or a ContextServer and the threads that use it:         *)
(* ioProcess with its m_isBusy flag, isioPending, which processes I/O      *)
(* without it, the map of sessions or of endpoints, the server's resource  *)
(* manager and persistence, the EventHandling that libcoap's events reach, *)
(* and the destructors, which wait for the flag before they delete what    *)
(* they own and free the libcoap context.                                  *)
(*                                                                         *)
(* Each thread has a stack of frames, the newest first: the library calls  *)
(* it is in and the application's event callbacks they led to, from which  *)
(* the application may call the library again.  There is no lock: a read   *)
(* or write of m_isBusy, and each step that libcoap can interrupt with an  *)
(* event, is a step of its own.                                            *)
(***************************************************************************)
EXTENDS Naturals, Sequences

CONSTANTS
    Thread,          \* the threads of the program
    IoThread,        \* those that call the context, but for its destructor
    Key,             \* (port, protocol) of sessions, ports of endpoints,
                     \* as numbers in the order of the map
    Session,         \* the Session, or EndPoint, objects ever made
    NoSession,       \* no such object under a key
    Handler,         \* the EventHandling objects of the application
    NoHandler,       \* the null EventHandling pointer
    CallbackOps,     \* what the application calls from an event callback
    LateOps,         \* ... that the destructor's own loop led to
    DestroyDuring,   \* where other threads may be when a destructor starts
    RestartMayFail,  \* persistence may fail to start when it is running
    MaxDepth         \* bound: frames on a stack

Op == {"add", "remove", "removeClosing", "replaceHandler", "enablePersist",
       "ioProcess", "ioPending", "destroy"}

(* "checked": in ioProcess between isReady() and m_isBusy = true.          *)
(* "in": in coap_io_process.  "pending": in coap_io_pending.               *)
(* "removing": in the delete of removeSession.  "event": in a function of  *)
(* an EventHandling.  The destructors go through                           *)
(* "waiting", "stopping" (a server's persistence), "deleting" (the         *)
(* sessions or endpoints) and "freeing" (the context).                     *)
Plain(at) == [at |-> at]
Removing(k) == [at |-> "removing", key |-> k]
OnEvent(h) == [at |-> "event", handler |-> h]

Stage == {"checked", "in", "pending", "waiting", "stopping", "deleting",
          "freeing"}

Frame == {Plain(at) : at \in Stage}
         \cup {Removing(k) : k \in Key}
         \cup {OnEvent(h) : h \in Handler}

ASSUME ConstantsAssumption ==
    /\ IoThread \subseteq Thread
    /\ NoSession \notin Session
    /\ NoHandler \notin Handler
    /\ Key \subseteq Nat \ {0}
    /\ CallbackOps \subseteq Op
    /\ LateOps \subseteq Op
    /\ DestroyDuring \subseteq Stage \cup {"removing"}
    /\ RestartMayFail \in BOOLEAN
    /\ MaxDepth \in Nat

VARIABLES
    kind,             \* which class the context is of
    m_sessions,       \* ContextClient::m_sessions, ContextServer::m_endpoints
    cursor,           \* the key that the loop of a destructor is at, 0 before
    m_eventHandling,  \* Context::m_eventHandling
    m_isBusy,         \* Context::m_isBusy
    m_resourceManager,\* ContextServer::m_resourceManager is not null
    m_persistEnable,  \* ContextServer::m_persistEnable
    persisting,       \* libcoap saves what happens to resources
    app_data,         \* coap_get_app_data() is this Context
    context,          \* "open", "closing" (in its destructor) or "gone"
    sessionLife,      \* each one: "none", "open", "closing", "deleted"
    handlerLife,      \* each EventHandling: "app", "registered", "deleted"
    stack             \* each thread's frames, the newest first

objectVars == <<m_sessions, sessionLife, cursor>>
handlerVars == <<m_eventHandling, handlerLife>>
serverVars == <<m_resourceManager, m_persistEnable, persisting>>
contextVars == <<m_isBusy, app_data, context>>
vars == <<kind, objectVars, handlerVars, serverVars, contextVars, stack>>

TypeOK ==
    /\ kind \in {"client", "server"}
    /\ m_resourceManager \in BOOLEAN
    /\ m_persistEnable \in BOOLEAN
    /\ persisting \in BOOLEAN
    /\ m_sessions \in [Key -> Session \cup {NoSession}]
    /\ cursor \in Key \cup {0}
    /\ m_eventHandling \in Handler \cup {NoHandler}
    /\ m_isBusy \in BOOLEAN
    /\ app_data \in BOOLEAN
    /\ context \in {"open", "closing", "gone"}
    /\ sessionLife \in [Session -> {"none", "open", "closing", "deleted"}]
    /\ handlerLife \in [Handler -> {"app", "registered", "deleted"}]
    /\ stack \in [Thread -> Seq(Frame)]

Init ==
    /\ kind \in {"client", "server"}
    /\ m_resourceManager = (kind = "server")
    /\ m_persistEnable = FALSE
    /\ persisting = FALSE
    /\ m_sessions = [k \in Key |-> NoSession]
    /\ cursor = 0
    /\ m_eventHandling = NoHandler
    /\ m_isBusy = FALSE
    /\ app_data = TRUE
    /\ context = "open"
    /\ sessionLife = [s \in Session |-> "none"]
    /\ handlerLife = [h \in Handler |-> "app"]
    /\ stack = [t \in Thread |-> <<>>]

------------------------------------------------------------------------------
At(t, at) == stack[t] # <<>> /\ Head(stack[t]).at = at

Push(t, frame) ==
    /\ Len(stack[t]) < MaxDepth
    /\ stack' = [stack EXCEPT ![t] = <<frame>> \o @]

Pop(t) == stack' = [stack EXCEPT ![t] = Tail(@)]

Continue(t, at) == stack' = [stack EXCEPT ![t] = <<Plain(at)>> \o Tail(@)]

On(t, at) == \E i \in 1..Len(stack[t]) : stack[t][i].at = at

(* The application does not start a call once the destructor has begun,    *)
(* but a callback that another thread is in does not know of that, and     *)
(* the destructor's loop has callbacks of its own.                         *)
Calls(t, op) ==
    \/ t \in IoThread /\ stack[t] = <<>> /\ context = "open"
    \/ /\ At(t, "event")
       /\ op \in (IF On(t, "deleting") THEN LateOps ELSE CallbackOps)

------------------------------------------------------------------------------
(* Sessions and endpoints.                                                 *)

(* createSession, createEndPoint: libcoap makes the object, or does not.   *)
Create(s) ==
    /\ sessionLife[s] = "none"
    /\ sessionLife' = [sessionLife EXCEPT ![s] = "open"]

(* Variant: a key in use is given a second Session.                        *)
AddSessionOver(t, k, s) ==
    /\ kind = "client"
    /\ Calls(t, "add")
    /\ Create(s)
    /\ m_sessions' = [m_sessions EXCEPT ![k] = s]
    /\ UNCHANGED <<kind, cursor, handlerVars, serverVars, contextVars,
                   stack>>

(* addSession: a key in use, or a libcoap session that cannot be made,     *)
(* changes nothing.                                                        *)
AddSession(t, k, s) ==
    /\ kind = "client"
    /\ Calls(t, "add")
    /\ m_sessions[k] = NoSession
    /\ Create(s)
    /\ m_sessions' = [m_sessions EXCEPT ![k] = s]
    /\ UNCHANGED <<kind, cursor, handlerVars, serverVars, contextVars,
                   stack>>

AddEndPoint(t, k, e) ==
    /\ kind = "server"
    /\ Calls(t, "add")
    /\ m_sessions[k] = NoSession
    /\ Create(e)
    /\ m_sessions' = [m_sessions EXCEPT ![k] = e]
    /\ UNCHANGED <<kind, cursor, handlerVars, serverVars, contextVars,
                   stack>>

(* The entry's object is deleted first, and libcoap may report what that   *)
(* closes (a DTLS session, the clients of an endpoint) ...                 *)
Delete(t, k) ==
    /\ m_sessions[k] # NoSession
    /\ Calls(t, IF sessionLife[m_sessions[k]] = "open" THEN "remove"
                ELSE "removeClosing")
    /\ sessionLife' = [sessionLife EXCEPT ![m_sessions[k]] = "closing"]
    /\ Push(t, Removing(k))
    /\ UNCHANGED <<kind, cursor, handlerVars, serverVars, contextVars,
                   m_sessions>>

RemoveSession(t, k) == kind = "client" /\ Delete(t, k)

RemoveEndPoint(t, k) == kind = "server" /\ Delete(t, k)

(* ... and then the entry is erased.                                       *)
Removed(t) ==
    /\ At(t, "removing")
    /\ LET k == Head(stack[t]).key
       IN  /\ sessionLife' = [sessionLife EXCEPT ![m_sessions[k]] = "deleted"]
           /\ m_sessions' = [m_sessions EXCEPT ![k] = NoSession]
    /\ Pop(t)
    /\ UNCHANGED <<kind, cursor, handlerVars, serverVars, contextVars>>

------------------------------------------------------------------------------
(* Persistence.                                                            *)

(* Variant: what the startup answered is not kept.                         *)
PersistForgotten(t) ==
    /\ kind = "server"
    /\ Calls(t, "enablePersist")
    /\ persisting' = TRUE
    /\ UNCHANGED <<kind, objectVars, handlerVars, contextVars, stack,
                   m_resourceManager, m_persistEnable>>

(* enablePersist(true) keeps what coap_persist_startup answered.  A start  *)
(* that fails leaves libcoap as it was.                                    *)
EnablePersist(t) ==
    /\ kind = "server"
    /\ Calls(t, "enablePersist")
    /\ \/ m_persistEnable' = TRUE /\ persisting' = TRUE
       \/ /\ ~persisting \/ RestartMayFail
          /\ m_persistEnable' = FALSE
          /\ UNCHANGED persisting
    /\ UNCHANGED <<kind, objectVars, handlerVars, contextVars, stack,
                   m_resourceManager>>

(* enablePersist(false) stops it, whatever the flag was.                   *)
DisablePersist(t) ==
    /\ kind = "server"
    /\ Calls(t, "enablePersist")
    /\ m_persistEnable' = FALSE
    /\ persisting' = FALSE
    /\ UNCHANGED <<kind, objectVars, handlerVars, contextVars, stack,
                   m_resourceManager>>

------------------------------------------------------------------------------
(* Events.                                                                 *)

HandlerDeleted ==
    [h \in Handler |->
        IF h = m_eventHandling THEN "deleted" ELSE handlerLife[h]]

(* registerEventHandling, also with nullptr: the old one is deleted.       *)
RegisterEventHandling(t, h) ==
    /\ Calls(t, "replaceHandler")
    /\ m_eventHandling' = h
    /\ \/ /\ h \in Handler
          /\ handlerLife[h] = "app"
          /\ handlerLife' = [HandlerDeleted EXCEPT ![h] = "registered"]
       \/ /\ h = NoHandler
          /\ handlerLife' = HandlerDeleted
    /\ UNCHANGED <<objectVars, serverVars, contextVars, kind, stack>>

(* The destructor's loop is in the delete of an object.                    *)
Deletes == cursor # 0 /\ sessionLife[m_sessions[cursor]] = "closing"

(* Where libcoap may report an event.                                      *)
LibcoapRuns(t) ==
    \/ At(t, "in")
    \/ At(t, "pending")
    \/ At(t, "removing")
    \/ At(t, "deleting") /\ Deletes
    \/ At(t, "freeing")

(* Variant: the handler is called without a look at the pointer.           *)
EventUnchecked(t) ==
    /\ LibcoapRuns(t)
    /\ app_data
    /\ Push(t, OnEvent(m_eventHandling))
    /\ UNCHANGED <<objectVars, handlerVars, serverVars, contextVars, kind>>

(* onEvent: without a Context in app data, or without a handling, the      *)
(* event goes nowhere.                                                     *)
Event(t) ==
    /\ LibcoapRuns(t)
    /\ app_data
    /\ m_eventHandling # NoHandler
    /\ Push(t, OnEvent(m_eventHandling))
    /\ UNCHANGED <<objectVars, handlerVars, serverVars, contextVars, kind>>

EventReturns(t) ==
    /\ At(t, "event")
    /\ Pop(t)
    /\ UNCHANGED <<objectVars, handlerVars, serverVars, contextVars, kind>>

------------------------------------------------------------------------------
(* ioProcess.                                                              *)

IsReady == \E k \in Key : m_sessions[k] # NoSession

(* When the context is not ready, ioProcess throws.                        *)
IoProcess(t) ==
    /\ Calls(t, "ioProcess")
    /\ IsReady
    /\ Push(t, Plain("checked"))
    /\ UNCHANGED <<objectVars, handlerVars, serverVars, contextVars, kind>>

EnterIo(t) ==
    /\ At(t, "checked")
    /\ m_isBusy' = TRUE
    /\ Continue(t, "in")
    /\ UNCHANGED <<objectVars, handlerVars, serverVars, kind, app_data,
                   context>>

LeaveIo(t) ==
    /\ At(t, "in")
    /\ m_isBusy' = FALSE
    /\ Pop(t)
    /\ UNCHANGED <<objectVars, handlerVars, serverVars, kind, app_data,
                   context>>

------------------------------------------------------------------------------
(* isioPending asks for no session, and the flag stays as it is.           *)
IsIoPending(t) ==
    /\ Calls(t, "ioPending")
    /\ Push(t, Plain("pending"))
    /\ UNCHANGED <<objectVars, handlerVars, serverVars, contextVars, kind>>

PendingReturns(t) ==
    /\ At(t, "pending")
    /\ Pop(t)
    /\ UNCHANGED <<objectVars, handlerVars, serverVars, contextVars, kind>>

------------------------------------------------------------------------------
(* ~ContextClient or ~ContextServer, and then ~Context.                    *)

(* When the application starts the destructor, every other thread is       *)
(* outside the library or in one of the calls of DestroyDuring.            *)
Respects(t) ==
    \A u \in Thread \ {t} :
        stack[u] # <<>> => stack[u][Len(stack[u])].at \in DestroyDuring

Destroy(t) ==
    /\ context = "open"
    /\ stack[t] = <<>> \/ (At(t, "event") /\ "destroy" \in CallbackOps)
    /\ Respects(t)
    /\ context' = "closing"
    /\ Push(t, Plain("waiting"))
    /\ UNCHANGED <<objectVars, handlerVars, serverVars, kind, m_isBusy,
                   app_data>>

(* Variant: the destructor does not wait.                                  *)
WaitSkipped(t) ==
    /\ At(t, "waiting")
    /\ Continue(t, "deleting")
    /\ UNCHANGED <<objectVars, handlerVars, serverVars, contextVars, kind>>

(* Variant: the event handling goes before the sessions.                   *)
WaitAndDeleteHandler(t) ==
    /\ At(t, "waiting")
    /\ ~m_isBusy
    /\ Continue(t, "deleting")
    /\ handlerLife' = HandlerDeleted
    /\ UNCHANGED <<objectVars, serverVars, contextVars, kind,
                   m_eventHandling>>

(* while(isBusy()) ends.  A build that never reads the flag again stays in *)
(* "waiting" for ever, which is a stuttering step.                         *)
WaitOver(t) ==
    /\ kind = "client"
    /\ At(t, "waiting")
    /\ ~m_isBusy
    /\ Continue(t, "deleting")
    /\ UNCHANGED <<kind, objectVars, handlerVars, serverVars, contextVars>>

(* In a server's destructor the resource manager goes next ...             *)
DeleteResourceManager(t) ==
    /\ kind = "server"
    /\ At(t, "waiting")
    /\ ~m_isBusy
    /\ m_resourceManager' = FALSE
    /\ Continue(t, "stopping")
    /\ UNCHANGED <<kind, objectVars, handlerVars, contextVars,
                   m_persistEnable, persisting>>

(* Variant: persistence is stopped when it is not enabled.                 *)
StopPersistInverted(t) ==
    /\ At(t, "stopping")
    /\ persisting' = (persisting /\ m_persistEnable)
    /\ m_persistEnable' = FALSE
    /\ Continue(t, "deleting")
    /\ UNCHANGED <<kind, objectVars, handlerVars, contextVars,
                   m_resourceManager>>

(* ... and persistence is stopped if the flag says that it runs.           *)
StopPersist(t) ==
    /\ At(t, "stopping")
    /\ persisting' = (persisting /\ ~m_persistEnable)
    /\ m_persistEnable' = FALSE
    /\ Continue(t, "deleting")
    /\ UNCHANGED <<kind, objectVars, handlerVars, contextVars,
                   m_resourceManager>>

(* The keys that the loop has yet to come to.                              *)
Ahead == {k \in Key : k > cursor /\ m_sessions[k] # NoSession}

(* The next object of the loop, whose iterator stays in the map while the  *)
(* object is deleted and callbacks change the other entries.               *)
DeleteSession(t) ==
    /\ At(t, "deleting")
    /\ ~Deletes
    /\ \E k \in Ahead :
          /\ \A l \in Ahead : k <= l
          /\ cursor' = k
          /\ sessionLife' = [sessionLife EXCEPT ![m_sessions[k]] = "closing"]
    /\ UNCHANGED <<handlerVars, serverVars, contextVars, kind, m_sessions,
                   stack>>

SessionDeleted(t) ==
    /\ At(t, "deleting")
    /\ Deletes
    /\ sessionLife' = [sessionLife EXCEPT ![m_sessions[cursor]] = "deleted"]
    /\ UNCHANGED <<handlerVars, serverVars, contextVars, kind, m_sessions,
                   cursor, stack>>

LoopOver == ~Deletes /\ Ahead = {}

(* Variant: libcoap's app data still points at the Context.                *)
FreeContextAttached(t) ==
    /\ At(t, "deleting")
    /\ LoopOver
    /\ ~m_isBusy
    /\ m_sessions' = [k \in Key |-> NoSession]
    /\ Continue(t, "freeing")
    /\ UNCHANGED <<handlerVars, serverVars, contextVars, kind, sessionLife,
                   cursor>>

(* The map is cleared, ~Context waits once more, and the app data is       *)
(* cleared before coap_free_context.                                       *)
FreeContext(t) ==
    /\ At(t, "deleting")
    /\ LoopOver
    /\ ~m_isBusy
    /\ m_sessions' = [k \in Key |-> NoSession]
    /\ app_data' = FALSE
    /\ Continue(t, "freeing")
    /\ UNCHANGED <<handlerVars, serverVars, kind, sessionLife, cursor,
                   m_isBusy, context>>

(* Variant: the event handling is forgotten.                               *)
ContextFreedOnly(t) ==
    /\ At(t, "freeing")
    /\ m_eventHandling' = NoHandler
    /\ context' = "gone"
    /\ Pop(t)
    /\ UNCHANGED <<objectVars, serverVars, kind, handlerLife, m_isBusy,
                   app_data>>

(* The libcoap context is gone, and the event handling is deleted last.    *)
ContextFreed(t) ==
    /\ At(t, "freeing")
    /\ handlerLife' = HandlerDeleted
    /\ m_eventHandling' = NoHandler
    /\ context' = "gone"
    /\ Pop(t)
    /\ UNCHANGED <<objectVars, serverVars, kind, m_isBusy, app_data>>

------------------------------------------------------------------------------
(* What the application calls: of every context, ...                       *)
ContextOperations(t) ==
    \/ \E h \in Handler \cup {NoHandler} : RegisterEventHandling(t, h)
    \/ IoProcess(t)
    \/ IsIoPending(t)
    \/ Destroy(t)

(* ... of a client, ...                                                    *)
ContextClientOperations(t) ==
    \E k \in Key :
        \/ \E s \in Session : AddSession(t, k, s)
        \/ RemoveSession(t, k)

(* ... and of a server.                                                    *)
ContextServerOperations(t) ==
    \/ \E k \in Key :
          \/ \E e \in Session : AddEndPoint(t, k, e)
          \/ RemoveEndPoint(t, k)
    \/ EnablePersist(t)
    \/ DisablePersist(t)

Application(t) ==
    \/ ContextOperations(t)
    \/ ContextClientOperations(t)
    \/ ContextServerOperations(t)
    \/ EventReturns(t)

Library(t) ==
    \/ Removed(t)
    \/ Event(t)
    \/ EnterIo(t)
    \/ LeaveIo(t)
    \/ PendingReturns(t)
    \/ WaitOver(t)
    \/ DeleteResourceManager(t)
    \/ StopPersist(t)
    \/ DeleteSession(t)
    \/ SessionDeleted(t)
    \/ FreeContext(t)
    \/ ContextFreed(t)

Next == \E t \in Thread : Application(t) \/ Library(t)

Spec == Init /\ [][Next]_vars

------------------------------------------------------------------------------
(* Properties.                                                             *)

InUse == \E t \in Thread : On(t, "in") \/ On(t, "pending")

TornDown ==
    \/ context = "gone"
    \/ \E t \in Thread :
          On(t, "stopping") \/ On(t, "deleting") \/ On(t, "freeing")

(* Nothing is destroyed while libcoap processes I/O for some thread: what  *)
(* the wait at the head of the destructors is for (ContextClient.cc:18).   *)
ContextUndisturbed == ~(InUse /\ TornDown)

(* The EventHandling whose function is on a stack has not been deleted.    *)
HandlerAlive ==
    \A t \in Thread : \A i \in 1..Len(stack[t]) :
        stack[t][i].at = "event" =>
            handlerLife[stack[t][i].handler] = "registered"

(* The map owns every open Session under one key, and an entry is an open  *)
(* Session unless removeSession is deleting it, or the destructor's loop   *)
(* has come to it, whatever callbacks do to the map in between             *)
(* (ContextClient.cc:20-23).                                               *)
SessionsOwned ==
    /\ \A s \in Session :
          sessionLife[s] \in {"open", "closing"}
              => \E k \in Key : m_sessions[k] = s
    /\ \A k, l \in Key :
          m_sessions[k] = m_sessions[l] /\ m_sessions[k] # NoSession => k = l
    /\ \A k \in Key :
          \/ m_sessions[k] = NoSession
          \/ sessionLife[m_sessions[k]] = "open"
          \/ \E t \in Thread : \E i \in 1..Len(stack[t]) :
                \/ stack[t][i] = Removing(k)
                \/ stack[t][i] = Plain("deleting") /\ k <= cursor

(* A server's endpoints go when its resources are gone and what it saves   *)
(* about them is closed: a context that outlives either writes to files,   *)
(* or serves resources, of a destroyed server (ContextServer.cc:29-34).    *)
ServerStopsFirst ==
    \/ ~m_resourceManager /\ ~persisting
    \/ /\ context # "gone"
       /\ \A t \in Thread : ~On(t, "deleting") /\ ~On(t, "freeing")

(* coap_free_context reports to nobody: the Context it would reach is in   *)
(* its destructor, with the derived part gone.                             *)
QuietWhileFreeing ==
    \A t \in Thread : On(t, "freeing") => At(t, "freeing")

(* When the destructors are through, nothing they own is left.             *)
AllReleased ==
    context = "gone" =>
        /\ \A s \in Session : sessionLife[s] \in {"none", "deleted"}
        /\ \A h \in Handler : handlerLife[h] # "registered"
==============================================================================
