------------------------------- MODULE LogLock -------------------------------
(***************************************************************************)
(* Log: the application's log handler, the level, and the mutex under      *)
(* which the four functions of the class use them.  Messages of libcoap    *)
(* and of the wrapper itself, which logs with libcoap's macros, reach the  *)
(* handler without the mutex, from any thread.                             *)
(*                                                                         *)
(* Each thread has a stack of frames, the newest first: calls of Log, and  *)
(* the handler, from which the application may call Log again.             *)
(***************************************************************************)
EXTENDS Naturals, Sequences

CONSTANTS
    Thread,
    Function,    \* the log handlers of the application
    NoFunction,  \* the empty std::function
    Level,       \* log levels: a greater one is more talkative
    Nobody,      \* the mutex is free
    HandlerOps,  \* what happens in the handler: calls of Log, libcoap's logs
    MaxCalls     \* bound: calls of Log and messages of libcoap

Op == {"SetLogHandler", "Logging", "GetLevel", "SetLevel"}

(* A call of Log waits for the mutex, holds it, is in the middle of the    *)
(* assignment of the handler, or has only to let the mutex go.             *)
Stage == {"waiting", "locked", "assigning", "done"}
Call == [op : {"SetLogHandler"}, at : Stage,
         function : Function \cup {NoFunction}]
        \cup [op : {"Logging", "SetLevel"}, at : Stage, level : Level]
        \cup [op : {"GetLevel"}, at : Stage]
InHandler == [op : {"handler"}, at : {"running"}, function : Function,
              level : Level]

ASSUME ConstantsAssumption ==
    /\ NoFunction \notin Function
    /\ Level \subseteq Nat
    /\ Nobody \notin Thread
    /\ HandlerOps \subseteq Op \cup {"LibcoapLogs"}
    /\ MaxCalls \in Nat

VARIABLES
    logMutex,    \* Log::logMutex: the thread that holds it
    logHandler,  \* Log::logHandler
    registered,  \* libcoap's log handler is the function that calls it
    log_level,   \* libcoap's log level
    stack,       \* each thread's frames, the newest first
    calls        \* history: how many calls and messages there were

settings == <<logHandler, registered, log_level>>
vars == <<logMutex, settings, stack, calls>>

TypeOK ==
    /\ logMutex \in Thread \cup {Nobody}
    /\ logHandler \in Function \cup {NoFunction}
    /\ registered \in BOOLEAN
    /\ log_level \in Level
    /\ stack \in [Thread -> Seq(Call \cup InHandler)]
    /\ calls \in 0..MaxCalls

Init ==
    /\ logMutex = Nobody
    /\ logHandler = NoFunction
    /\ registered = FALSE
    /\ log_level \in Level
    /\ stack = [t \in Thread |-> <<>>]
    /\ calls = 0

------------------------------------------------------------------------------
Top(t) == Head(stack[t])

At(t, op, at) == stack[t] # <<>> /\ Top(t).op = op /\ Top(t).at = at

(* The handler in frame i was called by the call of Logging below it.      *)
RunsUnder(frames, i) ==
    /\ i < Len(frames)
    /\ frames[i].op = "handler"
    /\ frames[i + 1].op = "Logging"

Push(t, frame) == stack' = [stack EXCEPT ![t] = <<frame>> \o @]

Go(t, at) ==
    stack' = [stack EXCEPT ![t] = <<[Head(@) EXCEPT !.at = at]>> \o Tail(@)]

(* The end of the lock_guard.                                              *)
Leave(t) ==
    /\ stack' = [stack EXCEPT ![t] = Tail(@)]
    /\ logMutex' = Nobody

------------------------------------------------------------------------------
(* The application.                                                        *)

MayCall(t, op) ==
    \/ stack[t] = <<>>
    \/ At(t, "handler", "running") /\ op \in HandlerOps

Enter(t, call) ==
    /\ MayCall(t, call.op)
    /\ calls < MaxCalls
    /\ calls' = calls + 1
    /\ Push(t, call)
    /\ UNCHANGED <<logMutex, settings>>

CallSetLogHandler(t, f) ==
    Enter(t, [op |-> "SetLogHandler", at |-> "waiting", function |-> f])

(* A message of 1024 bytes or more is dropped before the mutex is taken.   *)
CallLogging(t, l) ==
    Enter(t, [op |-> "Logging", at |-> "waiting", level |-> l])

CallGetLevel(t) == Enter(t, [op |-> "GetLevel", at |-> "waiting"])

CallSetLevel(t, l) ==
    Enter(t, [op |-> "SetLevel", at |-> "waiting", level |-> l])

(* To the call of Logging that runs it, or to libcoap.                     *)
HandlerReturns(t) ==
    /\ At(t, "handler", "running")
    /\ stack' = [stack EXCEPT ![t] =
                   IF RunsUnder(@, 1)
                   THEN <<[@[2] EXCEPT !.at = "done"]>> \o Tail(Tail(@))
                   ELSE Tail(@)]
    /\ UNCHANGED <<logMutex, settings, calls>>

------------------------------------------------------------------------------
(* The functions of Log.                                                   *)

(* Variant: the mutex is not waited for.                                   *)
PassLock(t) ==
    /\ stack[t] # <<>>
    /\ Top(t).at = "waiting"
    /\ logMutex' = t
    /\ Go(t, "locked")
    /\ UNCHANGED <<settings, calls>>

(* The mutex is not recursive: a thread that holds it waits for ever.      *)
Lock(t) ==
    /\ stack[t] # <<>>
    /\ Top(t).at = "waiting"
    /\ logMutex = Nobody
    /\ logMutex' = t
    /\ Go(t, "locked")
    /\ UNCHANGED <<settings, calls>>

(* The std::function is assigned in more than one step: until it is done   *)
(* there is no function to call.                                           *)
Assign(t) ==
    /\ At(t, "SetLogHandler", "locked")
    /\ logHandler' = NoFunction
    /\ Go(t, "assigning")
    /\ UNCHANGED <<logMutex, registered, log_level, calls>>

SetLogHandler(t) ==
    /\ At(t, "SetLogHandler", "assigning")
    /\ logHandler' = Top(t).function
    /\ registered' = TRUE
    /\ Leave(t)
    /\ UNCHANGED <<log_level, calls>>

(* Variant: the empty function is called too.                              *)
ReachesRegistered(l) == registered /\ l <= log_level

(* coap_log lets the message through, and the registered function finds a  *)
(* handler.                                                                *)
Reaches(l) == registered /\ l <= log_level /\ logHandler # NoFunction

Handled(l) ==
    [op |-> "handler", at |-> "running", function |-> logHandler, level |-> l]

(* Variant: a message that is not let through leaves the mutex locked.     *)
FilteredLocked(t) ==
    /\ At(t, "Logging", "locked")
    /\ ~Reaches(Top(t).level)
    /\ stack' = [stack EXCEPT ![t] = Tail(@)]
    /\ UNCHANGED <<logMutex, settings, calls>>

Filtered(t) ==
    /\ At(t, "Logging", "locked")
    /\ ~Reaches(Top(t).level)
    /\ Leave(t)
    /\ UNCHANGED <<settings, calls>>

(* The handler runs with the mutex held.                                   *)
Logging(t) ==
    /\ At(t, "Logging", "locked")
    /\ Reaches(Top(t).level)
    /\ Push(t, Handled(Top(t).level))
    /\ UNCHANGED <<logMutex, settings, calls>>

Logged(t) ==
    /\ At(t, "Logging", "done")
    /\ Leave(t)
    /\ UNCHANGED <<settings, calls>>

GetLevel(t) ==
    /\ At(t, "GetLevel", "locked")
    /\ Leave(t)
    /\ UNCHANGED <<settings, calls>>

SetLevel(t) ==
    /\ At(t, "SetLevel", "locked")
    /\ log_level' = Top(t).level
    /\ Leave(t)
    /\ UNCHANGED <<logHandler, registered, calls>>

(* A message of libcoap's own, or of the wrapper, which does not use Log:  *)
(* without the mutex, whatever the other threads are at.                   *)
LibcoapLogs(t, l) ==
    /\ MayCall(t, "LibcoapLogs")
    /\ Reaches(l)
    /\ calls < MaxCalls
    /\ calls' = calls + 1
    /\ Push(t, Handled(l))
    /\ UNCHANGED <<logMutex, settings>>

------------------------------------------------------------------------------
Application(t) ==
    \/ \E f \in Function \cup {NoFunction} : CallSetLogHandler(t, f)
    \/ \E l \in Level :
          CallLogging(t, l) \/ CallSetLevel(t, l) \/ LibcoapLogs(t, l)
    \/ CallGetLevel(t)

Step(t) ==
    \/ HandlerReturns(t)
    \/ Lock(t)
    \/ Assign(t)
    \/ SetLogHandler(t)
    \/ Filtered(t)
    \/ Logging(t)
    \/ Logged(t)
    \/ GetLevel(t)
    \/ SetLevel(t)

Next == \E t \in Thread : Application(t) \/ Step(t)

(* A thread that can go on does, and the application's handler returns.    *)
Spec == Init /\ [][Next]_vars /\ \A t \in Thread : WF_vars(Step(t))

------------------------------------------------------------------------------
(* Properties.                                                             *)

(* A handler that a call of Logging runs is the one that is set, and no    *)
(* assignment of it is half done; the message is within the level of that  *)
(* moment, and no other call of Logging runs one (Log.cc:20, Log.cc:38).   *)
HandlerUndisturbed ==
    \A t \in Thread : \A i \in 1..Len(stack[t]) : RunsUnder(stack[t], i) =>
        /\ stack[t][i].function = logHandler
        /\ stack[t][i].level <= log_level
        /\ \A u \in Thread : \A j \in 1..Len(stack[u]) :
              RunsUnder(stack[u], j) => u = t /\ j = i

(* Every call of Log comes back, in whatever order threads log, set the    *)
(* handler and the level.                                                  *)
CallsReturn == \A t \in Thread : stack[t] # <<>> ~> stack[t] = <<>>

(* The class is safe for threads (Log.h:36): no handler is replaced while  *)
(* it runs, whoever called it.                                             *)
HandlerIsSet ==
    \A t \in Thread :
        At(t, "handler", "running") => Top(t).function = logHandler
==============================================================================
