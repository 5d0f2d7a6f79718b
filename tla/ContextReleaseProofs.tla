------------------------ MODULE ContextReleaseProofs ------------------------
(***************************************************************************)
(* Theorems about what a ContextIo owns, for any threads, sessions or      *)
(* endpoints, event handlings and depth of calls: who owns a Session while *)
(* it is deleted under callbacks, in which order a server's destructor     *)
(* stops its parts, and that nothing is left when it is through.           *)
(***************************************************************************)
EXTENDS ContextIoProofs

(* A callback deletes no Session that is being deleted, and adds none      *)
(* while the destructor deletes them.  Without either the code fails.      *)
DeletesOnce ==
    /\ "removeClosing" \notin CallbackOps \cup LateOps
    /\ "add" \notin LateOps

------------------------------------------------------------------------------
(* Frames that move.                                                       *)

(* Each frame of a stack is a frame.                                       *)
LEMMA FrameType ==
    ASSUME TypeOK, NEW t \in Thread, NEW i \in 1..Len(stack[t])
    PROVE  stack[t][i] \in Frame
<1> DEFINE s == stack[t]
<1>1. s \in Seq(Frame) /\ i \in 1..Len(s)
  BY DEF TypeOK
<1> HIDE DEF s
<1>2. s[i] \in Frame
  BY <1>1
<1> QED
  BY <1>2 DEF s

(* A frame that removes a key, or deletes all, is determined by that.      *)
LEMMA RemovingFrames ==
    /\ \A k \in Key : Removing(k).key = k
    /\ \A f \in Frame :
          /\ f.at = "removing" => f.key \in Key /\ f = Removing(f.key)
          /\ f.at = "deleting" => f = Plain("deleting")
BY DEF Frame, Stage, Plain, Removing, OnEvent

(* After a push each frame is the new one or was there.                    *)
LEMMA PushFrom ==
    ASSUME TypeOK, NEW t \in Thread, NEW frame \in Frame, Push(t, frame),
           NEW u \in Thread, NEW i \in 1..Len(stack'[u])
    PROVE  \/ u = t /\ i = 1 /\ stack'[u][i] = frame
           \/ \E j \in 1..Len(stack[u]) :
                 /\ stack'[u][i] = stack[u][j]
                 /\ i = IF u = t THEN j + 1 ELSE j
<1>1. Len(stack[t]) \in Nat
  BY LenProperties DEF TypeOK
<1>2. CASE u # t
  BY <1>2, PushStack
<1>3. CASE u = t /\ i = 1
  BY <1>3, PushStack
<1>4. CASE u = t /\ i # 1
  <2>1. i - 1 \in 1..Len(stack[t]) /\ i = (i - 1) + 1
    BY <1>1, <1>4, PushStack
  <2>2. stack'[t][(i - 1) + 1] = stack[t][i - 1]
    BY <2>1, PushStack
  <2> QED  BY <1>4, <2>1, <2>2
<1> QED
  BY <1>2, <1>3, <1>4

(* After a return each frame was there.                                    *)
LEMMA PopFrom ==
    ASSUME TypeOK, NEW t \in Thread, stack[t] # <<>>, Pop(t),
           NEW u \in Thread, NEW i \in 1..Len(stack'[u])
    PROVE  \E j \in 1..Len(stack[u]) :
              /\ stack'[u][i] = stack[u][j]
              /\ j = IF u = t THEN i + 1 ELSE i
<1>1. Len(stack[t]) \in Nat
  BY LenProperties DEF TypeOK
<1>2. CASE u # t
  BY <1>2, PopStack
<1>3. CASE u = t
  <2>1. i \in 1..(Len(stack[t]) - 1) /\ i + 1 \in 1..Len(stack[t])
    BY <1>1, <1>3, PopStack
  <2>2. stack'[t][i] = stack[t][i + 1]
    BY <2>1, PopStack
  <2> QED  BY <1>3, <2>1, <2>2
<1> QED
  BY <1>2, <1>3

------------------------------------------------------------------------------
(* No call of the application meets a destructor at work.                  *)

Quiet == CalmInv /\ OutsideWhenClosing /\ PollsBefore

(* A thread in the library that does not destroy the context meets none    *)
(* that is torn down.                                                      *)
LEMMA NotTorn ==
    ASSUME CalmInv, OutsideWhenClosing, NEW t \in Thread, stack[t] # <<>>,
           ~Destroys(t)
    PROVE  ~TornDown
<1>1. CASE context = "open"
  <2>1. \A u \in Thread : ~Destroys(u)
    BY <1>1 DEF CalmInv, OneDestroys
  <2> QED
    BY <1>1, <2>1 DEF TornDown, Destroys, Destructor
<1>2. CASE context # "open"
  <2>1. On(t, "in")
    BY <1>2 DEF OutsideWhenClosing
  <2> QED
    BY <2>1 DEF CalmInv, IoUndisturbed
<1> QED
  BY <1>1, <1>2

(* So does the application when it calls what the destructor's callbacks   *)
(* do not ...                                                              *)
LEMMA CallsEarly ==
    ASSUME Quiet, NEW t \in Thread, NEW op, op \notin LateOps,
           Calls(t, op)
    PROVE  ~TornDown
<1>1. CASE stack[t] = <<>> /\ context = "open"
  <2>1. \A u \in Thread : ~Destroys(u)
    BY <1>1 DEF Quiet, CalmInv, OneDestroys
  <2> QED
    BY <1>1, <2>1 DEF TornDown, Destroys, Destructor
<1>2. CASE At(t, "event")
  <2>1. stack[t] # <<>> /\ ~Destroys(t)
    BY <1>2, CallsPolls DEF Quiet, At
  <2> QED
    BY <2>1, NotTorn DEF Quiet
<1> QED
  BY <1>1, <1>2 DEF Calls

(* ... and no call at all comes when the context is gone.                  *)
LEMMA CallsBeforeGone ==
    ASSUME Quiet, NEW t \in Thread, NEW op, Calls(t, op)
    PROVE  context # "gone"
<1>1. CASE stack[t] = <<>> /\ context = "open"
  BY <1>1
<1>2. CASE stack[t] # <<>> /\ ~Destroys(t)
  BY <1>2, NotTorn DEF Quiet, TornDown
<1>3. CASE Destroys(t)
  BY <1>3 DEF Quiet, CalmInv, OneDestroys
<1> QED
  BY <1>1, <1>2, <1>3 DEF Calls, At

(* When the destructor itself goes on, removeSession is on no stack.       *)
LEMMA NoneRemoving ==
    ASSUME TypeOK, Quiet, NEW t \in Thread, At(t, "deleting")
    PROVE  \A u \in Thread : \A i \in 1..Len(stack[u]) :
               stack[u][i].at # "removing"
<1>1. InPlace /\ "deleting" \in Outermost /\ On(t, "deleting")
  BY OnTop DEF Quiet, CalmInv, Outermost, Destructor
<1>2. TornDown /\ Destroys(t)
  BY <1>1 DEF TornDown, Destroys, Destructor
<1>3. ~On(t, "removing")
  BY <1>1, Alone
<1>4. ASSUME NEW u \in Thread \ {t}, On(u, "removing")
      PROVE  FALSE
  <2>1. stack[u] # <<>>
    BY <1>4, EmptyStack
  <2>2. ~Destroys(u)
    BY <1>2 DEF Quiet, CalmInv, OneDestroys
  <2> QED  BY <1>2, <2>1, <2>2, NotTorn DEF Quiet
<1> QED
  BY <1>3, <1>4 DEF On

(* Nobody else calls a context that is destroyed, throughout.              *)
LEMMA QuietAlways == Disciplined => (Spec => []Quiet)
<1>1. CalmInv /\ OutsideWhenClosing /\ PollsBefore <=> Quiet
  BY DEF Quiet
<1> QED
  BY <1>1, Calm, Outside, Polls, PTL

------------------------------------------------------------------------------
(* The order in which a server stops.                                      *)

(* What libcoap saves the server knows of, and a client has no resources   *)
(* and saves nothing.                                                      *)
StopsInOrder ==
    /\ persisting => m_persistEnable
    /\ kind = "client" => ~m_resourceManager /\ ~persisting
    /\ \A t \in Thread : On(t, "stopping") => ~m_resourceManager
    /\ ServerStopsFirst

(* No thread gets further in its destructor.                               *)
NoFurther ==
    /\ \A t \in Thread : \A at \in {"stopping", "deleting", "freeing"} :
          On(t, at)' => On(t, at)
    /\ context' = "gone" => TornDown

(* Every step keeps the server's order.                                    *)
LEMMA StopsStep ==
    ASSUME TypeOK, Quiet, StopsInOrder, [Next]_vars, ~RestartMayFail,
           "enablePersist" \notin LateOps
    PROVE  StopsInOrder'
<1>0. InPlace
  BY DEF Quiet, CalmInv
<1> DEFINE Late == {"stopping", "deleting", "freeing"}
<1>1. ASSUME NoFurther, UNCHANGED kind, UNCHANGED serverVars,
             context' = "gone" => context = "gone"
                                  \/ \E t \in Thread : On(t, "freeing")
      PROVE  StopsInOrder'
  BY <1>1 DEF NoFurther, StopsInOrder, ServerStopsFirst, serverVars
<1>2. ASSUME UNCHANGED <<stack, context, kind>>, UNCHANGED serverVars
      PROVE  StopsInOrder'
  BY <1>2 DEF StopsInOrder, ServerStopsFirst, serverVars, On
<1>3. ASSUME NEW t \in Thread, NEW frame \in Frame, Push(t, frame),
             frame.at \notin Late, UNCHANGED kind, UNCHANGED serverVars,
             context' # "gone" \/ UNCHANGED context
      PROVE  StopsInOrder'
  <2>1. NoFurther
    BY <1>3, PushOn DEF NoFurther, TornDown
  <2> QED  BY <1>1, <1>3, <2>1
<1>4. ASSUME NEW t \in Thread, stack[t] # <<>>, Pop(t), UNCHANGED kind,
             UNCHANGED serverVars,
             UNCHANGED context \/ On(t, "freeing")
      PROVE  StopsInOrder'
  <2>1. NoFurther
    BY <1>4, PopOn DEF NoFurther, TornDown
  <2> QED  BY <1>1, <1>4, <2>1
<1>5. ASSUME NEW t \in Thread, NEW k \in Key, Delete(t, k)
      PROVE  StopsInOrder'
  <2>1. /\ Removing(k) \in Frame /\ Removing(k).at \notin Late
        /\ Push(t, Removing(k))
        /\ UNCHANGED kind /\ UNCHANGED serverVars /\ UNCHANGED context
    BY <1>5, PlainFrames DEF Delete, contextVars
  <2> QED  BY <1>3, <2>1
<1>6. ASSUME NEW t \in Thread, Event(t)
      PROVE  StopsInOrder'
  <2>1. /\ OnEvent(m_eventHandling) \in Frame
        /\ OnEvent(m_eventHandling).at \notin Late
        /\ Push(t, OnEvent(m_eventHandling))
        /\ UNCHANGED kind /\ UNCHANGED serverVars /\ UNCHANGED context
    BY <1>6, PlainFrames DEF Event, contextVars, TypeOK
  <2> QED  BY <1>3, <2>1
<1>7. ASSUME NEW t \in Thread, IoProcess(t) \/ IsIoPending(t)
      PROVE  StopsInOrder'
  <2>1. PICK at \in {"checked", "pending"} : Push(t, Plain(at))
    BY <1>7 DEF IoProcess, IsIoPending
  <2>2. /\ Plain(at) \in Frame /\ Plain(at).at \notin Late
        /\ UNCHANGED kind /\ UNCHANGED serverVars /\ UNCHANGED context
    BY <1>7, PlainFrames DEF IoProcess, IsIoPending, contextVars
  <2> QED  BY <1>3, <2>1, <2>2
<1>8. ASSUME NEW t \in Thread, Destroy(t)
      PROVE  StopsInOrder'
  <2>1. /\ Plain("waiting") \in Frame /\ Plain("waiting").at \notin Late
        /\ Push(t, Plain("waiting"))
        /\ UNCHANGED kind /\ UNCHANGED serverVars /\ context' = "closing"
    BY <1>8, PlainFrames DEF Destroy
  <2> QED  BY <1>3, <2>1
<1>9. ASSUME NEW t \in Thread, EventReturns(t) \/ PendingReturns(t)
                 \/ Removed(t) \/ LeaveIo(t)
      PROVE  StopsInOrder'
  <2>1. /\ stack[t] # <<>> /\ Pop(t)
        /\ UNCHANGED kind /\ UNCHANGED serverVars /\ UNCHANGED context
    BY <1>9 DEF EventReturns, PendingReturns, Removed, LeaveIo, At,
                contextVars
  <2> QED  BY <1>4, <2>1
<1>10. ASSUME NEW t \in Thread, ContextFreed(t)
       PROVE  StopsInOrder'
  <2>1. /\ stack[t] # <<>> /\ Pop(t) /\ On(t, "freeing")
        /\ UNCHANGED kind /\ UNCHANGED serverVars
    BY <1>10, OnTop DEF ContextFreed
  <2> QED  BY <1>4, <2>1
<1>11. ASSUME NEW t \in Thread, NEW from \in Outermost, NEW to \in Outermost,
              At(t, from), Plain(to) \in Frame, Continue(t, to)
       PROVE  /\ On(t, from)
              /\ \A u \in Thread : \A at \in Late :
                    On(u, at)' => (u = t /\ at = to) \/ On(u, at)
  BY <1>0, <1>11, ContinueAlone, OnTop
<1>12. /\ Plain("in") \in Frame /\ "in" \in Outermost
       /\ Plain("deleting") \in Frame /\ "deleting" \in Outermost
       /\ Plain("stopping") \in Frame /\ "stopping" \in Outermost
       /\ Plain("freeing") \in Frame /\ "freeing" \in Outermost
       /\ "checked" \in Outermost /\ "waiting" \in Outermost
  BY PlainFrames DEF Outermost, Destructor
<1>13. ASSUME NEW t \in Thread, EnterIo(t)
       PROVE  StopsInOrder'
  <2>1. \A u \in Thread : \A at \in Late : On(u, at)' => On(u, at)
    BY <1>11, <1>12, <1>13 DEF EnterIo
  <2> QED
    BY <1>1, <1>13, <2>1 DEF EnterIo, NoFurther, TornDown
<1>14. ASSUME NEW t \in Thread, WaitOver(t)
       PROVE  StopsInOrder'
  <2>1. \A u \in Thread : \A at \in Late :
            On(u, at)' => (u = t /\ at = "deleting") \/ On(u, at)
    BY <1>11, <1>12, <1>14 DEF WaitOver
  <2>2. /\ UNCHANGED kind /\ UNCHANGED serverVars /\ UNCHANGED context
        /\ kind = "client"
    BY <1>14 DEF WaitOver, contextVars
  <2> QED
    BY <2>1, <2>2 DEF StopsInOrder, ServerStopsFirst, serverVars
<1>15. ASSUME NEW t \in Thread, DeleteResourceManager(t)
       PROVE  StopsInOrder'
  <2>1. \A u \in Thread : \A at \in Late :
            On(u, at)' => (u = t /\ at = "stopping") \/ On(u, at)
    BY <1>11, <1>12, <1>15 DEF DeleteResourceManager
  <2>2. /\ UNCHANGED <<kind, context, persisting, m_persistEnable>>
        /\ m_resourceManager' = FALSE
    BY <1>15 DEF DeleteResourceManager, contextVars
  <2> QED
    BY <2>1, <2>2 DEF StopsInOrder, ServerStopsFirst
<1>16. ASSUME NEW t \in Thread, StopPersist(t)
       PROVE  StopsInOrder'
  <2>1. /\ On(t, "stopping")
        /\ \A u \in Thread : \A at \in Late :
              On(u, at)' => (u = t /\ at = "deleting") \/ On(u, at)
    BY <1>11, <1>12, <1>16 DEF StopPersist
  <2>2. /\ UNCHANGED <<kind, context, m_resourceManager>>
        /\ persisting' = FALSE /\ m_resourceManager = FALSE
    BY <1>16, <2>1 DEF StopPersist, contextVars, StopsInOrder, TypeOK
  <2> QED
    BY <2>1, <2>2 DEF StopsInOrder, ServerStopsFirst
<1>17. ASSUME NEW t \in Thread, FreeContext(t)
       PROVE  StopsInOrder'
  <2>1. /\ On(t, "deleting")
        /\ \A u \in Thread : \A at \in Late :
              On(u, at)' => (u = t /\ at = "freeing") \/ On(u, at)
    BY <1>11, <1>12, <1>17 DEF FreeContext
  <2>2. /\ UNCHANGED <<kind, context>> /\ UNCHANGED serverVars
        /\ ~m_resourceManager /\ ~persisting
    BY <1>17, <2>1 DEF FreeContext, StopsInOrder, ServerStopsFirst
  <2> QED
    BY <2>1, <2>2 DEF StopsInOrder, ServerStopsFirst, serverVars
<1>18. ASSUME NEW t \in Thread, EnablePersist(t) \/ DisablePersist(t)
       PROVE  StopsInOrder'
  <2>1. ~TornDown
    BY <1>18, CallsEarly DEF EnablePersist, DisablePersist
  <2>2. UNCHANGED <<stack, context, kind, m_resourceManager>>
        /\ kind = "server" /\ (persisting' => m_persistEnable')
    BY <1>18 DEF EnablePersist, DisablePersist, contextVars
  <2>3. \A u \in Thread : \A at : On(u, at)' <=> On(u, at)
    BY <2>2 DEF On
  <2> QED
    BY <2>1, <2>2, <2>3 DEF StopsInOrder, ServerStopsFirst, TornDown
<1>19. ASSUME NEW t \in Thread,
              \/ \E k \in Key, s \in Session :
                    AddSession(t, k, s) \/ AddEndPoint(t, k, s)
              \/ \E h \in Handler \cup {NoHandler} :
                    RegisterEventHandling(t, h)
              \/ DeleteSession(t) \/ SessionDeleted(t)
       PROVE  StopsInOrder'
  BY <1>2, <1>19
  DEF AddSession, AddEndPoint, RegisterEventHandling, DeleteSession,
      SessionDeleted, contextVars
<1>20. CASE UNCHANGED vars
  BY <1>2, <1>20 DEF vars, contextVars
<1> QED
  BY <1>5, <1>6, <1>7, <1>8, <1>9, <1>10, <1>13, <1>14, <1>15, <1>16, <1>17,
     <1>18, <1>19, <1>20
  DEF Next, Application, Library, ContextOperations,
      ContextClientOperations, ContextServerOperations, RemoveSession,
      RemoveEndPoint

(* A server's endpoints go when its resources are gone and what it saved   *)
(* is closed (ContextServer.cc:29-34), if coap_persist_startup does not    *)
(* fail for a context that is saved already and the destructor's callbacks *)
(* do not start it again.                                                  *)
THEOREM ServerStops ==
    Disciplined /\ ~RestartMayFail /\ "enablePersist" \notin LateOps
        => (Spec => []ServerStopsFirst)
<1> SUFFICES ASSUME Disciplined, ~RestartMayFail,
                    "enablePersist" \notin LateOps
             PROVE  Spec => []ServerStopsFirst
  OBVIOUS
<1>1. Init => StopsInOrder
  BY EmptyStack DEF Init, StopsInOrder, ServerStopsFirst
<1>2. TypeOK /\ Quiet /\ StopsInOrder /\ [Next]_vars => StopsInOrder'
  BY StopsStep
<1>3. StopsInOrder => ServerStopsFirst
  BY DEF StopsInOrder
<1>4. QED
  BY <1>1, <1>2, <1>3, TypeCorrect, QuietAlways, PTL DEF Spec

------------------------------------------------------------------------------
(* Who owns a Session.                                                     *)

OpenHasKey ==
    \A s \in Session :
        sessionLife[s] \in {"open", "closing"}
            => \E k \in Key : m_sessions[k] = s

OneKey ==
    \A k, l \in Key :
        m_sessions[k] = m_sessions[l] /\ m_sessions[k] # NoSession => k = l

(* A frame deletes what is under this key, or has.                         *)
Dooms(frame, k) ==
    frame = Removing(k) \/ (frame = Plain("deleting") /\ k <= cursor)

Doomed(k) ==
    \E t \in Thread : \E i \in 1..Len(stack[t]) : Dooms(stack[t][i], k)

EntriesLive ==
    \A k \in Key :
        \/ m_sessions[k] = NoSession
        \/ sessionLife[m_sessions[k]] = "open"
        \/ Doomed(k)

EntriesMade ==
    \A k \in Key :
        m_sessions[k] # NoSession => sessionLife[m_sessions[k]] # "none"

(* What removeSession deletes stays under its key until it returns ...     *)
RemovingHolds ==
    \A t \in Thread : \A i \in 1..Len(stack[t]) :
        stack[t][i].at = "removing" =>
            /\ m_sessions[stack[t][i].key] # NoSession
            /\ sessionLife[m_sessions[stack[t][i].key]] = "closing"

(* ... and no other call deletes it too.                                   *)
RemovingOnce ==
    \A t, u \in Thread :
        \A i \in 1..Len(stack[t]), j \in 1..Len(stack[u]) :
            stack[t][i].at = "removing" /\ stack[u][j] = stack[t][i]
                => u = t /\ j = i

(* The loop of a destructor is not over what removeSession deletes ...     *)
RemovingAhead ==
    \A t \in Thread : \A i \in 1..Len(stack[t]) :
        stack[t][i].at = "removing" => stack[t][i].key > cursor

(* ... has deleted what it is past, is deleting or has deleted what it is  *)
(* at ...                                                                  *)
PastDeleted ==
    \A k \in Key :
        m_sessions[k] # NoSession /\ k <= cursor =>
            \/ sessionLife[m_sessions[k]] = "deleted"
            \/ k = cursor /\ sessionLife[m_sessions[k]] = "closing"

Clears == context = "gone" \/ \E t \in Thread : On(t, "freeing")

(* ... and is at an entry that is there, until the map is cleared.         *)
CursorHolds ==
    cursor # 0 =>
        \/ Clears
        \/ /\ m_sessions[cursor] # NoSession
           /\ \E t \in Thread : On(t, "deleting")

MapCleared == Clears => \A k \in Key : m_sessions[k] = NoSession

LoopInv == RemovingAhead /\ PastDeleted /\ CursorHolds

SessionInv ==
    /\ LoopInv
    /\ OpenHasKey
    /\ OneKey
    /\ EntriesLive
    /\ EntriesMade
    /\ RemovingHolds
    /\ RemovingOnce
    /\ MapCleared

(* The parts of the property.                                              *)
LEMMA SessionsOwnedParts ==
    SessionsOwned <=> OpenHasKey /\ OneKey /\ EntriesLive
BY DEF SessionsOwned, OpenHasKey, OneKey, EntriesLive, Doomed, Dooms

(* A frame at "deleting" dooms the entries that the loop has come to.      *)
LEMMA DeletingDooms ==
    ASSUME TypeOK, NEW t \in Thread, On(t, "deleting"), NEW k \in Key,
           k <= cursor
    PROVE  Doomed(k)
<1>1. PICK i \in 1..Len(stack[t]) : stack[t][i].at = "deleting"
  BY DEF On
<1>2. stack[t][i] = Plain("deleting")
  BY <1>1, FrameType, RemovingFrames
<1> QED
  BY <1>2 DEF Doomed, Dooms

(* Before the loop begins and when it is over the cursor tells nothing.    *)
LEMMA CursorEarly ==
    ASSUME SessionInv, ~TornDown
    PROVE  cursor = 0
BY DEF SessionInv, LoopInv, CursorHolds, Clears, TornDown

(* A key stays doomed when a call begins, and is when it removes that key. *)
LEMMA PushDoomed ==
    ASSUME TypeOK, NEW t \in Thread, NEW frame \in Frame, Push(t, frame),
           NEW k \in Key, UNCHANGED cursor
    PROVE  /\ Doomed(k) => Doomed(k)'
           /\ frame = Removing(k) => Doomed(k)'
<1>1. Len(stack[t]) \in Nat /\ Len(stack'[t]) = Len(stack[t]) + 1
      /\ stack'[t][1] = frame
  BY PushStack, LenProperties DEF TypeOK
<1>2. frame = Removing(k) => Doomed(k)'
  <2>1. 1 \in 1..Len(stack'[t])
    BY <1>1
  <2> QED  BY <1>1, <2>1 DEF Doomed, Dooms
<1>3. ASSUME NEW u \in Thread, NEW i \in 1..Len(stack[u])
      PROVE  \E j \in 1..Len(stack'[u]) : stack'[u][j] = stack[u][i]
  <2>1. CASE u # t
    BY <2>1, PushStack
  <2>2. CASE u = t
    <3>1. i + 1 \in 1..Len(stack'[t])
      BY <1>1, <2>2
    <3> QED  BY <2>2, <3>1, PushStack
  <2> QED  BY <2>1, <2>2
<1> QED
  BY <1>2, <1>3 DEF Doomed, Dooms

(* A key stays doomed when another call returns.                           *)
LEMMA PopDoomed ==
    ASSUME TypeOK, NEW t \in Thread, stack[t] # <<>>, Pop(t), NEW k \in Key,
           Head(stack[t]) \notin {Removing(k), Plain("deleting")},
           UNCHANGED cursor, Doomed(k)
    PROVE  Doomed(k)'
<1>0. PICK u \in Thread : \E i \in 1..Len(stack[u]) : Dooms(stack[u][i], k)
  BY DEF Doomed
<1>1. PICK i \in 1..Len(stack[u]) : Dooms(stack[u][i], k)
  BY <1>0
<1>2. Len(stack[t]) \in Nat /\ Head(stack[t]) = stack[t][1]
      /\ Len(stack'[t]) = Len(stack[t]) - 1
  BY PopStack, LenProperties DEF TypeOK
<1>3. CASE u # t
  <2>1. stack'[u] = stack[u]
    BY <1>3, PopStack
  <2> QED  BY <1>1, <2>1 DEF Doomed, Dooms
<1>4. CASE u = t
  <2>1. i # 1
    BY <1>1, <1>2, <1>4 DEF Dooms
  <2>2. i - 1 \in 1..Len(stack'[t]) /\ i - 1 \in 1..(Len(stack[t]) - 1)
        /\ (i - 1) + 1 = i
    BY <1>2, <1>4, <2>1
  <2>3. stack'[t][i - 1] = stack[t][(i - 1) + 1]
    BY <2>2, PopStack
  <2>4. stack'[t][i - 1] = stack[t][i]
    BY <2>2, <2>3
  <2> QED  BY <1>1, <1>4, <2>2, <2>4 DEF Doomed, Dooms
<1> QED
  BY <1>3, <1>4

(* No two calls delete the same, when frames come and go.                  *)
LEMMA PushOnce ==
    ASSUME TypeOK, RemovingOnce, NEW t \in Thread, NEW frame \in Frame,
           Push(t, frame),
           frame.at = "removing" =>
               \A u \in Thread : \A i \in 1..Len(stack[u]) :
                   stack[u][i] # frame
    PROVE  RemovingOnce'
<1> SUFFICES ASSUME NEW u \in Thread, NEW v \in Thread,
                    NEW i \in 1..Len(stack'[u]), NEW j \in 1..Len(stack'[v]),
                    stack'[u][i].at = "removing", stack'[v][j] = stack'[u][i]
             PROVE  v = u /\ j = i
  BY DEF RemovingOnce
<1>0. \A w \in Thread : \A n \in 1..Len(stack'[w]) :
          \/ w = t /\ n = 1 /\ stack'[w][n] = frame
          \/ \E m \in 1..Len(stack[w]) :
                /\ stack'[w][n] = stack[w][m]
                /\ n = IF w = t THEN m + 1 ELSE m
  BY PushFrom
<1>1. CASE u = t /\ i = 1 /\ stack'[u][i] = frame
  <2>1. \A w \in Thread : \A n \in 1..Len(stack[w]) : stack[w][n] # frame
    BY <1>1
  <2>2. stack'[v][j] = frame
    BY <1>1
  <2>3. ~\E m \in 1..Len(stack[v]) : stack'[v][j] = stack[v][m]
    BY <2>1, <2>2
  <2>4. v = t /\ j = 1
    BY <1>0, <2>3
  <2> QED  BY <1>1, <2>4
<1>2. ASSUME NEW i0 \in 1..Len(stack[u]), stack'[u][i] = stack[u][i0],
             i = IF u = t THEN i0 + 1 ELSE i0
      PROVE  v = u /\ j = i
  <2>1. stack'[v][j] # frame
    BY <1>2
  <2>2. PICK j0 \in 1..Len(stack[v]) :
            /\ stack'[v][j] = stack[v][j0]
            /\ j = IF v = t THEN j0 + 1 ELSE j0
    BY <1>0, <2>1
  <2>3. v = u /\ j0 = i0
    BY <1>2, <2>2 DEF RemovingOnce
  <2> QED  BY <1>2, <2>2, <2>3
<1>3. CASE \E i0 \in 1..Len(stack[u]) :
              /\ stack'[u][i] = stack[u][i0]
              /\ i = IF u = t THEN i0 + 1 ELSE i0
  BY <1>2, <1>3
<1>4. \/ u = t /\ i = 1 /\ stack'[u][i] = frame
      \/ \E i0 \in 1..Len(stack[u]) :
            /\ stack'[u][i] = stack[u][i0]
            /\ i = IF u = t THEN i0 + 1 ELSE i0
  BY <1>0
<1> QED
  BY <1>1, <1>3, <1>4

(* The calls that are left still remove different keys.                    *)
LEMMA PopOnce ==
    ASSUME TypeOK, RemovingOnce, NEW t \in Thread, stack[t] # <<>>, Pop(t)
    PROVE  RemovingOnce'
<1> SUFFICES ASSUME NEW u \in Thread, NEW v \in Thread,
                    NEW i \in 1..Len(stack'[u]), NEW j \in 1..Len(stack'[v]),
                    stack'[u][i].at = "removing", stack'[v][j] = stack'[u][i]
             PROVE  v = u /\ j = i
  BY DEF RemovingOnce
<1>1. PICK i0 \in 1..Len(stack[u]) :
          stack'[u][i] = stack[u][i0] /\ i0 = IF u = t THEN i + 1 ELSE i
  BY PopFrom
<1>2. PICK j0 \in 1..Len(stack[v]) :
          stack'[v][j] = stack[v][j0] /\ j0 = IF v = t THEN j + 1 ELSE j
  BY PopFrom
<1>3. v = u /\ j0 = i0
  BY <1>1, <1>2 DEF RemovingOnce
<1>4. CASE u = t
  <2>1. i + 1 = j + 1
    BY <1>1, <1>2, <1>3, <1>4
  <2>2. i \in Int /\ j \in Int
    OBVIOUS
  <2> QED  BY <1>3, <2>1, <2>2
<1>5. CASE u # t
  BY <1>1, <1>2, <1>3, <1>5
<1> QED
  BY <1>4, <1>5

(* What is being removed stays under its key when a call begins ...        *)
LEMMA PushHolds ==
    ASSUME TypeOK, RemovingHolds, NEW t \in Thread, NEW frame \in Frame,
           Push(t, frame), frame.at # "removing", UNCHANGED objectVars
    PROVE  RemovingHolds'
<1> SUFFICES ASSUME NEW u \in Thread, NEW i \in 1..Len(stack'[u]),
                    stack'[u][i].at = "removing"
             PROVE  /\ m_sessions[stack'[u][i].key] # NoSession
                    /\ sessionLife[m_sessions[stack'[u][i].key]] = "closing"
  BY DEF RemovingHolds, objectVars
<1>1. PICK j \in 1..Len(stack[u]) : stack'[u][i] = stack[u][j]
  BY PushFrom
<1> QED
  BY <1>1 DEF RemovingHolds

(* ... and when one returns.                                               *)
LEMMA PopHolds ==
    ASSUME TypeOK, RemovingHolds, NEW t \in Thread, stack[t] # <<>>, Pop(t),
           UNCHANGED objectVars
    PROVE  RemovingHolds'
<1> SUFFICES ASSUME NEW u \in Thread, NEW i \in 1..Len(stack'[u]),
                    stack'[u][i].at = "removing"
             PROVE  /\ m_sessions[stack'[u][i].key] # NoSession
                    /\ sessionLife[m_sessions[stack'[u][i].key]] = "closing"
  BY DEF RemovingHolds, objectVars
<1>1. PICK j \in 1..Len(stack[u]) : stack'[u][i] = stack[u][j]
  BY PopFrom
<1> QED
  BY <1>1 DEF RemovingHolds

(* What does not mention frames depends on the objects and the map only.   *)
LEMMA UnchangedSessions ==
    ASSUME SessionInv, UNCHANGED objectVars
    PROVE  OpenHasKey' /\ OneKey' /\ EntriesMade'
BY DEF SessionInv, OpenHasKey, OneKey, EntriesMade, objectVars

(* A call that deletes nothing.                                            *)
LEMMA PushSessions ==
    ASSUME TypeOK, SessionInv, NEW t \in Thread, NEW frame \in Frame,
           Push(t, frame), frame.at \notin {"removing", "freeing"},
           UNCHANGED objectVars, context' = "gone" <=> context = "gone"
    PROVE  SessionInv'
<1>1. EntriesLive'
  BY PushDoomed DEF SessionInv, EntriesLive, objectVars
<1>2. RemovingHolds' /\ RemovingOnce'
  BY PushHolds, PushOnce DEF SessionInv
<1>3. MapCleared'
  BY PushOn DEF SessionInv, MapCleared, Clears, objectVars
<1>4. RemovingAhead'
  <2> SUFFICES ASSUME NEW u \in Thread, NEW i \in 1..Len(stack'[u]),
                      stack'[u][i].at = "removing"
               PROVE  stack'[u][i].key > cursor
    BY DEF RemovingAhead, objectVars
  <2>1. PICK j \in 1..Len(stack[u]) : stack'[u][i] = stack[u][j]
    BY PushFrom
  <2> QED  BY <2>1 DEF SessionInv, LoopInv, RemovingAhead
<1>5. PastDeleted' /\ CursorHolds'
  BY PushOn DEF SessionInv, LoopInv, PastDeleted, CursorHolds, Clears,
                objectVars
<1> QED
  BY <1>1, <1>2, <1>3, <1>4, <1>5, UnchangedSessions DEF SessionInv, LoopInv

(* The return of one.                                                      *)
LEMMA PopSessions ==
    ASSUME TypeOK, SessionInv, NEW t \in Thread,
           NEW at \in {"event", "in", "pending", "freeing"}, At(t, at), Pop(t),
           UNCHANGED objectVars,
           context' = IF at = "freeing" THEN "gone" ELSE context
    PROVE  SessionInv'
<1>1. stack[t] # <<>> /\ Head(stack[t]).at = at
  BY DEF At
<1>2. \A k \in Key : Head(stack[t]) \notin {Removing(k), Plain("deleting")}
  BY <1>1, PlainFrames
<1>3. EntriesLive'
  BY <1>1, <1>2, PopDoomed DEF SessionInv, EntriesLive, objectVars
<1>4. RemovingHolds' /\ RemovingOnce'
  BY <1>1, PopHolds, PopOnce DEF SessionInv
<1>5. On(t, at)
  BY OnTop
<1>6. MapCleared'
  BY <1>1, <1>5, PopOn DEF SessionInv, MapCleared, Clears, objectVars
<1>7. RemovingAhead'
  <2> SUFFICES ASSUME NEW u \in Thread, NEW i \in 1..Len(stack'[u]),
                      stack'[u][i].at = "removing"
               PROVE  stack'[u][i].key > cursor
    BY DEF RemovingAhead, objectVars
  <2>1. PICK j \in 1..Len(stack[u]) : stack'[u][i] = stack[u][j]
    BY <1>1, PopFrom
  <2> QED  BY <2>1 DEF SessionInv, LoopInv, RemovingAhead
<1>8. CursorHolds'
  <2>1. ASSUME NEW u \in Thread, On(u, "deleting") PROVE On(u, "deleting")'
    <3>1. ~At(t, "deleting")
      BY DEF At
    <3> QED  BY <1>1, <2>1, <3>1, PopOn
  <2>2. ASSUME NEW u \in Thread, On(u, "freeing")
        PROVE  On(u, "freeing")' \/ context' = "gone"
    <3>1. at # "freeing" => ~At(t, "freeing")
      BY DEF At
    <3> QED  BY <1>1, <2>2, <3>1, PopOn
  <2>3. context = "gone" => context' = "gone"
    OBVIOUS
  <2> QED
    BY <2>1, <2>2, <2>3
    DEF SessionInv, LoopInv, CursorHolds, Clears, objectVars
<1>9. PastDeleted'
  BY DEF SessionInv, LoopInv, PastDeleted, objectVars
<1> QED
  BY <1>3, <1>4, <1>6, <1>7, <1>8, <1>9, UnchangedSessions
  DEF SessionInv, LoopInv

(* An outermost call that goes on has no frames over it that delete.       *)
LEMMA ContinueRemoving ==
    ASSUME TypeOK, Quiet, NEW t \in Thread,
           NEW from \in Outermost, NEW to \in Outermost,
           At(t, from), Plain(to) \in Frame, Continue(t, to)
    PROVE  /\ \A u \in Thread : \A i \in 1..Len(stack'[u]) :
                 stack'[u][i].at = "removing" =>
                    u # t /\ i \in 1..Len(stack[u])
                    /\ stack'[u][i] = stack[u][i]
           /\ RemovingOnce => RemovingOnce'
<1>0. InPlace
  BY DEF Quiet, CalmInv
<1>1. /\ \A at : On(t, at)' <=> at = to
      /\ stack[t] # <<>> /\ to # "removing"
  BY <1>0, ContinueAlone, OnTop DEF Outermost, Destructor
<1>2. \A u \in Thread \ {t} : stack'[u] = stack[u]
  BY <1>1, ContinueStack
<1>3. \A i \in 1..Len(stack'[t]) : stack'[t][i].at # "removing"
  BY <1>1 DEF On
<1>4. \A u \in Thread : \A i \in 1..Len(stack'[u]) :
         stack'[u][i].at = "removing" =>
            u # t /\ i \in 1..Len(stack[u]) /\ stack'[u][i] = stack[u][i]
  BY <1>2, <1>3
<1>5. ASSUME RemovingOnce PROVE RemovingOnce'
  BY <1>4, <1>5 DEF RemovingOnce
<1> QED
  BY <1>4, <1>5

(* A destructor's or ioProcess's next stage leaves the map alone.          *)
LEMMA ContinueSessions ==
    ASSUME TypeOK, Quiet, SessionInv, NEW t \in Thread,
           NEW from \in Outermost \ {"deleting", "freeing"},
           NEW to \in Outermost \ {"freeing"},
           At(t, from), Plain(to) \in Frame, Continue(t, to),
           UNCHANGED objectVars, UNCHANGED context
    PROVE  SessionInv'
<1>0. InPlace /\ stack[t] # <<>>
  BY OnTop DEF Quiet, CalmInv
<1>1. /\ \A other : On(t, other) => other = from
      /\ \A u \in Thread \ {t} : stack'[u] = stack[u]
      /\ \A u \in Thread \ {t} : \A at : On(u, at)' <=> On(u, at)
      /\ \A at : On(t, at)' <=> at = to
  BY <1>0, Alone, ContinueStack, ContinueAlone
<1>2. ASSUME NEW k \in Key, Doomed(k) PROVE Doomed(k)'
  <2>1. PICK u \in Thread : \E i \in 1..Len(stack[u]) : Dooms(stack[u][i], k)
    BY <1>2 DEF Doomed
  <2>2. u # t
    <3>1. On(u, "removing") \/ On(u, "deleting")
      BY <2>1, PlainFrames DEF On, Dooms, Stage
    <3> QED  BY <1>1, <3>1 DEF Outermost, Destructor
  <2> QED  BY <1>1, <2>1, <2>2 DEF Doomed, Dooms, objectVars
<1>3. EntriesLive'
  BY <1>2 DEF SessionInv, EntriesLive, objectVars
<1>4. RemovingHolds' /\ RemovingOnce'
  BY ContinueRemoving DEF SessionInv, RemovingHolds, objectVars
<1>5. MapCleared'
  BY <1>1 DEF SessionInv, MapCleared, Clears, objectVars
<1>6. RemovingAhead'
  BY ContinueRemoving DEF SessionInv, LoopInv, RemovingAhead, objectVars
<1>7. PastDeleted' /\ CursorHolds'
  BY <1>1 DEF SessionInv, LoopInv, PastDeleted, CursorHolds, Clears,
              objectVars
<1> QED
  BY <1>3, <1>4, <1>5, <1>6, <1>7, UnchangedSessions DEF SessionInv, LoopInv

(* The first half of removeSession: the entry's object was open.           *)
LEMMA DeletedWasOpen ==
    ASSUME TypeOK, Quiet, SessionInv, Disciplined, DeletesOnce,
           NEW t \in Thread, NEW k \in Key, Delete(t, k)
    PROVE  m_sessions[k] \in Session /\ sessionLife[m_sessions[k]] = "open"
<1>1. m_sessions[k] \in Session
  BY DEF Delete, TypeOK
<1> SUFFICES ASSUME sessionLife[m_sessions[k]] # "open"
             PROVE  FALSE
  BY <1>1
<1>2. Calls(t, "removeClosing")
  BY DEF Delete
<1>3. t \in IoThread /\ stack[t] = <<>> /\ context = "open"
  BY <1>2 DEF Calls, DeletesOnce
<1>4. \A u \in Thread : ~Destroys(u)
  BY <1>3 DEF Quiet, CalmInv, OneDestroys
<1>5. \A u \in Thread : stack[u] = <<>> /\ Len(stack[u]) = 0
  BY <1>3, <1>4, EmptySeq DEF Quiet, OutsideWhenClosing, Disciplined
<1>6. ~Doomed(k)
  BY <1>5 DEF Doomed
<1> QED
  BY <1>6 DEF SessionInv, EntriesLive, Delete

(* removeSession dooms one key, of an object that was open.                *)
LEMMA DeleteSessions ==
    ASSUME TypeOK, Quiet, SessionInv, Disciplined, DeletesOnce,
           NEW t \in Thread, NEW k \in Key, Delete(t, k)
    PROVE  SessionInv'
<1> DEFINE s == m_sessions[k]
<1>1. /\ s \in Session /\ sessionLife[s] = "open" /\ s # NoSession
      /\ sessionLife' = [sessionLife EXCEPT ![s] = "closing"]
      /\ sessionLife \in [Session -> {"none", "open", "closing", "deleted"}]
      /\ UNCHANGED <<m_sessions, context, cursor>>
      /\ Push(t, Removing(k)) /\ Removing(k) \in Frame
      /\ Removing(k).at = "removing" /\ Removing(k).key = k
      /\ m_sessions \in [Key -> Session \cup {NoSession}]
  BY DeletedWasOpen, PlainFrames, RemovingFrames
  DEF Delete, TypeOK, contextVars
<1>2. OpenHasKey' /\ OneKey' /\ EntriesMade'
  BY <1>1 DEF SessionInv, OpenHasKey, OneKey, EntriesMade
<1>3. EntriesLive'
  <2> SUFFICES ASSUME NEW l \in Key, m_sessions[l] # NoSession,
                      sessionLife'[m_sessions[l]] # "open"
               PROVE  Doomed(l)'
    BY <1>1 DEF EntriesLive
  <2>1. CASE l = k
    BY <1>1, <2>1, PushDoomed
  <2>2. CASE l # k
    <3>1. m_sessions[l] # s /\ m_sessions[l] \in Session
      BY <1>1, <2>2 DEF SessionInv, OneKey
    <3>2. sessionLife[m_sessions[l]] # "open"
      BY <1>1, <3>1
    <3>3. Doomed(l)
      BY <3>2 DEF SessionInv, EntriesLive
    <3> QED  BY <1>1, <3>3, PushDoomed
  <2> QED  BY <2>1, <2>2
<1>4. \A u \in Thread : \A i \in 1..Len(stack[u]) :
         stack[u][i] # Removing(k)
  BY <1>1 DEF SessionInv, RemovingHolds
<1>5. RemovingOnce'
  BY <1>1, <1>4, PushOnce DEF SessionInv
<1>6. RemovingHolds'
  <2> SUFFICES ASSUME NEW u \in Thread, NEW i \in 1..Len(stack'[u]),
                      stack'[u][i].at = "removing"
               PROVE  /\ m_sessions[stack'[u][i].key] # NoSession
                      /\ sessionLife'[m_sessions[stack'[u][i].key]] = "closing"
    BY <1>1 DEF RemovingHolds
  <2>1. CASE stack'[u][i] = Removing(k)
    BY <1>1, <2>1
  <2>2. CASE stack'[u][i] # Removing(k)
    <3>1. PICK j \in 1..Len(stack[u]) : stack'[u][i] = stack[u][j]
      BY <1>1, <2>2, PushFrom
    <3>2. /\ m_sessions[stack[u][j].key] # NoSession
          /\ sessionLife[m_sessions[stack[u][j].key]] = "closing"
          /\ stack[u][j].key \in Key
      BY <3>1, FrameType, RemovingFrames DEF SessionInv, RemovingHolds
    <3> QED  BY <1>1, <3>1, <3>2
  <2> QED  BY <2>1, <2>2
<1>7. MapCleared'
  <2>1. Clears' => Clears
    BY <1>1, PushOn DEF Clears
  <2> QED  BY <1>1, <2>1 DEF SessionInv, MapCleared
<1>8. k > cursor
  <2>1. k \in Nat /\ cursor \in Nat
    BY ConstantsAssumption DEF TypeOK
  <2>2. ~(k <= cursor)
    BY <1>1 DEF SessionInv, LoopInv, PastDeleted
  <2> QED  BY <2>1, <2>2
<1>9. RemovingAhead'
  <2> SUFFICES ASSUME NEW u \in Thread, NEW i \in 1..Len(stack'[u]),
                      stack'[u][i].at = "removing"
               PROVE  stack'[u][i].key > cursor
    BY <1>1 DEF RemovingAhead
  <2>1. CASE stack'[u][i] = Removing(k)
    BY <1>1, <1>8, <2>1
  <2>2. CASE stack'[u][i] # Removing(k)
    <3>1. PICK j \in 1..Len(stack[u]) : stack'[u][i] = stack[u][j]
      BY <1>1, <2>2, PushFrom
    <3> QED  BY <3>1 DEF SessionInv, LoopInv, RemovingAhead
  <2> QED  BY <2>1, <2>2
<1>10. PastDeleted'
  <2> SUFFICES ASSUME NEW l \in Key, m_sessions[l] # NoSession, l <= cursor
               PROVE  \/ sessionLife'[m_sessions[l]] = "deleted"
                      \/ l = cursor /\ sessionLife'[m_sessions[l]] = "closing"
    BY <1>1 DEF PastDeleted
  <2>1. \/ sessionLife[m_sessions[l]] = "deleted"
        \/ l = cursor /\ sessionLife[m_sessions[l]] = "closing"
    BY DEF SessionInv, LoopInv, PastDeleted
  <2>2. m_sessions[l] # s /\ m_sessions[l] \in Session
    BY <1>1, <2>1
  <2> QED  BY <1>1, <2>1, <2>2
<1>11. CursorHolds'
  BY <1>1, PushOn DEF SessionInv, LoopInv, CursorHolds, Clears
<1> QED
  BY <1>2, <1>3, <1>5, <1>6, <1>7, <1>9, <1>10, <1>11
  DEF SessionInv, LoopInv

(* The second half: the entry and its frame go together.                   *)
LEMMA RemovedSessions ==
    ASSUME TypeOK, Quiet, SessionInv, NEW t \in Thread, Removed(t)
    PROVE  SessionInv'
<1> DEFINE k == Head(stack[t]).key
           s == m_sessions[k]
<1>1. /\ k \in Key
      /\ stack[t] # <<>> /\ Pop(t)
      /\ sessionLife' = [sessionLife EXCEPT ![s] = "deleted"]
      /\ m_sessions' = [m_sessions EXCEPT ![k] = NoSession]
      /\ sessionLife \in [Session -> {"none", "open", "closing", "deleted"}]
      /\ m_sessions \in [Key -> Session \cup {NoSession}]
      /\ UNCHANGED <<context, cursor>>
      /\ At(t, "removing")
  BY RemovingFrame DEF Removed, TypeOK, At, contextVars
<1>2. /\ Len(stack[t]) \in Nat \ {0} /\ 1 \in 1..Len(stack[t])
      /\ Head(stack[t]) = stack[t][1]
  <2> DEFINE r == stack[t]
  <2>1. r \in Seq(Frame) /\ r # <<>>
    BY <1>1 DEF TypeOK
  <2> HIDE DEF r
  <2>2. Len(r) \in Nat \ {0} /\ Head(r) = r[1]
    BY <2>1, EmptySeq
  <2>3. 1 \in 1..Len(r)
    BY <2>2
  <2> QED  BY <2>2, <2>3 DEF r
<1>3. /\ Head(stack[t]) = Removing(k)
      /\ s # NoSession /\ s \in Session /\ sessionLife[s] = "closing"
  BY <1>1, <1>2, FrameType, RemovingFrames
  DEF At, SessionInv, RemovingHolds
<1> HIDE DEF k
<1>4. \A l \in Key \ {k} : m_sessions[l] # s
  BY <1>1, <1>3 DEF SessionInv, OneKey
<1>5. OpenHasKey' /\ OneKey' /\ EntriesMade'
  BY <1>1, <1>3, <1>4, ConstantsAssumption
  DEF SessionInv, OpenHasKey, OneKey, EntriesMade
<1>6. EntriesLive'
  <2> SUFFICES ASSUME NEW l \in Key, m_sessions'[l] # NoSession,
                      sessionLife'[m_sessions'[l]] # "open"
               PROVE  Doomed(l)'
    BY DEF EntriesLive
  <2>1. l # k /\ m_sessions'[l] = m_sessions[l]
    BY <1>1
  <2>2. sessionLife[m_sessions[l]] # "open" /\ m_sessions[l] # NoSession
    BY <1>1, <1>4, <2>1
  <2>3. Doomed(l)
    BY <2>2 DEF SessionInv, EntriesLive
  <2>4. Removing(k) \notin {Removing(l), Plain("deleting")}
    BY <1>1, <2>1, RemovingFrames, PlainFrames
  <2> QED  BY <1>1, <1>3, <2>3, <2>4, PopDoomed
<1>7. RemovingOnce'
  BY <1>1, PopOnce DEF SessionInv
<1>8. RemovingHolds'
  <2> SUFFICES ASSUME NEW u \in Thread, NEW i \in 1..Len(stack'[u]),
                      stack'[u][i].at = "removing"
               PROVE  /\ m_sessions'[stack'[u][i].key] # NoSession
                      /\ sessionLife'[m_sessions'[stack'[u][i].key]] = "closing"
    BY DEF RemovingHolds
  <2>1. PICK j \in 1..Len(stack[u]) :
            stack'[u][i] = stack[u][j] /\ j = IF u = t THEN i + 1 ELSE i
    BY <1>1, PopFrom
  <2>2. /\ stack[u][j].key \in Key /\ stack[u][j] = Removing(stack[u][j].key)
        /\ m_sessions[stack[u][j].key] # NoSession
        /\ sessionLife[m_sessions[stack[u][j].key]] = "closing"
    BY <2>1, FrameType, RemovingFrames DEF SessionInv, RemovingHolds
  <2>3. ~(u = t /\ j = 1)
    <3>1. i \in Nat \ {0}
      <4>1. Len(stack'[u]) \in Nat
        <5>1. stack'[u] \in Seq(Frame)
          BY <1>1, PopStack
        <5> QED  BY <5>1, LenProperties
      <4> QED  BY <4>1
    <3> QED  BY <2>1, <3>1
  <2>4. stack[u][j].key # k
    <3> SUFFICES ASSUME stack[u][j].key = k
                 PROVE  FALSE
      OBVIOUS
    <3>1. stack[u][j] = stack[t][1] /\ stack[t][1].at = "removing"
      BY <1>1, <1>2, <1>3, <2>2 DEF At
    <3>2. u = t /\ j = 1
      BY <1>2, <3>1 DEF SessionInv, RemovingOnce
    <3> QED  BY <2>3, <3>2
  <2>5. m_sessions'[stack[u][j].key] = m_sessions[stack[u][j].key]
        /\ m_sessions[stack[u][j].key] # s
    BY <1>1, <1>4, <2>2, <2>4
  <2> QED  BY <1>1, <2>1, <2>2, <2>5
<1>9. MapCleared'
  BY <1>1, PopOn DEF SessionInv, MapCleared, Clears
<1>10. k > cursor /\ k # cursor
  <2>1. k > cursor
    BY <1>1, <1>2, <1>3, RemovingFrames
    DEF At, SessionInv, LoopInv, RemovingAhead
  <2>2. k \in Nat /\ cursor \in Nat
    BY <1>1, ConstantsAssumption DEF TypeOK
  <2> QED  BY <2>1, <2>2
<1>11. RemovingAhead'
  <2> SUFFICES ASSUME NEW u \in Thread, NEW i \in 1..Len(stack'[u]),
                      stack'[u][i].at = "removing"
               PROVE  stack'[u][i].key > cursor
    BY <1>1 DEF RemovingAhead
  <2>1. PICK j \in 1..Len(stack[u]) : stack'[u][i] = stack[u][j]
    BY <1>1, PopFrom
  <2> QED  BY <2>1 DEF SessionInv, LoopInv, RemovingAhead
<1>12. PastDeleted'
  <2> SUFFICES ASSUME NEW l \in Key, m_sessions'[l] # NoSession, l <= cursor
               PROVE  \/ sessionLife'[m_sessions'[l]] = "deleted"
                      \/ /\ l = cursor
                         /\ sessionLife'[m_sessions'[l]] = "closing"
    BY <1>1 DEF PastDeleted
  <2>1. l # k /\ m_sessions'[l] = m_sessions[l] /\ m_sessions[l] # s
    BY <1>1, <1>4
  <2>2. \/ sessionLife[m_sessions[l]] = "deleted"
        \/ l = cursor /\ sessionLife[m_sessions[l]] = "closing"
    BY <2>1 DEF SessionInv, LoopInv, PastDeleted
  <2> QED  BY <1>1, <2>1, <2>2
<1>13. CursorHolds'
  <2>1. cursor # 0 => cursor \in Key
    BY DEF TypeOK
  <2>2. cursor # 0 => m_sessions'[cursor] = m_sessions[cursor]
    BY <1>1, <1>10, <2>1
  <2>3. \A u \in Thread : \A at \in {"deleting", "freeing"} :
            On(u, at) => On(u, at)'
    <3>1. \A at \in {"deleting", "freeing"} : ~At(t, at)
      BY <1>1 DEF At
    <3> QED  BY <1>1, <3>1, PopOn
  <2> QED
    BY <1>1, <2>2, <2>3 DEF SessionInv, LoopInv, CursorHolds, Clears
<1> QED
  BY <1>5, <1>6, <1>7, <1>8, <1>9, <1>11, <1>12, <1>13
  DEF SessionInv, LoopInv

(* A new object comes under a key that was free.                           *)
LEMMA AddSessions ==
    ASSUME TypeOK, Quiet, SessionInv, DeletesOnce,
           NEW t \in Thread, NEW k \in Key,
           NEW s \in Session, AddSession(t, k, s) \/ AddEndPoint(t, k, s)
    PROVE  SessionInv'
<1>1. /\ m_sessions[k] = NoSession /\ sessionLife[s] = "none"
      /\ s # NoSession
      /\ sessionLife' = [sessionLife EXCEPT ![s] = "open"]
      /\ m_sessions' = [m_sessions EXCEPT ![k] = s]
      /\ sessionLife \in [Session -> {"none", "open", "closing", "deleted"}]
      /\ m_sessions \in [Key -> Session \cup {NoSession}]
      /\ UNCHANGED <<stack, context, cursor>>
      /\ Calls(t, "add")
  BY ConstantsAssumption
  DEF AddSession, AddEndPoint, Create, TypeOK, contextVars
<1>2. \A l \in Key : m_sessions[l] # s
  BY <1>1 DEF SessionInv, EntriesMade
<1>3. OpenHasKey' /\ OneKey' /\ EntriesMade'
  <2>1. OpenHasKey'
    <3> SUFFICES ASSUME NEW r \in Session,
                        sessionLife'[r] \in {"open", "closing"}
                 PROVE  \E l \in Key : m_sessions'[l] = r
      BY DEF OpenHasKey
    <3>1. CASE r = s
      BY <1>1, <3>1
    <3>2. CASE r # s
      <4>1. PICK l \in Key : m_sessions[l] = r
        BY <1>1, <3>2 DEF SessionInv, OpenHasKey
      <4>2. l # k
        BY <1>1, <4>1, ConstantsAssumption
      <4> QED  BY <1>1, <4>1, <4>2
    <3> QED  BY <3>1, <3>2
  <2>2. OneKey'
    BY <1>1, <1>2 DEF SessionInv, OneKey
  <2>3. EntriesMade'
    BY <1>1, <1>2 DEF SessionInv, EntriesMade
  <2> QED  BY <2>1, <2>2, <2>3
<1>4. EntriesLive'
  BY <1>1, <1>2 DEF SessionInv, EntriesLive, Doomed, Dooms
<1>5. RemovingHolds' /\ RemovingOnce'
  <2>1. ASSUME NEW u \in Thread, NEW i \in 1..Len(stack[u]),
               stack[u][i].at = "removing"
        PROVE  /\ m_sessions'[stack[u][i].key] # NoSession
               /\ sessionLife'[m_sessions'[stack[u][i].key]] = "closing"
    <3>1. /\ stack[u][i].key \in Key
          /\ m_sessions[stack[u][i].key] # NoSession
          /\ sessionLife[m_sessions[stack[u][i].key]] = "closing"
      BY <2>1, FrameType, RemovingFrames DEF SessionInv, RemovingHolds
    <3>2. stack[u][i].key # k /\ m_sessions[stack[u][i].key] # s
      BY <1>1, <1>2, <3>1
    <3> QED  BY <1>1, <3>1, <3>2
  <2> QED  BY <1>1, <2>1 DEF SessionInv, RemovingHolds, RemovingOnce
<1>6. MapCleared' /\ LoopInv'
  <2>1. ~TornDown
    BY <1>1, CallsEarly DEF DeletesOnce
  <2>2. \A u \in Thread : On(u, "freeing")' <=> On(u, "freeing")
    BY <1>1 DEF On
  <2>3. cursor = 0
    BY <2>1, CursorEarly
  <2>4. MapCleared'
    BY <1>1, <2>1, <2>2 DEF MapCleared, Clears, TornDown
  <2>5. RemovingAhead'
    BY <1>1 DEF SessionInv, LoopInv, RemovingAhead
  <2>6. \A l \in Key : ~(l <= 0)
    BY ConstantsAssumption
  <2> QED
    BY <1>1, <2>3, <2>4, <2>5, <2>6 DEF LoopInv, PastDeleted, CursorHolds
<1> QED
  BY <1>3, <1>4, <1>5, <1>6 DEF SessionInv

(* The loop of the destructors is at an entry that is there, or at none.   *)
LEMMA LoopAt ==
    ASSUME TypeOK, Quiet, SessionInv, NEW t \in Thread, At(t, "deleting"),
           cursor # 0
    PROVE  cursor \in Key /\ m_sessions[cursor] \in Session
<1>1. Destroys(t) /\ On(t, "deleting")
  BY OnTop DEF Destroys, Destructor
<1>2. context # "gone" /\ \A u \in Thread \ {t} : ~On(u, "freeing")
  BY <1>1 DEF Quiet, CalmInv, OneDestroys, Destroys, Destructor
<1>3. ~On(t, "freeing")
  BY <1>1, Alone DEF Quiet, CalmInv, Outermost, Destructor
<1> QED
  BY <1>2, <1>3 DEF SessionInv, LoopInv, CursorHolds, Clears, TypeOK

(* The loop comes to the next object, which is open ...                    *)
LEMMA LoopSessions ==
    ASSUME TypeOK, Quiet, SessionInv, NEW t \in Thread, DeleteSession(t)
    PROVE  SessionInv'
<1>1. /\ At(t, "deleting") /\ On(t, "deleting") /\ ~Deletes
      /\ UNCHANGED <<stack, context, m_sessions>>
      /\ sessionLife \in [Session -> {"none", "open", "closing", "deleted"}]
      /\ m_sessions \in [Key -> Session \cup {NoSession}]
      /\ cursor \in Nat /\ Key \subseteq Nat
  BY OnTop, ConstantsAssumption DEF DeleteSession, contextVars, TypeOK
<1>2. PICK k \in Ahead :
          /\ \A l \in Ahead : k <= l
          /\ cursor' = k
          /\ sessionLife' = [sessionLife EXCEPT ![m_sessions[k]] = "closing"]
  BY DEF DeleteSession, Ahead
<1> DEFINE s == m_sessions[k]
<1>3. k \in Key /\ k > cursor /\ s # NoSession /\ s \in Session
  BY <1>1, <1>2 DEF Ahead
<1>4. \A u \in Thread : \A i \in 1..Len(stack[u]) :
          stack[u][i].at # "removing"
  BY <1>1, NoneRemoving
<1>5. \A l \in Key : l > cursor => ~Doomed(l)
  <2> SUFFICES ASSUME NEW l \in Key, l > cursor, NEW u \in Thread,
                      NEW i \in 1..Len(stack[u]), Dooms(stack[u][i], l)
               PROVE  FALSE
    BY DEF Doomed
  <2>1. stack[u][i] = Removing(l)
    BY <1>1 DEF Dooms
  <2> QED  BY <1>4, <2>1, PlainFrames
<1>6. sessionLife[s] = "open"
  BY <1>3, <1>5 DEF SessionInv, EntriesLive
<1>7. \A l \in Key \ {k} : m_sessions[l] # s
  BY <1>3 DEF SessionInv, OneKey
<1> HIDE DEF s
<1>8. sessionLife' = [sessionLife EXCEPT ![s] = "closing"]
  BY <1>2 DEF s
<1>9. OpenHasKey' /\ OneKey' /\ EntriesMade'
  BY <1>1, <1>3, <1>6, <1>8 DEF SessionInv, OpenHasKey, OneKey, EntriesMade
<1>10. EntriesLive'
  <2> SUFFICES ASSUME NEW l \in Key, m_sessions[l] # NoSession,
                      sessionLife'[m_sessions[l]] # "open"
               PROVE  Doomed(l)'
    BY <1>1 DEF EntriesLive
  <2>2. l <= k
    <3>1. CASE l = k
      BY <1>1, <3>1
    <3>2. CASE l # k
      <4>1. m_sessions[l] # s /\ m_sessions[l] \in Session
        BY <1>1, <1>7, <3>2
      <4>2. sessionLife[m_sessions[l]] # "open"
        BY <1>1, <1>8, <4>1
      <4>3. Doomed(l)
        BY <4>2 DEF SessionInv, EntriesLive
      <4>4. ~(l > cursor)
        BY <1>5, <4>3
      <4> QED  BY <1>1, <1>3, <4>4
    <3> QED  BY <3>1, <3>2
  <2>3. PICK i \in 1..Len(stack[t]) : stack[t][i].at = "deleting"
    BY <1>1 DEF On
  <2>4. stack'[t][i] = Plain("deleting")
    BY <1>1, <2>3, FrameType, RemovingFrames
  <2> QED  BY <1>1, <1>2, <2>2, <2>3, <2>4 DEF Doomed, Dooms
<1>11. RemovingHolds' /\ RemovingOnce' /\ RemovingAhead' /\ MapCleared'
  BY <1>1, <1>4
  DEF SessionInv, RemovingHolds, RemovingOnce, RemovingAhead, MapCleared,
      Clears, On
<1>12. PastDeleted'
  <2> SUFFICES ASSUME NEW l \in Key, m_sessions[l] # NoSession, l <= k
               PROVE  \/ sessionLife'[m_sessions[l]] = "deleted"
                      \/ l = k /\ sessionLife'[m_sessions[l]] = "closing"
    BY <1>1, <1>2 DEF PastDeleted
  <2>1. CASE l = k
    BY <1>1, <1>3, <1>8, <2>1 DEF s
  <2>2. CASE l # k
    <3>1. m_sessions[l] # s /\ m_sessions[l] \in Session
      BY <1>1, <1>7, <2>2
    <3>2. l <= cursor
      <4>1. l \notin Ahead
        BY <1>1, <1>2, <1>3, <2>2
      <4> QED  BY <1>1, <4>1 DEF Ahead
    <3>3. ~(l = cursor /\ sessionLife[m_sessions[l]] = "closing")
      BY <1>1, ConstantsAssumption DEF Deletes
    <3>4. sessionLife[m_sessions[l]] = "deleted"
      BY <3>2, <3>3 DEF SessionInv, LoopInv, PastDeleted
    <3> QED  BY <1>1, <1>8, <3>1, <3>4
  <2> QED  BY <2>1, <2>2
<1>13. CursorHolds'
  <2>1. On(t, "deleting")'
    BY <1>1 DEF On
  <2> QED  BY <1>1, <1>2, <1>3, <2>1 DEF CursorHolds, s
<1> QED
  BY <1>9, <1>10, <1>11, <1>12, <1>13 DEF SessionInv, LoopInv

(* ... and deletes it.                                                     *)
LEMMA DeletedSessions ==
    ASSUME TypeOK, Quiet, SessionInv, NEW t \in Thread, SessionDeleted(t)
    PROVE  SessionInv'
<1> DEFINE s == m_sessions[cursor]
<1>1. /\ At(t, "deleting") /\ On(t, "deleting") /\ cursor # 0
      /\ sessionLife[s] = "closing"
      /\ sessionLife' = [sessionLife EXCEPT ![s] = "deleted"]
      /\ UNCHANGED <<stack, context, m_sessions, cursor>>
      /\ sessionLife \in [Session -> {"none", "open", "closing", "deleted"}]
      /\ m_sessions \in [Key -> Session \cup {NoSession}]
      /\ cursor \in Nat
  BY OnTop, ConstantsAssumption
  DEF SessionDeleted, Deletes, contextVars, TypeOK
<1>2. cursor \in Key /\ s \in Session
  BY <1>1, LoopAt
<1>3. \A l \in Key \ {cursor} : m_sessions[l] # s
  BY <1>2, ConstantsAssumption DEF SessionInv, OneKey
<1> HIDE DEF s
<1>4. OpenHasKey' /\ OneKey' /\ EntriesMade'
  BY <1>1, <1>2 DEF SessionInv, OpenHasKey, OneKey, EntriesMade
<1>5. \A l \in Key : Doomed(l) => Doomed(l)'
  BY <1>1 DEF Doomed, Dooms
<1>6. EntriesLive'
  <2> SUFFICES ASSUME NEW l \in Key, m_sessions[l] # NoSession,
                      sessionLife'[m_sessions[l]] # "open"
               PROVE  Doomed(l)'
    BY <1>1 DEF EntriesLive
  <2>1. CASE l = cursor
    BY <1>1, <1>5, <2>1, DeletingDooms
  <2>2. CASE l # cursor
    <3>1. m_sessions[l] # s /\ m_sessions[l] \in Session
      BY <1>1, <1>3, <2>2
    <3>2. sessionLife[m_sessions[l]] # "open"
      BY <1>1, <3>1
    <3> QED  BY <1>5, <3>2 DEF SessionInv, EntriesLive
  <2> QED  BY <2>1, <2>2
<1>7. RemovingHolds' /\ RemovingOnce' /\ RemovingAhead' /\ MapCleared'
  <2>1. \A u \in Thread : \A i \in 1..Len(stack[u]) :
            stack[u][i].at # "removing"
    BY <1>1, NoneRemoving
  <2> QED
    BY <1>1, <2>1
    DEF SessionInv, RemovingHolds, RemovingOnce, RemovingAhead, MapCleared,
        Clears, On
<1>8. PastDeleted'
  BY <1>1, <1>2 DEF SessionInv, LoopInv, PastDeleted, s
<1>9. CursorHolds'
  BY <1>1 DEF SessionInv, LoopInv, CursorHolds, Clears, On
<1> QED
  BY <1>4, <1>6, <1>7, <1>8, <1>9 DEF SessionInv, LoopInv

(* The map is cleared when each entry's object is deleted.                 *)
LEMMA FreeSessions ==
    ASSUME TypeOK, Quiet, SessionInv, NEW t \in Thread, FreeContext(t)
    PROVE  SessionInv'
<1>1. /\ At(t, "deleting") /\ LoopOver /\ Continue(t, "freeing")
      /\ m_sessions' = [k \in Key |-> NoSession]
      /\ UNCHANGED <<sessionLife, context, cursor>>
      /\ On(t, "deleting")
  BY OnTop DEF FreeContext
<1>2. /\ Plain("freeing") \in Frame
      /\ "deleting" \in Outermost /\ "freeing" \in Outermost
  BY PlainFrames DEF Outermost, Destructor
<1>3. \A s \in Session : sessionLife[s] \notin {"open", "closing"}
  <2> SUFFICES ASSUME NEW s \in Session, sessionLife[s] \in {"open", "closing"}
               PROVE  FALSE
    OBVIOUS
  <2>1. PICK k \in Key : m_sessions[k] = s
    BY DEF SessionInv, OpenHasKey
  <2>2. k <= cursor
    <3>1. k \notin Ahead /\ m_sessions[k] # NoSession
      BY <1>1, <2>1, ConstantsAssumption DEF LoopOver
    <3>2. k \in Nat /\ cursor \in Nat
      BY ConstantsAssumption DEF TypeOK
    <3> QED  BY <3>1, <3>2 DEF Ahead
  <2>3. k = cursor /\ sessionLife[s] = "closing" /\ k # 0
    BY <2>1, <2>2, ConstantsAssumption DEF SessionInv, LoopInv, PastDeleted
  <2> QED
    BY <1>1, <2>1, <2>3 DEF LoopOver, Deletes
<1>4. OpenHasKey' /\ OneKey' /\ EntriesMade' /\ EntriesLive' /\ MapCleared'
      /\ PastDeleted'
  BY <1>1, <1>3
  DEF OpenHasKey, OneKey, EntriesMade, EntriesLive, MapCleared, PastDeleted
<1>5. \A u \in Thread : ~On(u, "removing")
  BY <1>1, NoneRemoving DEF On
<1>6. \A u \in Thread : \A i \in 1..Len(stack'[u]) :
         stack'[u][i].at # "removing"
  BY <1>1, <1>2, <1>5, ContinueRemoving DEF On
<1>7. RemovingHolds' /\ RemovingOnce' /\ RemovingAhead'
  BY <1>6 DEF RemovingHolds, RemovingOnce, RemovingAhead
<1>8. CursorHolds'
  <2>1. On(t, "freeing")'
    <3>1. InPlace
      BY DEF Quiet, CalmInv
    <3> QED  BY <1>1, <1>2, <3>1, ContinueAlone
  <2> QED  BY <2>1 DEF CursorHolds, Clears
<1> QED
  BY <1>4, <1>7, <1>8 DEF SessionInv, LoopInv

(* Every step keeps the map and the objects together.                      *)
LEMMA SessionStep ==
    ASSUME TypeOK, Quiet, SessionInv, Disciplined, DeletesOnce, [Next]_vars
    PROVE  SessionInv'
<1>1. ASSUME UNCHANGED <<stack, context>>, UNCHANGED objectVars
      PROVE  SessionInv'
  <2>1. EntriesLive' /\ RemovingHolds' /\ RemovingOnce' /\ MapCleared'
        /\ LoopInv'
    BY <1>1
    DEF SessionInv, EntriesLive, Doomed, Dooms, RemovingHolds, RemovingOnce,
        MapCleared, Clears, On, objectVars, LoopInv, RemovingAhead,
        PastDeleted, CursorHolds
  <2> QED  BY <1>1, <2>1, UnchangedSessions DEF SessionInv
<1>2. ASSUME NEW t \in Thread, Event(t)
      PROVE  SessionInv'
  <2>1. /\ OnEvent(m_eventHandling) \in Frame
        /\ OnEvent(m_eventHandling).at \notin {"removing", "freeing"}
        /\ Push(t, OnEvent(m_eventHandling))
        /\ UNCHANGED objectVars /\ UNCHANGED context
    BY <1>2, PlainFrames DEF Event, contextVars, TypeOK
  <2> QED  BY <2>1, PushSessions
<1>3. ASSUME NEW t \in Thread, IoProcess(t) \/ IsIoPending(t)
      PROVE  SessionInv'
  <2>1. PICK at \in {"checked", "pending"} : Push(t, Plain(at))
    BY <1>3 DEF IoProcess, IsIoPending
  <2>2. /\ Plain(at) \in Frame
        /\ Plain(at).at \notin {"removing", "freeing"}
        /\ UNCHANGED objectVars /\ UNCHANGED context
    BY <1>3, PlainFrames DEF IoProcess, IsIoPending, contextVars
  <2> QED  BY <2>1, <2>2, PushSessions
<1>4. ASSUME NEW t \in Thread, Destroy(t)
      PROVE  SessionInv'
  <2>1. /\ Plain("waiting") \in Frame
        /\ Plain("waiting").at \notin {"removing", "freeing"}
        /\ Push(t, Plain("waiting"))
        /\ UNCHANGED objectVars
        /\ context' = "closing" /\ context = "open"
    BY <1>4, PlainFrames DEF Destroy
  <2> QED  BY <2>1, PushSessions
<1>5. ASSUME NEW t \in Thread,
             EventReturns(t) \/ PendingReturns(t) \/ LeaveIo(t)
      PROVE  SessionInv'
  <2>1. PICK at \in {"event", "pending", "in"} : At(t, at)
    BY <1>5 DEF EventReturns, PendingReturns, LeaveIo
  <2>2. Pop(t) /\ UNCHANGED objectVars /\ UNCHANGED context
    BY <1>5 DEF EventReturns, PendingReturns, LeaveIo, contextVars
  <2> QED  BY <2>1, <2>2, PopSessions
<1>6. ASSUME NEW t \in Thread, ContextFreed(t)
      PROVE  SessionInv'
  <2>1. /\ At(t, "freeing") /\ context' = "gone" /\ Pop(t)
        /\ UNCHANGED objectVars
    BY <1>6, OnTop DEF ContextFreed
  <2> QED  BY <2>1, PopSessions
<1>7. /\ Plain("in") \in Frame
      /\ Plain("deleting") \in Frame
      /\ Plain("stopping") \in Frame
      /\ {"checked", "waiting", "stopping"}
             \subseteq Outermost \ {"deleting", "freeing"}
      /\ {"in", "stopping", "deleting"} \subseteq Outermost \ {"freeing"}
  BY PlainFrames DEF Outermost, Destructor
<1>8. ASSUME NEW t \in Thread, EnterIo(t)
      PROVE  SessionInv'
  BY <1>7, <1>8, ContinueSessions DEF EnterIo
<1>9. ASSUME NEW t \in Thread, WaitOver(t)
      PROVE  SessionInv'
  BY <1>7, <1>9, ContinueSessions DEF WaitOver, contextVars
<1>10. ASSUME NEW t \in Thread, DeleteResourceManager(t)
       PROVE  SessionInv'
  BY <1>7, <1>10, ContinueSessions DEF DeleteResourceManager, contextVars
<1>11. ASSUME NEW t \in Thread, StopPersist(t)
       PROVE  SessionInv'
  BY <1>7, <1>11, ContinueSessions DEF StopPersist, contextVars
<1>12. ASSUME NEW t \in Thread,
              \/ EnablePersist(t) \/ DisablePersist(t)
              \/ \E h \in Handler \cup {NoHandler} :
                    RegisterEventHandling(t, h)
       PROVE  SessionInv'
  BY <1>1, <1>12
  DEF EnablePersist, DisablePersist, RegisterEventHandling, contextVars
<1>13. CASE UNCHANGED vars
  BY <1>1, <1>13 DEF vars, contextVars
<1> QED
  BY <1>2, <1>3, <1>4, <1>5, <1>6, <1>8, <1>9, <1>10, <1>11, <1>12, <1>13,
     AddSessions, DeleteSessions, RemovedSessions, LoopSessions,
     DeletedSessions, FreeSessions
  DEF Next, Application, Library, ContextOperations,
      ContextClientOperations, ContextServerOperations, RemoveSession,
      RemoveEndPoint

(* The map and the objects are together throughout.                        *)
LEMMA SessionsAlways ==
    Disciplined /\ DeletesOnce => (Spec => []SessionInv)
<1> SUFFICES ASSUME Disciplined, DeletesOnce
             PROVE  Spec => []SessionInv
  OBVIOUS
<1>1. Init => SessionInv
  <2> SUFFICES ASSUME Init PROVE SessionInv
    OBVIOUS
  <2>1. \A t \in Thread : Len(stack[t]) = 0 /\ ~On(t, "freeing")
    BY EmptySeq, EmptyStack DEF Init
  <2>2. OpenHasKey /\ OneKey /\ EntriesLive /\ EntriesMade /\ MapCleared
        /\ PastDeleted /\ CursorHolds
    BY DEF Init, OpenHasKey, OneKey, EntriesLive, EntriesMade, MapCleared,
           PastDeleted, CursorHolds
  <2>3. RemovingHolds /\ RemovingOnce /\ RemovingAhead
    BY <2>1 DEF RemovingHolds, RemovingOnce, RemovingAhead
  <2> QED  BY <2>2, <2>3 DEF SessionInv, LoopInv
<1>2. TypeOK /\ Quiet /\ SessionInv /\ [Next]_vars => SessionInv'
  BY SessionStep
<1>3. QED
  BY <1>1, <1>2, TypeCorrect, QuietAlways, PTL DEF Spec

(* The map owns every open Session or endpoint under one key, and an entry *)
(* is one unless removeSession deletes it or the destructor's loop has     *)
(* come to it (ContextClient.cc:20-23, 71), however deep in callbacks the  *)
(* application adds others and removes them, in that loop too.             *)
THEOREM OneOwner ==
    Disciplined /\ DeletesOnce => (Spec => []SessionsOwned)
<1> SUFFICES ASSUME Disciplined, DeletesOnce
             PROVE  Spec => []SessionsOwned
  OBVIOUS
<1>1. SessionInv => SessionsOwned
  BY SessionsOwnedParts DEF SessionInv
<1>2. QED
  BY <1>1, SessionsAlways, PTL

------------------------------------------------------------------------------
(* Nothing is left.                                                        *)

(* The context owns one event handling at most, and none in the end.       *)
HandlersKnown ==
    /\ \A h \in Handler :
          handlerLife[h] = "registered" => h = m_eventHandling
    /\ context = "gone" => m_eventHandling = NoHandler

(* A handler that is alive stays the registered one.                       *)
LEMMA HandlersStep ==
    ASSUME TypeOK, Quiet, HandlersKnown, [Next]_vars
    PROVE  HandlersKnown'
<1>1. ASSUME UNCHANGED handlerVars, context' = "gone" => context = "gone"
      PROVE  HandlersKnown'
  BY <1>1 DEF HandlersKnown, handlerVars
<1>2. ASSUME NEW t \in Thread, ContextFreed(t)
      PROVE  HandlersKnown'
  BY <1>2 DEF ContextFreed, HandlersKnown, HandlerDeleted
<1>3. ASSUME NEW t \in Thread, NEW h \in Handler \cup {NoHandler},
             RegisterEventHandling(t, h)
      PROVE  HandlersKnown'
  <2>1. context' # "gone"
    BY <1>3, CallsBeforeGone DEF RegisterEventHandling, contextVars
  <2> QED
    BY <1>3, <2>1
    DEF RegisterEventHandling, HandlersKnown, HandlerDeleted, TypeOK
<1>4. ASSUME NEW t \in Thread,
             \/ \E k \in Key, s \in Session :
                   AddSession(t, k, s) \/ AddEndPoint(t, k, s)
             \/ \E k \in Key : Delete(t, k)
             \/ Removed(t) \/ EnablePersist(t) \/ DisablePersist(t)
             \/ Event(t) \/ EventReturns(t) \/ IoProcess(t)
             \/ IsIoPending(t) \/ PendingReturns(t)
             \/ WaitOver(t) \/ DeleteResourceManager(t) \/ StopPersist(t)
             \/ DeleteSession(t) \/ SessionDeleted(t)
      PROVE  HandlersKnown'
  <2>1. UNCHANGED handlerVars /\ UNCHANGED context
    BY <1>4
    DEF AddSession, AddEndPoint, Delete, Removed, EnablePersist,
        DisablePersist, Event, EventReturns, IoProcess, WaitOver,
        IsIoPending, PendingReturns, DeleteResourceManager, StopPersist,
        DeleteSession, SessionDeleted, contextVars
  <2> QED  BY <1>1, <2>1
<1>5. ASSUME NEW t \in Thread,
             EnterIo(t) \/ LeaveIo(t) \/ Destroy(t) \/ FreeContext(t)
      PROVE  HandlersKnown'
  <2>1. UNCHANGED handlerVars /\ (context' = "gone" => context = "gone")
    BY <1>5 DEF EnterIo, LeaveIo, Destroy, FreeContext
  <2> QED  BY <1>1, <2>1
<1>6. CASE UNCHANGED vars
  BY <1>1, <1>6 DEF vars, contextVars
<1> QED
  BY <1>2, <1>3, <1>4, <1>5, <1>6
  DEF Next, Application, Library, ContextOperations,
      ContextClientOperations, ContextServerOperations, RemoveSession,
      RemoveEndPoint

(* When the destructors are through, the sessions and endpoints are        *)
(* deleted, those that callbacks removed from the loop with them, and so   *)
(* is the event handling (ContextClient.cc:16-24, Context.cc:84-96).       *)
THEOREM NothingLeft ==
    Disciplined /\ DeletesOnce => (Spec => []AllReleased)
<1> SUFFICES ASSUME Disciplined, DeletesOnce
             PROVE  Spec => []AllReleased
  OBVIOUS
<1>1. Init => HandlersKnown
  BY DEF Init, HandlersKnown
<1>2. TypeOK /\ Quiet /\ HandlersKnown /\ [Next]_vars => HandlersKnown'
  BY HandlersStep
<1>3. TypeOK /\ SessionInv /\ HandlersKnown => AllReleased
  <2> SUFFICES ASSUME TypeOK, SessionInv, HandlersKnown, context = "gone"
               PROVE  /\ \A s \in Session :
                            sessionLife[s] \in {"none", "deleted"}
                      /\ \A h \in Handler : handlerLife[h] # "registered"
    BY DEF AllReleased
  <2>1. \A s \in Session : sessionLife[s] \notin {"open", "closing"}
    BY ConstantsAssumption DEF SessionInv, OpenHasKey, MapCleared, Clears
  <2> QED
    BY <2>1, ConstantsAssumption DEF TypeOK, HandlersKnown
<1>4. QED
  BY <1>1, <1>2, <1>3, TypeCorrect, QuietAlways, SessionsAlways, PTL DEF Spec
==============================================================================
