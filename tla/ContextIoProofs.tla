--------------------------- MODULE ContextIoProofs ---------------------------
(***************************************************************************)
(* Theorems about ContextIo, for any threads, sessions or endpoints, event *)
(* handlings and depth of calls: types, that the destructor frees nothing  *)
(* that coap_io_process uses, that coap_free_context is quiet, and that an *)
(* event handling outlives the calls of its functions.                     *)
(***************************************************************************)
EXTENDS ContextIo, SequenceTheorems, TLAPS

(* How an application has to use a context: one thread calls it, another   *)
(* destroys it at most while the first is outside the library or in        *)
(* coap_io_process, and callbacks neither process I/O nor destroy it,      *)
(* but for isioPending outside the destructor's loop.  Without one of the  *)
(* first two, or with isioPending for coap_io_process, the code fails.     *)
Disciplined ==
    /\ \A t, u \in IoThread : t = u
    /\ DestroyDuring \subseteq {"in"}
    /\ {"ioProcess", "destroy"} \cap (CallbackOps \cup LateOps) = {}
    /\ "ioPending" \notin LateOps

------------------------------------------------------------------------------
(* Stacks.                                                                 *)

(* A call is the new top, over the frames that were there.                 *)
LEMMA PushStack ==
    ASSUME TypeOK, NEW t \in Thread, NEW frame \in Frame, Push(t, frame)
    PROVE  /\ stack' \in [Thread -> Seq(Frame)]
           /\ \A u \in Thread \ {t} : stack'[u] = stack[u]
           /\ Len(stack'[t]) = Len(stack[t]) + 1
           /\ stack'[t][1] = frame
           /\ \A i \in 1..Len(stack[t]) : stack'[t][i + 1] = stack[t][i]
<1> DEFINE s == stack[t]
<1>1. s \in Seq(Frame) /\ <<frame>> \in Seq(Frame) /\ Len(<<frame>>) = 1
      /\ <<frame>>[1] = frame
  BY DEF TypeOK
<1>2. /\ <<frame>> \o s \in Seq(Frame)
      /\ Len(<<frame>> \o s) = 1 + Len(s)
      /\ \A i \in 1..(1 + Len(s)) :
            (<<frame>> \o s)[i] = IF i <= 1 THEN <<frame>>[i] ELSE s[i - 1]
  <2> HIDE DEF s
  <2> QED  BY <1>1, ConcatProperties
<1>3. /\ stack' = [stack EXCEPT ![t] = <<frame>> \o s]
      /\ stack \in [Thread -> Seq(Frame)]
  BY DEF Push, TypeOK
<1>4. stack'[t] = <<frame>> \o s
  BY <1>3
<1>5. Len(s) \in Nat
  BY <1>1, LenProperties
<1>6. \A i \in 1..Len(s) : (<<frame>> \o s)[i + 1] = s[i]
  BY <1>2, <1>5
<1>7. (<<frame>> \o s)[1] = frame
  BY <1>1, <1>2, <1>5
<1> HIDE DEF s
<1>8. Len(stack'[t]) = Len(s) + 1
  BY <1>2, <1>4, <1>5
<1>9. /\ stack' \in [Thread -> Seq(Frame)]
      /\ \A u \in Thread \ {t} : stack'[u] = stack[u]
  BY <1>2, <1>3
<1>10. QED
  BY <1>4, <1>6, <1>7, <1>8, <1>9 DEF s

(* A return leaves the frames below the top.                               *)
LEMMA PopStack ==
    ASSUME TypeOK, NEW t \in Thread, stack[t] # <<>>, Pop(t)
    PROVE  /\ stack' \in [Thread -> Seq(Frame)]
           /\ \A u \in Thread \ {t} : stack'[u] = stack[u]
           /\ Len(stack'[t]) = Len(stack[t]) - 1
           /\ \A i \in 1..(Len(stack[t]) - 1) : stack'[t][i] = stack[t][i + 1]
           /\ Head(stack[t]) = stack[t][1]
<1> DEFINE s == stack[t]
<1>1. s \in Seq(Frame) /\ s # <<>>
  BY DEF TypeOK
<1>2. /\ Tail(s) \in Seq(Frame)
      /\ Len(Tail(s)) = Len(s) - 1
      /\ \A i \in 1..Len(Tail(s)) : Tail(s)[i] = s[i + 1]
  <2> HIDE DEF s
  <2> QED  BY <1>1, HeadTailProperties
<1>3. stack' = [stack EXCEPT ![t] = Tail(s)] /\ stack \in [Thread -> Seq(Frame)]
  BY DEF Pop, TypeOK
<1>4. Head(s) = s[1]
  BY <1>1
<1> QED
  BY <1>2, <1>3, <1>4

(* A function that goes on changes the top only.                           *)
LEMMA ContinueStack ==
    ASSUME TypeOK, NEW t \in Thread, stack[t] # <<>>,
           NEW at, Plain(at) \in Frame, Continue(t, at)
    PROVE  /\ stack' \in [Thread -> Seq(Frame)]
           /\ \A u \in Thread \ {t} : stack'[u] = stack[u]
           /\ Len(stack'[t]) = Len(stack[t])
           /\ stack'[t][1] = Plain(at)
           /\ \A i \in 2..Len(stack[t]) : stack'[t][i] = stack[t][i]
<1> DEFINE s == stack[t]
           f == Plain(at)
<1>1. s \in Seq(Frame) /\ s # <<>>
  BY DEF TypeOK
<1>2. /\ Tail(s) \in Seq(Frame)
      /\ Len(Tail(s)) = Len(s) - 1
      /\ \A i \in 1..Len(Tail(s)) : Tail(s)[i] = s[i + 1]
  <2> HIDE DEF s
  <2> QED  BY <1>1, HeadTailProperties
<1>3. <<f>> \in Seq(Frame) /\ Len(<<f>>) = 1 /\ <<f>>[1] = f
  <2> HIDE DEF f
  <2>1. f \in Frame
    BY DEF f
  <2> QED  BY <2>1
<1>4. /\ <<f>> \o Tail(s) \in Seq(Frame)
      /\ Len(<<f>> \o Tail(s)) = 1 + Len(Tail(s))
      /\ \A i \in 1..(1 + Len(Tail(s))) :
            (<<f>> \o Tail(s))[i] =
                IF i <= 1 THEN <<f>>[i] ELSE Tail(s)[i - 1]
  <2> HIDE DEF s, f
  <2> QED  BY <1>2, <1>3, ConcatProperties
<1>5. Len(s) \in Nat \ {0}
  <2> HIDE DEF s
  <2> QED  BY <1>1, EmptySeq
<1>6. /\ stack' = [stack EXCEPT ![t] = <<f>> \o Tail(s)]
      /\ stack \in [Thread -> Seq(Frame)]
  BY DEF Continue, TypeOK
<1> HIDE DEF s, f
<1>7. Len(<<f>> \o Tail(s)) = Len(s) /\ (<<f>> \o Tail(s))[1] = f
  BY <1>2, <1>3, <1>4, <1>5
<1>8. \A i \in 2..Len(s) : (<<f>> \o Tail(s))[i] = s[i]
  <2> SUFFICES ASSUME NEW i \in 2..Len(s)
               PROVE  (<<f>> \o Tail(s))[i] = s[i]
    OBVIOUS
  <2>1. i - 1 \in 1..Len(Tail(s)) /\ i \in 1..(1 + Len(Tail(s))) /\ ~(i <= 1)
    BY <1>2, <1>5
  <2>2. Tail(s)[i - 1] = s[(i - 1) + 1]
    BY <1>2, <2>1
  <2>3. (i - 1) + 1 = i
    BY <1>5
  <2> QED  BY <1>4, <2>1, <2>2, <2>3
<1>9. /\ stack' \in [Thread -> Seq(Frame)]
      /\ \A u \in Thread \ {t} : stack'[u] = stack[u]
      /\ stack'[t] = <<f>> \o Tail(s)
  BY <1>4, <1>6
<1> QED
  BY <1>7, <1>8, <1>9 DEF s, f

(* What is on a stack after a call, a return, or a step of a function.     *)
LEMMA PushOn ==
    ASSUME TypeOK, NEW t \in Thread, NEW frame \in Frame, Push(t, frame),
           NEW u \in Thread, NEW at
    PROVE  On(u, at)' <=> (u = t /\ frame.at = at) \/ On(u, at)
<1>1. CASE u # t
  BY <1>1, PushStack DEF On
<1>2. CASE u = t
  <2>1. Len(stack[t]) \in Nat
    BY LenProperties DEF TypeOK
  <2>2. ASSUME On(t, at) PROVE On(t, at)'
    <3>1. PICK i \in 1..Len(stack[t]) : stack[t][i].at = at
      BY <2>2 DEF On
    <3>2. i + 1 \in 1..Len(stack'[t]) /\ stack'[t][i + 1].at = at
      BY <2>1, <3>1, PushStack
    <3> QED  BY <3>2 DEF On
  <2>3. ASSUME frame.at = at PROVE On(t, at)'
    <3>1. 1 \in 1..Len(stack'[t]) /\ stack'[t][1].at = at
      BY <2>1, <2>3, PushStack
    <3> QED  BY <3>1 DEF On
  <2>4. ASSUME On(t, at)', frame.at # at PROVE On(t, at)
    <3>1. PICK i \in 1..Len(stack'[t]) : stack'[t][i].at = at
      BY <2>4 DEF On
    <3>2. i # 1 /\ i \in 1..(Len(stack[t]) + 1)
      BY <2>4, <3>1, PushStack
    <3>3. i - 1 \in 1..Len(stack[t]) /\ (i - 1) + 1 = i
      BY <2>1, <3>2
    <3>4. stack'[t][(i - 1) + 1] = stack[t][i - 1]
      BY <3>3, PushStack
    <3>5. stack[t][i - 1].at = at
      BY <3>1, <3>3, <3>4
    <3> QED  BY <3>3, <3>5 DEF On
  <2> QED  BY <1>2, <2>2, <2>3, <2>4
<1> QED
  BY <1>1, <1>2

(* A call that returns is the only one that goes from the stacks.          *)
LEMMA PopOn ==
    ASSUME TypeOK, NEW t \in Thread, stack[t] # <<>>, Pop(t),
           NEW u \in Thread, NEW at
    PROVE  /\ On(u, at)' => On(u, at)
           /\ On(u, at) => On(u, at)' \/ (u = t /\ At(t, at))
<1>1. CASE u # t
  BY <1>1, PopStack DEF On
<1>2. CASE u = t
  <2>1. Len(stack[t]) \in Nat
    BY LenProperties DEF TypeOK
  <2>2. ASSUME On(t, at)' PROVE On(t, at)
    <3>1. PICK i \in 1..Len(stack'[t]) : stack'[t][i].at = at
      BY <2>2 DEF On
    <3>2. i \in 1..(Len(stack[t]) - 1) /\ i + 1 \in 1..Len(stack[t])
      BY <2>1, <3>1, PopStack
    <3>3. stack[t][i + 1].at = at
      BY <3>1, <3>2, PopStack
    <3> QED  BY <3>2, <3>3 DEF On
  <2>3. ASSUME On(t, at), ~At(t, at) PROVE On(t, at)'
    <3>1. PICK i \in 1..Len(stack[t]) : stack[t][i].at = at
      BY <2>3 DEF On
    <3>2. i # 1
      BY <2>3, <3>1, PopStack DEF At
    <3>3. /\ i - 1 \in 1..(Len(stack[t]) - 1)
          /\ (i - 1) + 1 = i
          /\ i - 1 \in 1..Len(stack'[t])
      BY <2>1, <3>1, <3>2, PopStack
    <3>4. stack'[t][i - 1].at = at
      BY <3>1, <3>3, PopStack
    <3> QED  BY <3>3, <3>4 DEF On
  <2> QED  BY <1>2, <2>2, <2>3
<1> QED
  BY <1>1, <1>2

(* A call that goes on is found where it goes.                             *)
LEMMA ContinueOn ==
    ASSUME TypeOK, NEW t \in Thread, stack[t] # <<>>,
           NEW to, Plain(to) \in Frame, Continue(t, to),
           NEW u \in Thread, NEW at
    PROVE  /\ On(u, at)' => On(u, at) \/ (u = t /\ at = to)
           /\ On(u, at) => On(u, at)' \/ (u = t /\ At(t, at))
<1>1. CASE u # t
  BY <1>1, ContinueStack DEF On
<1>2. CASE u = t
  <2>1. Len(stack[t]) \in Nat
    BY LenProperties DEF TypeOK
  <2>2. ASSUME On(t, at)', at # to PROVE On(t, at)
    <3>1. PICK i \in 1..Len(stack[t]) : stack'[t][i].at = at
      BY <2>2, ContinueStack DEF On
    <3>2. i # 1
      BY <2>2, <3>1, ContinueStack DEF Plain
    <3>3. i \in 2..Len(stack[t])
      BY <2>1, <3>1, <3>2
    <3>4. stack[t][i].at = at
      BY <3>1, <3>3, ContinueStack
    <3> QED  BY <3>1, <3>4 DEF On
  <2>3. ASSUME On(t, at), ~At(t, at) PROVE On(t, at)'
    <3>1. PICK i \in 1..Len(stack[t]) : stack[t][i].at = at
      BY <2>3 DEF On
    <3>2. i # 1
      <4>1. Head(stack[t]) = stack[t][1]
        BY DEF TypeOK
      <4> QED  BY <2>3, <3>1, <4>1 DEF At
    <3>3. i \in 2..Len(stack[t])
      BY <2>1, <3>1, <3>2
    <3>4. i \in 1..Len(stack'[t]) /\ stack'[t][i].at = at
      BY <3>1, <3>3, ContinueStack
    <3> QED  BY <3>4 DEF On
  <2> QED  BY <1>2, <2>2, <2>3
<1> QED
  BY <1>1, <1>2

------------------------------------------------------------------------------
(* Types.                                                                  *)

(* The frames the actions push are frames.                                 *)
LEMMA PlainFrames ==
    /\ \A at \in Stage : Plain(at) \in Frame /\ Plain(at).at = at
    /\ Stage = {"checked", "in", "pending", "waiting", "stopping", "deleting",
                "freeing"}
    /\ \A k \in Key : Removing(k) \in Frame /\ Removing(k).at = "removing"
    /\ \A h \in Handler : OnEvent(h) \in Frame /\ OnEvent(h).at = "event"
BY DEF Plain, Removing, OnEvent, Frame, Stage

(* A frame that is at "removing" is that of removeSession or               *)
(* removeEndPoint: it has a key.                                           *)
LEMMA RemovingFrame ==
    ASSUME TypeOK, NEW t \in Thread, At(t, "removing")
    PROVE  Head(stack[t]).key \in Key
<1>1. Head(stack[t]) \in Frame
  BY HeadTailProperties DEF TypeOK, At
<1> QED
  BY <1>1 DEF At, Frame, Stage, Plain, Removing, OnEvent

(* Every call's arguments and every step keep the variables in their       *)
(* types: removeSession erases a key it found, and the functions of the    *)
(* application run on frames of their own.                                 *)
THEOREM TypeCorrect == Spec => []TypeOK
<1>1. Init => TypeOK
  <2> SUFFICES ASSUME Init PROVE TypeOK
    OBVIOUS
  <2>1. <<>> \in Seq(Frame)
    BY EmptySeq
  <2>2. m_resourceManager \in BOOLEAN
    BY DEF Init
  <2> QED
    BY <2>1, <2>2, ConstantsAssumption DEF Init, TypeOK
<1>2. TypeOK /\ [Next]_vars => TypeOK'
  <2> SUFFICES ASSUME TypeOK, [Next]_vars PROVE TypeOK'
    OBVIOUS
  <2> USE ConstantsAssumption
  <2>1. ASSUME NEW t \in Thread, NEW k \in Key, NEW s \in Session,
               AddSession(t, k, s) \/ AddEndPoint(t, k, s)
        PROVE  TypeOK'
    <3>1. /\ sessionLife' = [sessionLife EXCEPT ![s] = "open"]
          /\ m_sessions' = [m_sessions EXCEPT ![k] = s]
          /\ UNCHANGED <<kind, cursor, handlerVars, serverVars, contextVars,
                         stack>>
      BY <2>1 DEF AddSession, AddEndPoint, Create
    <3>2. QED
      BY <3>1 DEF TypeOK, handlerVars, serverVars, contextVars
  <2>2. ASSUME NEW t \in Thread, NEW k \in Key, Delete(t, k)
        PROVE  TypeOK'
    <3>1. stack' \in [Thread -> Seq(Frame)]
      BY <2>2, PushStack, PlainFrames DEF Delete
    <3>2. m_sessions[k] \in Session
      BY <2>2 DEF Delete, TypeOK
    <3> QED
      BY <2>2, <3>1, <3>2
      DEF TypeOK, Delete, handlerVars, serverVars, contextVars
  <2>3. ASSUME NEW t \in Thread,
               EnablePersist(t) \/ DisablePersist(t)
        PROVE  TypeOK'
    BY <2>3 DEF TypeOK, EnablePersist, DisablePersist, objectVars,
                handlerVars, contextVars
  <2>4. ASSUME NEW t \in Thread, NEW h \in Handler \cup {NoHandler},
               RegisterEventHandling(t, h)
        PROVE  TypeOK'
    BY <2>4 DEF TypeOK, RegisterEventHandling, HandlerDeleted, objectVars,
                serverVars, contextVars
  <2>5. ASSUME NEW t \in Thread, IoProcess(t) \/ IsIoPending(t)
        PROVE  TypeOK'
    <3>1. stack' \in [Thread -> Seq(Frame)]
      BY <2>5, PushStack, PlainFrames DEF IoProcess, IsIoPending
    <3> QED
      BY <2>5, <3>1 DEF TypeOK, IoProcess, IsIoPending, objectVars,
                        handlerVars, serverVars, contextVars
  <2>6. ASSUME NEW t \in Thread, Destroy(t)
        PROVE  TypeOK'
    <3>1. stack' \in [Thread -> Seq(Frame)]
      BY <2>6, PushStack, PlainFrames DEF Destroy
    <3> QED
      BY <2>6, <3>1 DEF TypeOK, Destroy, objectVars, handlerVars, serverVars
  <2>7. ASSUME NEW t \in Thread,
               EventReturns(t) \/ PendingReturns(t) \/ Removed(t)
        PROVE  TypeOK'
    <3>1. stack' \in [Thread -> Seq(Frame)]
      BY <2>7, PopStack DEF EventReturns, PendingReturns, Removed, At
    <3>2. CASE EventReturns(t) \/ PendingReturns(t)
      BY <3>1, <3>2 DEF TypeOK, EventReturns, PendingReturns, objectVars,
                        handlerVars, serverVars, contextVars
    <3>3. CASE Removed(t)
      BY <3>1, <3>3, RemovingFrame
      DEF TypeOK, Removed, handlerVars, serverVars, contextVars
    <3> QED  BY <2>7, <3>2, <3>3
  <2>8. ASSUME NEW t \in Thread, Event(t)
        PROVE  TypeOK'
    <3>1. OnEvent(m_eventHandling) \in Frame
      BY <2>8, PlainFrames DEF Event, TypeOK
    <3>2. stack' \in [Thread -> Seq(Frame)]
      BY <2>8, <3>1, PushStack DEF Event
    <3> QED
      BY <2>8, <3>2 DEF TypeOK, Event, objectVars, handlerVars, serverVars,
                        contextVars
  <2>9. ASSUME NEW t \in Thread, EnterIo(t) \/ WaitOver(t)
                   \/ DeleteResourceManager(t) \/ StopPersist(t)
                   \/ FreeContext(t)
        PROVE  TypeOK'
    <3>1. stack' \in [Thread -> Seq(Frame)]
      BY <2>9, ContinueStack, PlainFrames
      DEF EnterIo, WaitOver, DeleteResourceManager, StopPersist, FreeContext, At
    <3> QED
      BY <2>9, <3>1
      DEF TypeOK, EnterIo, WaitOver, DeleteResourceManager, StopPersist,
          FreeContext, objectVars, handlerVars, serverVars, contextVars
  <2>10. ASSUME NEW t \in Thread, LeaveIo(t) \/ ContextFreed(t)
         PROVE  TypeOK'
    <3>1. stack' \in [Thread -> Seq(Frame)]
      BY <2>10, PopStack DEF LeaveIo, ContextFreed, At
    <3> QED
      BY <2>10, <3>1 DEF TypeOK, LeaveIo, ContextFreed, HandlerDeleted,
                         objectVars, handlerVars, serverVars
  <2>11. ASSUME NEW t \in Thread, DeleteSession(t) \/ SessionDeleted(t)
         PROVE  TypeOK'
    BY <2>11 DEF TypeOK, DeleteSession, SessionDeleted, Ahead, Deletes,
                 handlerVars, serverVars, contextVars
  <2>12. CASE UNCHANGED vars
    BY <2>12 DEF TypeOK, vars, objectVars, handlerVars, serverVars, contextVars
  <2> QED
    BY <2>1, <2>2, <2>3, <2>4, <2>5, <2>6, <2>7, <2>8, <2>9, <2>10, <2>11,
       <2>12
    DEF Next, Application, Library, ContextOperations,
        ContextClientOperations, ContextServerOperations, RemoveSession,
        RemoveEndPoint
<1> QED
  BY <1>1, <1>2, PTL DEF Spec

------------------------------------------------------------------------------
(* Nothing is destroyed in use.                                            *)

Destructor == {"waiting", "stopping", "deleting", "freeing"}

(* The calls that only start on an empty stack.                            *)
Outermost == {"checked", "in"} \cup Destructor

InPlace ==
    \A t \in Thread : \A i \in 1..Len(stack[t]) :
        stack[t][i].at \in Outermost => i = Len(stack[t])

Destroys(t) == \E at \in Destructor : On(t, at)

OneDestroys ==
    \A t \in Thread : Destroys(t) =>
        /\ context = "closing"
        /\ \A u \in Thread : Destroys(u) => t = u

(* Whoever is in ioProcess is the IO thread; it looked at isReady() before *)
(* the destructor began, and the flag is up once it is in coap_io_process. *)
IoIsBusy ==
    \A t \in Thread :
        /\ On(t, "checked") \/ On(t, "in") => t \in IoThread
        /\ On(t, "checked") => context = "open"
        /\ On(t, "in") => m_isBusy

IoUndisturbed == TornDown => \A t \in Thread : ~On(t, "in")

FreeingIsQuiet ==
    \A t \in Thread : On(t, "freeing") => ~app_data /\ At(t, "freeing")

CalmInv ==
    /\ InPlace
    /\ OneDestroys
    /\ IoIsBusy
    /\ IoUndisturbed
    /\ FreeingIsQuiet

(* A thread outside the library is in no call of it.                       *)
LEMMA EmptyStack ==
    ASSUME NEW t \in Thread, stack[t] = <<>>, NEW at
    PROVE  ~On(t, at)
BY EmptySeq DEF On

(* What a thread does now is on its stack.                                 *)
LEMMA OnTop ==
    ASSUME TypeOK, NEW t \in Thread, NEW at, At(t, at)
    PROVE  On(t, at) /\ stack[t] # <<>> /\ stack[t][1].at = at
<1>1. Head(stack[t]) = stack[t][1] /\ stack[t] # <<>>
  BY DEF At, TypeOK
<1>2. 1 \in 1..Len(stack[t])
  BY <1>1, EmptySeq DEF TypeOK
<1> QED
  BY <1>1, <1>2 DEF At, On

(* An outermost call on top of the stack is all there is.                  *)
LEMMA Alone ==
    ASSUME TypeOK, InPlace, NEW t \in Thread, NEW at \in Outermost, At(t, at)
    PROVE  Len(stack[t]) = 1 /\ \A other : On(t, other) => other = at
<1>1. stack[t] # <<>> /\ stack[t][1].at = at
  BY OnTop
<1>2. Len(stack[t]) \in Nat \ {0}
  BY <1>1, EmptySeq DEF TypeOK
<1>3. 1 \in 1..Len(stack[t])
  BY <1>2
<1>4. Len(stack[t]) = 1
  BY <1>1, <1>3 DEF InPlace
<1> QED
  BY <1>1, <1>4 DEF On

(* Frames stay in their places.                                            *)
LEMMA PushInPlace ==
    ASSUME TypeOK, InPlace, NEW t \in Thread, NEW frame \in Frame,
           Push(t, frame),
           frame.at \in Outermost => stack[t] = <<>>
    PROVE  InPlace'
<1>1. Len(stack[t]) \in Nat
  BY LenProperties DEF TypeOK
<1> SUFFICES ASSUME NEW u \in Thread, NEW i \in 1..Len(stack'[u]),
                    stack'[u][i].at \in Outermost
             PROVE  i = Len(stack'[u])
  BY DEF InPlace
<1>2. CASE u # t
  BY <1>2, PushStack DEF InPlace
<1>3. CASE u = t /\ i = 1
  <2>1. stack[t] = <<>>
    BY <1>3, PushStack
  <2>2. Len(stack[t]) = 0 /\ Len(stack'[t]) = Len(stack[t]) + 1
    BY <2>1, PushStack, EmptySeq
  <2> QED  BY <1>3, <2>2
<1>4. CASE u = t /\ i # 1
  <2>1. /\ i - 1 \in 1..Len(stack[t])
        /\ (i - 1) + 1 = i
        /\ Len(stack'[t]) = Len(stack[t]) + 1
    BY <1>1, <1>4, PushStack
  <2>2. stack'[t][(i - 1) + 1] = stack[t][i - 1]
    BY <2>1, PushStack
  <2>3. i - 1 = Len(stack[t])
    BY <1>4, <2>1, <2>2 DEF InPlace
  <2> QED  BY <1>1, <1>4, <2>1, <2>3
<1> QED
  BY <1>2, <1>3, <1>4

(* Outermost calls stay outermost when one returns.                        *)
LEMMA PopInPlace ==
    ASSUME TypeOK, InPlace, NEW t \in Thread, stack[t] # <<>>, Pop(t)
    PROVE  InPlace'
<1>1. Len(stack[t]) \in Nat
  BY LenProperties DEF TypeOK
<1> SUFFICES ASSUME NEW u \in Thread, NEW i \in 1..Len(stack'[u]),
                    stack'[u][i].at \in Outermost
             PROVE  i = Len(stack'[u])
  BY DEF InPlace
<1>2. CASE u # t
  BY <1>2, PopStack DEF InPlace
<1>3. CASE u = t
  <2>1. /\ i \in 1..(Len(stack[t]) - 1)
        /\ i + 1 \in 1..Len(stack[t])
        /\ Len(stack'[t]) = Len(stack[t]) - 1
    BY <1>1, <1>3, PopStack
  <2>2. stack'[t][i] = stack[t][i + 1]
    BY <2>1, PopStack
  <2>3. i + 1 = Len(stack[t])
    BY <1>3, <2>1, <2>2 DEF InPlace
  <2> QED  BY <1>1, <1>3, <2>1, <2>3
<1> QED
  BY <1>2, <1>3

(* A call that goes on was alone and is alone.                             *)
LEMMA ContinueAlone ==
    ASSUME TypeOK, InPlace, NEW t \in Thread,
           NEW from \in Outermost, NEW to \in Outermost,
           At(t, from), Plain(to) \in Frame, Continue(t, to)
    PROVE  /\ InPlace'
           /\ At(t, to)'
           /\ \A at : On(t, at)' <=> at = to
           /\ \A u \in Thread \ {t} : \A at : On(u, at)' <=> On(u, at)
<1>1. stack[t] # <<>> /\ Len(stack[t]) = 1
  BY Alone, OnTop
<1>2. /\ stack' \in [Thread -> Seq(Frame)]
      /\ Len(stack'[t]) = 1
      /\ stack'[t][1] = Plain(to)
      /\ \A u \in Thread \ {t} : stack'[u] = stack[u]
  BY <1>1, ContinueStack
<1>3. stack'[t][1].at = to
  BY <1>2 DEF Plain
<1>4. InPlace'
  <2> SUFFICES ASSUME NEW u \in Thread, NEW i \in 1..Len(stack'[u]),
                      stack'[u][i].at \in Outermost
               PROVE  i = Len(stack'[u])
    BY DEF InPlace
  <2>1. CASE u = t
    <3>1. Len(stack'[u]) = 1
      BY <1>2, <2>1
    <3>2. i \in 1..1
      BY <3>1
    <3> QED  BY <3>1, <3>2
  <2>2. CASE u # t
    BY <1>2, <2>2 DEF InPlace
  <2> QED  BY <2>1, <2>2
<1>5. \A at : On(t, at)' <=> at = to
  BY <1>2, <1>3 DEF On
<1>6. \A u \in Thread \ {t} : \A at : On(u, at)' <=> On(u, at)
  BY <1>2 DEF On
<1>7. stack'[t] # <<>> /\ Head(stack'[t]) = stack'[t][1]
  <2> DEFINE s == stack'[t]
  <2>1. s \in Seq(Frame) /\ Len(s) = 1
    BY <1>2
  <2> HIDE DEF s
  <2>2. s # <<>>
    <3> SUFFICES ASSUME s = <<>> PROVE FALSE
      OBVIOUS
    <3>1. Len(<<>>) = 0
      BY EmptySeq
    <3> QED  BY <2>1, <3>1
  <2>3. Head(s) = s[1]
    BY <2>1, <2>2
  <2> QED  BY <2>2, <2>3 DEF s
<1>8. At(t, to)'
  BY <1>3, <1>7 DEF At
<1> QED
  BY <1>4, <1>5, <1>6, <1>8

(* An outermost call that returns leaves nothing.                          *)
LEMMA PopAlone ==
    ASSUME TypeOK, InPlace, NEW t \in Thread, NEW at \in Outermost,
           At(t, at), Pop(t)
    PROVE  /\ InPlace'
           /\ \A other : ~On(t, other)'
           /\ \A u \in Thread \ {t} : \A other : On(u, other)' <=> On(u, other)
<1>1. stack[t] # <<>> /\ Len(stack[t]) = 1
  BY Alone, OnTop
<1>2. Len(stack'[t]) = 0 /\ \A u \in Thread \ {t} : stack'[u] = stack[u]
  BY <1>1, PopStack
<1>3. InPlace'
  BY <1>1, PopInPlace
<1>4. \A other : ~On(t, other)'
  BY <1>2 DEF On
<1>5. \A u \in Thread \ {t} : \A other : On(u, other)' <=> On(u, other)
  BY <1>2 DEF On
<1> QED
  BY <1>3, <1>4, <1>5

(* Steps that change none of the outermost calls.                          *)
SameCalls ==
    /\ InPlace'
    /\ \A t \in Thread : \A at \in Outermost : On(t, at)' <=> On(t, at)
    /\ \A t \in Thread : At(t, "freeing") => At(t, "freeing")'
    /\ UNCHANGED <<m_isBusy, app_data, context>>

(* Steps that begin and end no call keep the invariant.                    *)
LEMMA SameCallsCalm ==
    ASSUME CalmInv, SameCalls
    PROVE  CalmInv'
<1> USE DEF CalmInv, SameCalls
<1>1. OneDestroys'
  BY DEF OneDestroys, Destroys, Outermost, Destructor
<1>2. IoIsBusy'
  BY DEF IoIsBusy, Outermost
<1>3. IoUndisturbed'
  BY DEF IoUndisturbed, TornDown, Outermost, Destructor
<1>4. FreeingIsQuiet'
  BY DEF FreeingIsQuiet, Outermost, Destructor
<1> QED
  BY <1>1, <1>2, <1>3, <1>4

(* A call of removeSession, removeEndPoint, isioPending or of an event     *)
(* handling.                                                               *)
LEMMA PushSameCalls ==
    ASSUME TypeOK, InPlace, NEW t \in Thread, NEW frame \in Frame,
           frame.at \notin Outermost, ~At(t, "freeing"),
           Push(t, frame), UNCHANGED contextVars
    PROVE  SameCalls
<1>1. InPlace'
  BY PushInPlace
<1>2. \A u \in Thread : \A at \in Outermost : On(u, at)' <=> On(u, at)
  BY PushOn
<1>3. \A u \in Thread : At(u, "freeing") => At(u, "freeing")'
  BY PushStack DEF At
<1> QED
  BY <1>1, <1>2, <1>3 DEF SameCalls, contextVars

(* Their return.                                                           *)
LEMMA PopSameCalls ==
    ASSUME TypeOK, InPlace, NEW t \in Thread, NEW at, at \notin Outermost,
           At(t, at), Pop(t), UNCHANGED contextVars
    PROVE  SameCalls
<1>1. stack[t] # <<>> /\ Head(stack[t]).at = at
  BY DEF At
<1>2. InPlace'
  BY <1>1, PopInPlace
<1>3. \A u \in Thread : \A other \in Outermost : On(u, other)' <=> On(u, other)
  <2> SUFFICES ASSUME NEW u \in Thread, NEW other \in Outermost
               PROVE  On(u, other)' <=> On(u, other)
    OBVIOUS
  <2>1. ~At(t, other)
    BY <1>1 DEF At
  <2> QED  BY <1>1, <2>1, PopOn
<1>4. \A u \in Thread : At(u, "freeing") => At(u, "freeing")'
  BY <1>1, PopStack DEF At, Outermost, Destructor
<1> QED
  BY <1>2, <1>3, <1>4 DEF SameCalls, contextVars

(* The application calls from an empty stack or from a callback.           *)
LEMMA CallsOutside ==
    ASSUME NEW t \in Thread, NEW op, Calls(t, op)
    PROVE  ~At(t, "freeing")
BY DEF Calls, At

(* The context is not torn down while some thread is in coap_io_process,   *)
(* and coap_free_context reports to nobody.                                *)
LEMMA Calm == Disciplined => (Spec => []CalmInv)
<1> SUFFICES ASSUME Disciplined
             PROVE  Spec => []CalmInv
  OBVIOUS
<1>1. Init => CalmInv
  <2> SUFFICES ASSUME Init PROVE CalmInv
    OBVIOUS
  <2>1. \A t \in Thread : stack[t] = <<>>
    BY DEF Init
  <2>2. \A t \in Thread : \A at : ~On(t, at)
    BY <2>1, EmptyStack
  <2>3. InPlace
    <3>1. \A t \in Thread : Len(stack[t]) = 0
      BY <2>1, EmptySeq
    <3> QED  BY <3>1 DEF InPlace
  <2> QED
    BY <2>2, <2>3
    DEF Init, CalmInv, OneDestroys, Destroys, IoIsBusy, IoUndisturbed, TornDown,
        FreeingIsQuiet
<1>2. TypeOK /\ CalmInv /\ [Next]_vars => CalmInv'
  <2> SUFFICES ASSUME TypeOK, CalmInv, [Next]_vars PROVE CalmInv'
    OBVIOUS
  <2>0. InPlace
    BY DEF CalmInv
  <2>1. ASSUME UNCHANGED <<stack, m_isBusy, app_data, context>>
        PROVE  CalmInv'
    <3>1. SameCalls
      BY <2>0, <2>1 DEF SameCalls, InPlace, On, At
    <3> QED  BY <3>1, SameCallsCalm
  <2>2. ASSUME NEW t \in Thread, NEW k \in Key, Delete(t, k)
        PROVE  CalmInv'
    <3>1. ~At(t, "freeing")
      BY <2>2, CallsOutside DEF Delete
    <3>2. /\ Removing(k) \in Frame
          /\ Removing(k).at \notin Outermost
          /\ Push(t, Removing(k))
          /\ UNCHANGED contextVars
      BY <2>2, PlainFrames DEF Delete, Outermost, Destructor
    <3> QED  BY <2>0, <3>1, <3>2, PushSameCalls, SameCallsCalm
  <2>3. ASSUME NEW t \in Thread, Event(t)
        PROVE  CalmInv'
    <3>1. ~At(t, "freeing")
      <4>1. At(t, "freeing") => On(t, "freeing")
        BY OnTop
      <4> QED  BY <2>3, <4>1 DEF Event, CalmInv, FreeingIsQuiet
    <3>2. /\ OnEvent(m_eventHandling) \in Frame
          /\ OnEvent(m_eventHandling).at \notin Outermost
          /\ Push(t, OnEvent(m_eventHandling))
          /\ UNCHANGED contextVars
      BY <2>3, PlainFrames DEF Event, TypeOK, Outermost, Destructor
    <3> QED  BY <2>0, <3>1, <3>2, PushSameCalls, SameCallsCalm
  <2>4. ASSUME NEW t \in Thread,
               EventReturns(t) \/ PendingReturns(t) \/ Removed(t)
        PROVE  CalmInv'
    <3>1. PICK at \in {"event", "pending", "removing"} : At(t, at)
      BY <2>4 DEF EventReturns, PendingReturns, Removed
    <3>2. Pop(t) /\ UNCHANGED contextVars /\ at \notin Outermost
      BY <2>4, <3>1
      DEF EventReturns, PendingReturns, Removed, Outermost, Destructor
    <3> QED  BY <2>0, <3>1, <3>2, PopSameCalls, SameCallsCalm
  <2>5. ASSUME NEW t \in Thread, IoProcess(t)
        PROVE  CalmInv'
    <3>1. t \in IoThread /\ stack[t] = <<>> /\ context = "open"
      BY <2>5 DEF IoProcess, Calls, Disciplined
    <3>2. Plain("checked") \in Frame /\ Plain("checked").at = "checked"
      BY PlainFrames
    <3>3. Push(t, Plain("checked")) /\ UNCHANGED <<m_isBusy, app_data, context>>
      BY <2>5 DEF IoProcess, contextVars
    <3>4. InPlace'
      BY <2>0, <3>1, <3>2, <3>3, PushInPlace
    <3>5. \A u \in Thread : \A at :
              On(u, at)' <=> (u = t /\ at = "checked") \/ On(u, at)
      BY <3>2, <3>3, PushOn
    <3>6. \A u \in Thread \ {t} : At(u, "freeing") => At(u, "freeing")'
      BY <3>2, <3>3, PushStack DEF At
    <3>7. \A at : ~On(t, at)
      BY <3>1, EmptyStack
    <3>8. OneDestroys'
      BY <3>3, <3>5 DEF CalmInv, OneDestroys, Destroys, Destructor
    <3>9. IoIsBusy'
      BY <3>1, <3>3, <3>5 DEF CalmInv, IoIsBusy
    <3>10. IoUndisturbed'
      BY <3>3, <3>5 DEF CalmInv, IoUndisturbed, TornDown
    <3>11. FreeingIsQuiet'
      BY <3>3, <3>5, <3>6, <3>7 DEF CalmInv, FreeingIsQuiet
    <3> QED  BY <3>4, <3>8, <3>9, <3>10, <3>11 DEF CalmInv
  <2>6. ASSUME NEW t \in Thread, EnterIo(t)
        PROVE  CalmInv'
    <3>1. At(t, "checked") /\ Continue(t, "in") /\ m_isBusy' = TRUE
          /\ UNCHANGED <<app_data, context>>
      BY <2>6 DEF EnterIo
    <3>2. Plain("in") \in Frame /\ "checked" \in Outermost /\ "in" \in Outermost
      BY PlainFrames DEF Outermost
    <3>3. /\ InPlace'
          /\ \A at : On(t, at)' <=> at = "in"
          /\ \A u \in Thread \ {t} : \A at : On(u, at)' <=> On(u, at)
      BY <2>0, <3>1, <3>2, ContinueAlone
    <3>4. On(t, "checked")
      BY <3>1, OnTop
    <3>5. context = "open" /\ t \in IoThread
      BY <3>4 DEF CalmInv, IoIsBusy
    <3>6. \A u \in Thread : ~Destroys(u)
      BY <3>5 DEF CalmInv, OneDestroys
    <3>7. \A u \in Thread : \A at \in Destructor : ~On(u, at)'
      BY <3>3, <3>6 DEF Destroys, Destructor
    <3>8. OneDestroys'
      BY <3>7 DEF OneDestroys, Destroys
    <3>9. IoIsBusy'
      BY <3>1, <3>3, <3>5 DEF CalmInv, IoIsBusy
    <3>10. IoUndisturbed'
      BY <3>1, <3>5, <3>7 DEF IoUndisturbed, TornDown, Destructor
    <3>11. FreeingIsQuiet'
      BY <3>7 DEF FreeingIsQuiet, Destructor
    <3> QED  BY <3>3, <3>8, <3>9, <3>10, <3>11 DEF CalmInv
  <2>7. ASSUME NEW t \in Thread, LeaveIo(t)
        PROVE  CalmInv'
    <3>1. At(t, "in") /\ Pop(t) /\ UNCHANGED <<app_data, context>>
      BY <2>7 DEF LeaveIo
    <3>2. "in" \in Outermost
      BY DEF Outermost
    <3>3. /\ InPlace'
          /\ \A at : ~On(t, at)'
          /\ \A u \in Thread \ {t} : \A at : On(u, at)' <=> On(u, at)
      BY <2>0, <3>1, <3>2, PopAlone
    <3>4. t \in IoThread /\ \A u \in Thread \ {t} : ~On(u, "in")
      <4>1. On(t, "in")
        BY <3>1, OnTop
      <4> QED  BY <4>1 DEF CalmInv, IoIsBusy, Disciplined
    <3>5. \A u \in Thread \ {t} : At(u, "freeing") => At(u, "freeing")'
      BY <3>1, PopStack DEF At
    <3>6. OneDestroys'
      BY <3>1, <3>3 DEF CalmInv, OneDestroys, Destroys, Destructor
    <3>7. IoIsBusy'
      BY <3>1, <3>3, <3>4 DEF CalmInv, IoIsBusy
    <3>8. IoUndisturbed'
      BY <3>3, <3>4 DEF IoUndisturbed
    <3>9. FreeingIsQuiet'
      BY <3>1, <3>3, <3>5 DEF CalmInv, FreeingIsQuiet
    <3> QED  BY <3>3, <3>6, <3>7, <3>8, <3>9 DEF CalmInv
  <2>8. ASSUME NEW t \in Thread, Destroy(t)
        PROVE  CalmInv'
    <3>1. stack[t] = <<>> /\ Respects(t) /\ context = "open"
          /\ context' = "closing" /\ UNCHANGED <<m_isBusy, app_data>>
      BY <2>8 DEF Destroy, Disciplined
    <3>2. Plain("waiting") \in Frame /\ Plain("waiting").at = "waiting"
      BY PlainFrames
    <3>3. Push(t, Plain("waiting"))
      BY <2>8 DEF Destroy
    <3>4. InPlace'
      BY <2>0, <3>1, <3>2, <3>3, PushInPlace
    <3>5. \A u \in Thread : \A at :
              On(u, at)' <=> (u = t /\ at = "waiting") \/ On(u, at)
      BY <3>2, <3>3, PushOn
    <3>6. \A at : ~On(t, at)
      BY <3>1, EmptyStack
    <3>7. \A u \in Thread : \A at \in Destructor : ~On(u, at)
      BY <3>1 DEF CalmInv, OneDestroys, Destroys
    <3>8. \A u \in Thread : ~On(u, "checked")
      <4> SUFFICES ASSUME NEW u \in Thread \ {t}, On(u, "checked")
                   PROVE  FALSE
        BY <3>6
      <4>1. PICK i \in 1..Len(stack[u]) : stack[u][i].at = "checked"
        BY DEF On
      <4>2. i = Len(stack[u])
        BY <2>0, <4>1 DEF InPlace, Outermost
      <4>3. stack[u] # <<>>
        <5> SUFFICES ASSUME stack[u] = <<>> PROVE FALSE
          OBVIOUS
        <5> QED  BY EmptyStack
      <4> QED  BY <3>1, <4>1, <4>2, <4>3 DEF Respects, Disciplined
    <3>9. OneDestroys'
      BY <3>1, <3>5, <3>7 DEF OneDestroys, Destroys
    <3>10. IoIsBusy'
      BY <3>1, <3>5, <3>8 DEF CalmInv, IoIsBusy
    <3>11. IoUndisturbed'
      BY <3>1, <3>5, <3>7 DEF IoUndisturbed, TornDown, Destructor
    <3>12. FreeingIsQuiet'
      BY <3>5, <3>7 DEF FreeingIsQuiet, Destructor
    <3> QED  BY <3>4, <3>9, <3>10, <3>11, <3>12 DEF CalmInv
  <2>9. ASSUME NEW t \in Thread, NEW from \in Destructor, NEW to \in Destructor,
               At(t, from), Plain(to) \in Frame, Continue(t, to),
               ~m_isBusy \/ from # "waiting",
               to = "freeing" => ~app_data',
               from # "freeing", to # "waiting",
               UNCHANGED <<m_isBusy, context>>
        PROVE  CalmInv'
    <3>1. /\ InPlace'
          /\ At(t, to)'
          /\ \A at : On(t, at)' <=> at = to
          /\ \A u \in Thread \ {t} : \A at : On(u, at)' <=> On(u, at)
      BY <2>0, <2>9, ContinueAlone DEF Outermost
    <3>2. On(t, from)
      BY <2>9, OnTop
    <3>3. context = "closing" /\ \A u \in Thread \ {t} : ~Destroys(u)
      BY <3>2 DEF CalmInv, OneDestroys, Destroys
    <3>4. \A u \in Thread : ~On(u, "in") /\ ~On(u, "checked")
      <4>1. \A u \in Thread : ~On(u, "checked")
        BY <3>3 DEF CalmInv, IoIsBusy
      <4>2. CASE from = "waiting"
        BY <2>9, <4>1, <4>2 DEF CalmInv, IoIsBusy
      <4>3. CASE from # "waiting"
        <5>1. TornDown
          BY <2>9, <3>2, <4>3 DEF TornDown, Destructor
        <5> QED  BY <4>1, <5>1 DEF CalmInv, IoUndisturbed
      <4> QED  BY <4>2, <4>3
    <3>5. \A u \in Thread : ~On(u, "in")' /\ ~On(u, "checked")'
      BY <2>9, <3>1, <3>4 DEF Destructor
    <3>6. \A u \in Thread : \A at \in Destructor : On(u, at)' => u = t
      BY <3>1, <3>3 DEF Destroys
    <3>7. OneDestroys'
      BY <2>9, <3>3, <3>6 DEF OneDestroys, Destroys
    <3>8. IoIsBusy'
      BY <3>5 DEF IoIsBusy
    <3>9. IoUndisturbed'
      BY <3>5 DEF IoUndisturbed
    <3>10. FreeingIsQuiet'
      BY <2>9, <3>1, <3>6 DEF FreeingIsQuiet, Destructor
    <3> QED  BY <3>1, <3>7, <3>8, <3>9, <3>10 DEF CalmInv
  <2>10. ASSUME NEW t \in Thread, WaitOver(t) \/ DeleteResourceManager(t)
                    \/ StopPersist(t) \/ FreeContext(t)
         PROVE  CalmInv'
    <3>1. /\ Plain("deleting") \in Frame
          /\ Plain("stopping") \in Frame
          /\ Plain("freeing") \in Frame
      BY PlainFrames
    <3>2. /\ "waiting" \in Destructor /\ "stopping" \in Destructor
          /\ "deleting" \in Destructor /\ "freeing" \in Destructor
      BY DEF Destructor
    <3>3. CASE WaitOver(t)
      BY <2>9, <3>1, <3>2, <3>3 DEF WaitOver, contextVars
    <3>4. CASE DeleteResourceManager(t)
      BY <2>9, <3>1, <3>2, <3>4 DEF DeleteResourceManager, contextVars
    <3>5. CASE StopPersist(t)
      BY <2>9, <3>1, <3>2, <3>5 DEF StopPersist, contextVars
    <3>6. CASE FreeContext(t)
      BY <2>9, <3>1, <3>2, <3>6 DEF FreeContext
    <3> QED  BY <2>10, <3>3, <3>4, <3>5, <3>6
  <2>11. ASSUME NEW t \in Thread, ContextFreed(t)
         PROVE  CalmInv'
    <3>1. At(t, "freeing") /\ Pop(t) /\ "freeing" \in Outermost
      BY <2>11 DEF ContextFreed, Outermost, Destructor
    <3>2. /\ InPlace'
          /\ \A at : ~On(t, at)'
          /\ \A u \in Thread \ {t} : \A at : On(u, at)' <=> On(u, at)
      BY <2>0, <3>1, PopAlone
    <3>3. On(t, "freeing")
      BY <3>1, OnTop
    <3>4. context = "closing" /\ \A u \in Thread \ {t} : ~Destroys(u)
      BY <3>3 DEF CalmInv, OneDestroys, Destroys, Destructor
    <3>5. \A u \in Thread : ~On(u, "checked")
      BY <3>4 DEF CalmInv, IoIsBusy
    <3>6. \A u \in Thread : ~On(u, "in")
      <4>1. TornDown
        BY <3>3 DEF TornDown
      <4> QED  BY <4>1 DEF CalmInv, IoUndisturbed
    <3>7. \A u \in Thread : \A at \in Destructor : ~On(u, at)'
      BY <3>2, <3>4 DEF Destroys
    <3>8. \A u \in Thread : ~On(u, "in")' /\ ~On(u, "checked")'
      BY <3>2, <3>5, <3>6
    <3>9. OneDestroys'
      BY <3>7 DEF OneDestroys, Destroys
    <3>10. IoIsBusy' /\ IoUndisturbed'
      BY <3>8 DEF IoIsBusy, IoUndisturbed
    <3>11. FreeingIsQuiet'
      BY <3>7 DEF FreeingIsQuiet, Destructor
    <3> QED  BY <3>2, <3>9, <3>10, <3>11 DEF CalmInv
  <2>12. ASSUME NEW t \in Thread,
                \/ \E k \in Key, s \in Session :
                      AddSession(t, k, s) \/ AddEndPoint(t, k, s)
                \/ EnablePersist(t) \/ DisablePersist(t)
                \/ \E h \in Handler \cup {NoHandler} :
                      RegisterEventHandling(t, h)
                \/ DeleteSession(t) \/ SessionDeleted(t)
         PROVE  CalmInv'
    BY <2>1, <2>12
    DEF AddSession, AddEndPoint, EnablePersist, DisablePersist,
        RegisterEventHandling, DeleteSession, SessionDeleted, contextVars
  <2>13. CASE UNCHANGED vars
    BY <2>1, <2>13 DEF vars, contextVars
  <2>14. ASSUME NEW t \in Thread, IsIoPending(t)
         PROVE  CalmInv'
    <3>1. ~At(t, "freeing")
      BY <2>14, CallsOutside DEF IsIoPending
    <3>2. /\ Plain("pending") \in Frame
          /\ Plain("pending").at \notin Outermost
          /\ Push(t, Plain("pending"))
          /\ UNCHANGED contextVars
      BY <2>14, PlainFrames DEF IsIoPending, Outermost, Destructor
    <3> QED  BY <2>0, <3>1, <3>2, PushSameCalls, SameCallsCalm
  <2> QED
    BY <2>2, <2>3, <2>4, <2>5, <2>6, <2>7, <2>8, <2>10, <2>11, <2>12,
       <2>13, <2>14
    DEF Next, Application, Library, ContextOperations,
        ContextClientOperations, ContextServerOperations, RemoveSession,
        RemoveEndPoint
<1>3. QED
  BY <1>1, <1>2, TypeCorrect, PTL DEF Spec

(* No event is reported to a context whose libcoap part is being freed:    *)
(* the app data is cleared before coap_free_context (Context.cc:87).       *)
THEOREM QuietInTheEnd == Disciplined => (Spec => []QuietWhileFreeing)
<1>1. CalmInv => QuietWhileFreeing
  BY DEF CalmInv, FreeingIsQuiet, QuietWhileFreeing
<1> QED
  BY <1>1, Calm, PTL

------------------------------------------------------------------------------
(* Who is in the library while the context closes.                         *)

(* While the context is closing, a thread in the library is the one that   *)
(* destroys it or is in coap_io_process.                                   *)
OutsideWhenClosing ==
    \A t \in Thread : stack[t] # <<>> =>
        /\ t \in IoThread \/ Destroys(t)
        /\ context # "open" => Destroys(t) \/ On(t, "in")

(* A thread in the library was there, or has just called it.               *)
LEMMA PushOutside ==
    ASSUME TypeOK, OutsideWhenClosing, NEW t \in Thread, NEW frame \in Frame,
           Push(t, frame), UNCHANGED context,
           stack[t] = <<>> => t \in IoThread /\ context = "open"
    PROVE  OutsideWhenClosing'
<1> SUFFICES ASSUME NEW u \in Thread, stack'[u] # <<>>
             PROVE  /\ u \in IoThread \/ Destroys(u)'
                    /\ context # "open" => Destroys(u)' \/ On(u, "in")'
  BY DEF OutsideWhenClosing
<1>1. \A at : On(u, at) => On(u, at)'
  BY PushOn
<1>2. Destroys(u) => Destroys(u)'
  BY <1>1 DEF Destroys
<1>3. stack[u] # <<>> \/ (u = t /\ stack[t] = <<>>)
  BY PushStack
<1> QED
  BY <1>1, <1>2, <1>3 DEF OutsideWhenClosing

(* A return of an inner frame takes no outermost call with it.             *)
LEMMA PopOutside ==
    ASSUME TypeOK, OutsideWhenClosing, NEW t \in Thread, NEW at,
           at \notin Outermost, At(t, at), Pop(t), UNCHANGED context
    PROVE  OutsideWhenClosing'
<1> SUFFICES ASSUME NEW u \in Thread, stack'[u] # <<>>
             PROVE  /\ u \in IoThread \/ Destroys(u)'
                    /\ context # "open" => Destroys(u)' \/ On(u, "in")'
  BY DEF OutsideWhenClosing
<1>1. stack[t] # <<>>
  BY DEF At
<1>2. \A other \in Outermost : On(u, other) => On(u, other)'
  <2> SUFFICES ASSUME NEW other \in Outermost, On(u, other)
               PROVE  On(u, other)'
    OBVIOUS
  <2>1. ~At(t, other)
    BY DEF At
  <2> QED  BY <1>1, <2>1, PopOn
<1>3. Destroys(u) => Destroys(u)'
  BY <1>2 DEF Destroys, Outermost
<1>4. On(u, "in") => On(u, "in")'
  BY <1>2 DEF Outermost
<1>5. stack[u] # <<>>
  BY <1>1, PopStack
<1> QED
  BY <1>3, <1>4, <1>5 DEF OutsideWhenClosing

(* When the thread that frees the context returns, no thread is in the     *)
(* library.                                                                *)
LEMMA LastOut ==
    ASSUME TypeOK, CalmInv, OutsideWhenClosing, NEW t \in Thread,
           At(t, "freeing"), Pop(t)
    PROVE  \A u \in Thread : stack'[u] = <<>> /\ Len(stack'[u]) = 0
<1>1. InPlace /\ "freeing" \in Outermost
  BY DEF CalmInv, Outermost, Destructor
<1>2. On(t, "freeing") /\ stack[t] # <<>> /\ Len(stack[t]) = 1
  BY <1>1, OnTop, Alone
<1>3. context = "closing" /\ \A u \in Thread \ {t} : ~Destroys(u)
  BY <1>2 DEF CalmInv, OneDestroys, Destroys, Destructor
<1>4. \A u \in Thread : ~On(u, "in")
  <2>1. TornDown
    BY <1>2 DEF TornDown
  <2> QED  BY <2>1 DEF CalmInv, IoUndisturbed
<1>5. \A u \in Thread \ {t} : stack[u] = <<>>
  BY <1>3, <1>4 DEF OutsideWhenClosing
<1>6. /\ Len(stack'[t]) = 0
      /\ stack' \in [Thread -> Seq(Frame)]
      /\ \A u \in Thread \ {t} : stack'[u] = stack[u]
  BY <1>2, PopStack
<1> QED
  BY <1>5, <1>6, EmptySeq

(* Once the context closes, only ~Context's thread and those in            *)
(* coap_io_process are in the library.                                     *)
LEMMA Outside == Disciplined => (Spec => []OutsideWhenClosing)
<1> SUFFICES ASSUME Disciplined
             PROVE  Spec => []OutsideWhenClosing
  OBVIOUS
<1>1. Init => OutsideWhenClosing
  BY DEF Init, OutsideWhenClosing
<1>2. TypeOK /\ CalmInv /\ OutsideWhenClosing /\ [Next]_vars
        => OutsideWhenClosing'
  <2> SUFFICES ASSUME TypeOK, CalmInv, OutsideWhenClosing, [Next]_vars
               PROVE  OutsideWhenClosing'
    OBVIOUS
  <2>0. InPlace
    BY DEF CalmInv
  <2>1. ASSUME UNCHANGED <<stack, context>>
        PROVE  OutsideWhenClosing'
    BY <2>1 DEF OutsideWhenClosing, Destroys, On
  <2>2. ASSUME NEW t \in Thread, NEW k \in Key, Delete(t, k)
        PROVE  OutsideWhenClosing'
    <3>1. /\ Removing(k) \in Frame
          /\ Push(t, Removing(k))
          /\ UNCHANGED context
      BY <2>2, PlainFrames DEF Delete, contextVars
    <3>2. stack[t] = <<>> => t \in IoThread /\ context = "open"
      BY <2>2 DEF Delete, Calls, At
    <3> QED
      BY <3>1, <3>2, PushOutside
  <2>3. ASSUME NEW t \in Thread, Event(t)
        PROVE  OutsideWhenClosing'
    <3>1. /\ OnEvent(m_eventHandling) \in Frame
          /\ Push(t, OnEvent(m_eventHandling))
          /\ UNCHANGED context
      BY <2>3, PlainFrames DEF Event, TypeOK, contextVars
    <3>2. stack[t] # <<>>
      BY <2>3 DEF Event, LibcoapRuns, At
    <3> QED
      BY <3>1, <3>2, PushOutside
  <2>4. ASSUME NEW t \in Thread,
               EventReturns(t) \/ PendingReturns(t) \/ Removed(t)
        PROVE  OutsideWhenClosing'
    <3>1. PICK at \in {"event", "pending", "removing"} : At(t, at)
      BY <2>4 DEF EventReturns, PendingReturns, Removed
    <3>2. Pop(t) /\ UNCHANGED context /\ at \notin Outermost
      BY <2>4, <3>1
      DEF EventReturns, PendingReturns, Removed, Outermost, Destructor,
          contextVars
    <3> QED
      BY <3>1, <3>2, PopOutside
  <2>5. ASSUME NEW t \in Thread, IoProcess(t) \/ IsIoPending(t)
        PROVE  OutsideWhenClosing'
    <3>1. PICK at \in {"checked", "pending"} : Push(t, Plain(at))
      BY <2>5 DEF IoProcess, IsIoPending
    <3>2. Plain(at) \in Frame /\ UNCHANGED context
      BY <2>5, PlainFrames DEF IoProcess, IsIoPending, contextVars
    <3>3. stack[t] = <<>> => t \in IoThread /\ context = "open"
      BY <2>5 DEF IoProcess, IsIoPending, Calls, At
    <3> QED
      BY <3>1, <3>2, <3>3, PushOutside
  <2>6. ASSUME NEW t \in Thread, NEW from \in Outermost, NEW to \in Outermost,
               At(t, from), Plain(to) \in Frame, Continue(t, to),
               from = "checked" <=> to = "in", from # "in", to # "checked",
               UNCHANGED context
        PROVE  OutsideWhenClosing'
    <3>1. stack[t] # <<>> /\ On(t, from)
      BY <2>6, OnTop
    <3>2. /\ \A at : On(t, at)' <=> at = to
          /\ \A u \in Thread \ {t} : \A at : On(u, at)' <=> On(u, at)
      BY <2>0, <2>6, ContinueAlone
    <3>3. \A u \in Thread \ {t} : stack'[u] = stack[u]
      BY <2>6, <3>1, ContinueStack
    <3>4. CASE to = "in"
      <4>1. t \in IoThread /\ On(t, "in")'
        BY <2>6, <3>1, <3>2, <3>4 DEF CalmInv, IoIsBusy
      <4> QED
        BY <2>6, <3>2, <3>3, <4>1 DEF OutsideWhenClosing, Destroys, Destructor
    <3>5. CASE to # "in"
      <4>1. to \in Destructor /\ Destroys(t)'
        BY <2>6, <3>2, <3>5 DEF Outermost, Destroys
      <4> QED
        BY <2>6, <3>2, <3>3, <4>1 DEF OutsideWhenClosing, Destroys, Destructor
    <3> QED  BY <3>4, <3>5
  <2>7. ASSUME NEW t \in Thread,
               EnterIo(t) \/ WaitOver(t) \/ DeleteResourceManager(t)
                   \/ StopPersist(t) \/ FreeContext(t)
        PROVE  OutsideWhenClosing'
    <3>1. /\ Plain("in") \in Frame
          /\ Plain("deleting") \in Frame
          /\ Plain("stopping") \in Frame
          /\ Plain("freeing") \in Frame
      BY PlainFrames
    <3>2. /\ "checked" \in Outermost /\ "in" \in Outermost
          /\ "waiting" \in Outermost /\ "stopping" \in Outermost
          /\ "deleting" \in Outermost /\ "freeing" \in Outermost
      BY DEF Outermost, Destructor
    <3>3. CASE EnterIo(t)
      BY <2>6, <3>1, <3>2, <3>3 DEF EnterIo
    <3>4. CASE WaitOver(t)
      BY <2>6, <3>1, <3>2, <3>4 DEF WaitOver, contextVars
    <3>5. CASE DeleteResourceManager(t)
      BY <2>6, <3>1, <3>2, <3>5 DEF DeleteResourceManager, contextVars
    <3>6. CASE StopPersist(t)
      BY <2>6, <3>1, <3>2, <3>6 DEF StopPersist, contextVars
    <3>7. CASE FreeContext(t)
      BY <2>6, <3>1, <3>2, <3>7 DEF FreeContext
    <3> QED  BY <2>7, <3>3, <3>4, <3>5, <3>6, <3>7
  <2>8. ASSUME NEW t \in Thread, LeaveIo(t)
        PROVE  OutsideWhenClosing'
    <3>1. /\ At(t, "in") /\ "in" \in Outermost /\ Pop(t)
          /\ UNCHANGED context
      BY <2>8 DEF LeaveIo, Outermost
    <3>2. stack[t] # <<>> /\ Len(stack[t]) = 1
      BY <2>0, <3>1, OnTop, Alone
    <3>3. \A u \in Thread \ {t} : stack'[u] = stack[u]
      BY <3>1, <3>2, PopStack
    <3>4. stack'[t] = <<>>
      <4>1. stack'[t] \in Seq(Frame) /\ Len(stack'[t]) = 0
        BY <3>1, <3>2, PopStack
      <4> QED  BY <4>1, EmptySeq
    <3> QED
      BY <3>1, <3>3, <3>4 DEF OutsideWhenClosing, Destroys, On
  <2>9. ASSUME NEW t \in Thread, Destroy(t)
        PROVE  OutsideWhenClosing'
    <3>1. /\ Plain("waiting") \in Frame
          /\ Plain("waiting").at = "waiting"
          /\ Push(t, Plain("waiting"))
          /\ Respects(t)
      BY <2>9, PlainFrames DEF Destroy, Disciplined
    <3>2. \A u \in Thread : \A at :
              On(u, at)' <=> (u = t /\ at = "waiting") \/ On(u, at)
      BY <3>1, PushOn
    <3>3. Destroys(t)'
      BY <3>2 DEF Destroys, Destructor
    <3>4. \A u \in Thread \ {t} : stack'[u] = stack[u]
      BY <3>1, PushStack
    <3>5. ASSUME NEW u \in Thread \ {t}, stack[u] # <<>>
          PROVE  On(u, "in")
      <4>1. Len(stack[u]) \in Nat \ {0}
        BY <3>5, EmptySeq DEF TypeOK
      <4>2. Len(stack[u]) \in 1..Len(stack[u])
        BY <4>1
      <4>3. stack[u][Len(stack[u])].at = "in"
        BY <3>1, <3>5 DEF Respects, Disciplined
      <4> QED  BY <4>2, <4>3 DEF On
    <3>6. \A u \in Thread \ {t} : stack[u] # <<>> => u \in IoThread
      BY <3>5 DEF CalmInv, IoIsBusy
    <3> QED
      BY <3>2, <3>3, <3>4, <3>5, <3>6 DEF OutsideWhenClosing
  <2>10. ASSUME NEW t \in Thread, ContextFreed(t)
         PROVE  OutsideWhenClosing'
    <3>1. At(t, "freeing") /\ "freeing" \in Outermost /\ Pop(t)
      BY <2>10 DEF ContextFreed, Outermost, Destructor
    <3>2. \A u \in Thread : stack'[u] = <<>>
      BY <3>1, LastOut
    <3> QED
      BY <3>2 DEF OutsideWhenClosing
  <2>11. ASSUME NEW t \in Thread,
                \/ \E k \in Key, s \in Session :
                      AddSession(t, k, s) \/ AddEndPoint(t, k, s)
                \/ EnablePersist(t) \/ DisablePersist(t)
                \/ \E h \in Handler \cup {NoHandler} :
                      RegisterEventHandling(t, h)
                \/ DeleteSession(t) \/ SessionDeleted(t)
         PROVE  OutsideWhenClosing'
    BY <2>1, <2>11
    DEF AddSession, AddEndPoint, EnablePersist, DisablePersist,
        RegisterEventHandling, DeleteSession, SessionDeleted, contextVars
  <2>12. CASE UNCHANGED vars
    BY <2>1, <2>12 DEF vars, contextVars
  <2> QED
    BY <2>2, <2>3, <2>4, <2>5, <2>7, <2>8, <2>9, <2>10, <2>11, <2>12
    DEF Next, Application, Library, ContextOperations,
        ContextClientOperations, ContextServerOperations, RemoveSession,
        RemoveEndPoint
<1>3. QED
  BY <1>1, <1>2, TypeCorrect, Calm, PTL DEF Spec

------------------------------------------------------------------------------
(* Who processes I/O while the context closes.                             *)

(* The destructor makes callbacks from its loop only, and nobody that      *)
(* destroys the context is in isioPending.                                 *)
PollsBefore ==
    \A t \in Thread :
        /\ Destroys(t) => On(t, "deleting") \/ \E at \in Destructor : At(t, at)
        /\ On(t, "pending") => ~Destroys(t)

(* A call from a callback, or of one.                                      *)
LEMMA PushPolls ==
    ASSUME TypeOK, PollsBefore, NEW t \in Thread, NEW frame \in Frame,
           Push(t, frame), frame.at \notin Destructor,
           Destroys(t) => On(t, "deleting") /\ frame.at # "pending"
    PROVE  PollsBefore'
<1>1. \A u \in Thread : \A at : On(u, at)' <=>
          (u = t /\ at = frame.at) \/ On(u, at)
  BY PushOn
<1>2. \A u \in Thread : Destroys(u)' <=> Destroys(u)
  BY <1>1 DEF Destroys
<1>3. \A u \in Thread \ {t} : \A at : At(u, at) <=> At(u, at)'
  BY PushStack DEF At
<1> QED
  BY <1>1, <1>2, <1>3 DEF PollsBefore

(* The return of one.                                                      *)
LEMMA PopPolls ==
    ASSUME TypeOK, PollsBefore, NEW t \in Thread, NEW at,
           at \notin Outermost, At(t, at), Pop(t)
    PROVE  PollsBefore'
<1>1. stack[t] # <<>> /\ \A other \in Outermost : ~At(t, other)
  BY DEF At
<1>2. \A u \in Thread : \A other \in Outermost :
          On(u, other)' <=> On(u, other)
  BY <1>1, PopOn
<1>3. \A u \in Thread : Destroys(u)' <=> Destroys(u)
  BY <1>2 DEF Destroys, Outermost
<1>4. \A u \in Thread : On(u, "pending")' => On(u, "pending")
  BY <1>1, PopOn
<1>5. \A u \in Thread \ {t} : \A other : At(u, other) <=> At(u, other)'
  BY <1>1, PopStack DEF At
<1>6. Destroys(t) => On(t, "deleting")
  BY <1>1 DEF PollsBefore, Outermost
<1>7. \A u \in Thread : On(u, "deleting")' <=> On(u, "deleting")
  BY <1>2 DEF Outermost, Destructor
<1> QED
  BY <1>3, <1>4, <1>5, <1>6, <1>7 DEF PollsBefore

(* What a callback of the destructor may call is what LateOps says.        *)
LEMMA CallsPolls ==
    ASSUME PollsBefore, NEW t \in Thread, NEW op, Calls(t, op)
    PROVE  Destroys(t) => On(t, "deleting") /\ op \in LateOps
<1>1. CASE stack[t] = <<>>
  BY <1>1, EmptyStack DEF Destroys
<1>2. CASE At(t, "event")
  <2>1. \A at \in Destructor : ~At(t, at)
    BY <1>2 DEF At, Destructor
  <2> QED  BY <1>2, <2>1 DEF PollsBefore, Calls, At
<1> QED
  BY <1>1, <1>2 DEF Calls

(* A thread that is in isioPending is not the one in the destructor.       *)
LEMMA Polls == Disciplined => (Spec => []PollsBefore)
<1> SUFFICES ASSUME Disciplined
             PROVE  Spec => []PollsBefore
  OBVIOUS
<1>1. Init => PollsBefore
  <2> SUFFICES ASSUME Init, NEW t \in Thread
               PROVE  \A at : ~On(t, at)
    BY DEF PollsBefore, Destroys
  <2> QED  BY EmptyStack DEF Init
<1>2. TypeOK /\ CalmInv /\ PollsBefore /\ [Next]_vars => PollsBefore'
  <2> SUFFICES ASSUME TypeOK, CalmInv, PollsBefore, [Next]_vars
               PROVE  PollsBefore'
    OBVIOUS
  <2>0. InPlace
    BY DEF CalmInv
  <2>1. ASSUME UNCHANGED stack PROVE PollsBefore'
    BY <2>1 DEF PollsBefore, Destroys, On, At
  <2>2. ASSUME NEW t \in Thread, NEW k \in Key, Delete(t, k)
        PROVE  PollsBefore'
    <3>1. PICK op : Calls(t, op)
      BY <2>2 DEF Delete
    <3>2. /\ Removing(k) \in Frame
          /\ Removing(k).at = "removing"
          /\ Push(t, Removing(k))
      BY <2>2, PlainFrames DEF Delete
    <3>3. Destroys(t) => On(t, "deleting")
      BY <3>1, CallsPolls
    <3> QED  BY <3>2, <3>3, PushPolls DEF Destructor
  <2>3. ASSUME NEW t \in Thread, Event(t)
        PROVE  PollsBefore'
    <3>1. /\ OnEvent(m_eventHandling) \in Frame
          /\ OnEvent(m_eventHandling).at = "event"
          /\ Push(t, OnEvent(m_eventHandling))
      BY <2>3, PlainFrames DEF Event, TypeOK
    <3>2. ~At(t, "freeing")
      <4>1. At(t, "freeing") => On(t, "freeing")
        BY OnTop
      <4> QED  BY <2>3, <4>1 DEF Event, CalmInv, FreeingIsQuiet
    <3>3. Destroys(t) => On(t, "deleting")
      <4>1. At(t, "deleting") => On(t, "deleting")
        BY OnTop
      <4>2. ~At(t, "waiting") /\ ~At(t, "stopping")
        BY <2>3 DEF Event, LibcoapRuns, At
      <4> QED  BY <3>2, <4>1, <4>2 DEF PollsBefore, Destructor
    <3> QED  BY <3>1, <3>3, PushPolls DEF Destructor
  <2>4. ASSUME NEW t \in Thread,
               EventReturns(t) \/ PendingReturns(t) \/ Removed(t)
        PROVE  PollsBefore'
    <3>1. PICK at \in {"event", "pending", "removing"} : At(t, at) /\ Pop(t)
      BY <2>4 DEF EventReturns, PendingReturns, Removed
    <3>2. at \notin Outermost
      BY DEF Outermost, Destructor
    <3> QED  BY <3>1, <3>2, PopPolls
  <2>5. ASSUME NEW t \in Thread, IoProcess(t)
        PROVE  PollsBefore'
    <3>1. /\ Plain("checked") \in Frame
          /\ Plain("checked").at = "checked"
          /\ Push(t, Plain("checked"))
      BY <2>5, PlainFrames DEF IoProcess
    <3>2. Destroys(t) => On(t, "deleting")
      BY <2>5, CallsPolls DEF IoProcess
    <3> QED  BY <3>1, <3>2, PushPolls DEF Destructor
  <2>6. ASSUME NEW t \in Thread, IsIoPending(t)
        PROVE  PollsBefore'
    <3>1. /\ Plain("pending") \in Frame
          /\ Plain("pending").at = "pending"
          /\ Push(t, Plain("pending"))
      BY <2>6, PlainFrames DEF IsIoPending
    <3>2. ~Destroys(t)
      BY <2>6, CallsPolls DEF IsIoPending, Disciplined
    <3> QED  BY <3>1, <3>2, PushPolls DEF Destructor
  <2>7. ASSUME NEW t \in Thread, NEW from \in Outermost, NEW to \in Outermost,
               At(t, from), Plain(to) \in Frame, Continue(t, to)
        PROVE  PollsBefore'
    <3>1. /\ At(t, to)'
          /\ \A at : On(t, at)' <=> at = to
          /\ \A u \in Thread \ {t} : \A at : On(u, at)' <=> On(u, at)
      BY <2>0, <2>7, ContinueAlone
    <3>2. \A u \in Thread \ {t} : stack'[u] = stack[u]
      <4>1. stack[t] # <<>>
        BY <2>7, OnTop
      <4> QED  BY <2>7, <4>1, ContinueStack
    <3>3. \A u \in Thread \ {t} : \A at : At(u, at)' <=> At(u, at)
      BY <3>2 DEF At
    <3>4. to # "pending"
      BY DEF Outermost, Destructor
    <3> QED
      BY <3>1, <3>3, <3>4 DEF PollsBefore, Destroys
  <2>8. ASSUME NEW t \in Thread, EnterIo(t) \/ WaitOver(t)
                   \/ DeleteResourceManager(t) \/ StopPersist(t)
                   \/ FreeContext(t)
        PROVE  PollsBefore'
    <3>1. PICK from \in Outermost, to \in Outermost :
              At(t, from) /\ Continue(t, to)
      BY <2>8 DEF EnterIo, WaitOver, DeleteResourceManager, StopPersist,
                  FreeContext, Outermost, Destructor
    <3>2. Plain(to) \in Frame
      BY PlainFrames DEF Outermost, Destructor
    <3> QED  BY <2>7, <3>1, <3>2
  <2>9. ASSUME NEW t \in Thread, LeaveIo(t) \/ ContextFreed(t)
        PROVE  PollsBefore'
    <3>1. PICK at \in Outermost : At(t, at) /\ Pop(t)
      BY <2>9 DEF LeaveIo, ContextFreed, Outermost, Destructor
    <3>2. /\ \A other : ~On(t, other)'
          /\ \A u \in Thread \ {t} : \A other :
                 On(u, other)' <=> On(u, other)
      BY <2>0, <3>1, PopAlone
    <3>3. \A u \in Thread \ {t} : \A other : At(u, other)' <=> At(u, other)
      <4>1. stack[t] # <<>>
        BY <3>1, OnTop
      <4> QED  BY <3>1, <4>1, PopStack DEF At
    <3> QED
      BY <3>2, <3>3 DEF PollsBefore, Destroys
  <2>10. ASSUME NEW t \in Thread, Destroy(t)
         PROVE  PollsBefore'
    <3>1. /\ Plain("waiting") \in Frame
          /\ Plain("waiting").at = "waiting"
          /\ Push(t, Plain("waiting"))
          /\ stack[t] = <<>>
      BY <2>10, PlainFrames DEF Destroy, Disciplined
    <3>2. /\ stack' \in [Thread -> Seq(Frame)]
          /\ stack'[t][1] = Plain("waiting")
          /\ Len(stack'[t]) = Len(stack[t]) + 1
          /\ \A u \in Thread \ {t} : stack'[u] = stack[u]
      BY <3>1, PushStack
    <3>3. At(t, "waiting")'
      <4> DEFINE s == stack'[t]
      <4>1. Len(s) = 1 /\ s \in Seq(Frame)
        <5>1. Len(stack[t]) = 0
          BY <3>1, EmptySeq
        <5> QED  BY <3>2, <5>1
      <4> HIDE DEF s
      <4>2. s # <<>> /\ Head(s) = s[1]
        BY <4>1, EmptySeq
      <4> QED  BY <3>1, <3>2, <4>2 DEF s, At
    <3>4. \A u \in Thread : \A at :
              On(u, at)' <=> (u = t /\ at = "waiting") \/ On(u, at)
      BY <3>1, PushOn
    <3>5. \A at : ~On(t, at)
      BY <3>1, EmptyStack
    <3>6. \A u \in Thread \ {t} : \A at : At(u, at)' <=> At(u, at)
      BY <3>2 DEF At
    <3> QED
      BY <3>3, <3>4, <3>5, <3>6 DEF PollsBefore, Destroys, Destructor
  <2>11. ASSUME NEW t \in Thread,
                \/ \E k \in Key, s \in Session :
                      AddSession(t, k, s) \/ AddEndPoint(t, k, s)
                \/ EnablePersist(t) \/ DisablePersist(t)
                \/ \E h \in Handler \cup {NoHandler} :
                      RegisterEventHandling(t, h)
                \/ DeleteSession(t) \/ SessionDeleted(t)
         PROVE  PollsBefore'
    BY <2>1, <2>11
    DEF AddSession, AddEndPoint, EnablePersist, DisablePersist,
        RegisterEventHandling, DeleteSession, SessionDeleted
  <2>12. CASE UNCHANGED vars
    BY <2>1, <2>12 DEF vars
  <2> QED
    BY <2>2, <2>3, <2>4, <2>5, <2>6, <2>8, <2>9, <2>10, <2>11, <2>12
    DEF Next, Application, Library, ContextOperations,
        ContextClientOperations, ContextServerOperations, RemoveSession,
        RemoveEndPoint
<1>3. QED
  BY <1>1, <1>2, TypeCorrect, Calm, PTL DEF Spec

(* A disciplined application's context is never destroyed while libcoap    *)
(* processes I/O in it, however deep its callbacks go: in coap_io_process  *)
(* the wait for m_isBusy prevents it (ContextClient.cc:18), and in         *)
(* coap_io_pending, which the flag does not cover (Context.cc:66-70), the  *)
(* application does, which has no destructor start there.                  *)
THEOREM Undisturbed == Disciplined => (Spec => []ContextUndisturbed)
<1> SUFFICES ASSUME Disciplined
             PROVE  Spec => []ContextUndisturbed
  OBVIOUS
<1>1. TypeOK /\ CalmInv /\ OutsideWhenClosing /\ PollsBefore
        => ContextUndisturbed
  <2> SUFFICES ASSUME TypeOK, CalmInv, OutsideWhenClosing, PollsBefore,
                      TornDown, NEW t \in Thread
               PROVE  ~On(t, "in") /\ ~On(t, "pending")
    BY DEF ContextUndisturbed, InUse
  <2>1. \A u \in Thread : ~On(u, "in")
    BY DEF CalmInv, IoUndisturbed
  <2>2. context # "open"
    BY DEF CalmInv, OneDestroys, TornDown, Destroys, Destructor
  <2>3. On(t, "pending") => stack[t] # <<>> /\ ~Destroys(t)
    BY EmptyStack DEF PollsBefore
  <2> QED
    BY <2>1, <2>2, <2>3 DEF OutsideWhenClosing
<1> QED
  BY <1>1, TypeCorrect, Calm, Outside, Polls, PTL

------------------------------------------------------------------------------
(* The handling whose function runs.                                       *)

KeepsHandler == "replaceHandler" \notin CallbackOps \cup LateOps

(* The handling of every event on a stack is the registered one.           *)
EventsReachRegistered ==
    \A t \in Thread : \A i \in 1..Len(stack[t]) :
        stack[t][i].at = "event" =>
            /\ stack[t][i].handler = m_eventHandling
            /\ m_eventHandling \in Handler

RegisteredIsAlive ==
    m_eventHandling # NoHandler => handlerLife[m_eventHandling] = "registered"

HandlerInv == EventsReachRegistered /\ RegisteredIsAlive

(* A frame that is pushed, and the frames it covers.                       *)
LEMMA PushEvents ==
    ASSUME TypeOK, EventsReachRegistered, NEW t \in Thread,
           NEW frame \in Frame, Push(t, frame), UNCHANGED m_eventHandling,
           frame.at = "event" => frame.handler = m_eventHandling
                                 /\ m_eventHandling \in Handler
    PROVE  EventsReachRegistered'
<1>1. Len(stack[t]) \in Nat
  BY LenProperties DEF TypeOK
<1> SUFFICES ASSUME NEW u \in Thread, NEW i \in 1..Len(stack'[u]),
                    stack'[u][i].at = "event"
             PROVE  /\ stack'[u][i].handler = m_eventHandling
                    /\ m_eventHandling \in Handler
  BY DEF EventsReachRegistered
<1>2. CASE u # t
  BY <1>2, PushStack DEF EventsReachRegistered
<1>3. CASE u = t /\ i = 1
  BY <1>3, PushStack
<1>4. CASE u = t /\ i # 1
  <2>1. i - 1 \in 1..Len(stack[t]) /\ (i - 1) + 1 = i
    BY <1>1, <1>4, PushStack
  <2>2. stack'[t][(i - 1) + 1] = stack[t][i - 1]
    BY <2>1, PushStack
  <2> QED  BY <1>4, <2>1, <2>2 DEF EventsReachRegistered
<1> QED
  BY <1>2, <1>3, <1>4

(* A function of the event handling that returns leaves the others with    *)
(* the registered object.                                                  *)
LEMMA PopEvents ==
    ASSUME TypeOK, EventsReachRegistered, NEW t \in Thread, stack[t] # <<>>,
           Pop(t), UNCHANGED m_eventHandling
    PROVE  EventsReachRegistered'
<1>1. Len(stack[t]) \in Nat
  BY LenProperties DEF TypeOK
<1> SUFFICES ASSUME NEW u \in Thread, NEW i \in 1..Len(stack'[u]),
                    stack'[u][i].at = "event"
             PROVE  /\ stack'[u][i].handler = m_eventHandling
                    /\ m_eventHandling \in Handler
  BY DEF EventsReachRegistered
<1>2. CASE u # t
  BY <1>2, PopStack DEF EventsReachRegistered
<1>3. CASE u = t
  <2>1. i \in 1..(Len(stack[t]) - 1) /\ i + 1 \in 1..Len(stack[t])
    BY <1>1, <1>3, PopStack
  <2>2. stack'[t][i] = stack[t][i + 1]
    BY <2>1, PopStack
  <2> QED  BY <1>3, <2>1, <2>2 DEF EventsReachRegistered
<1> QED
  BY <1>2, <1>3

(* A call of the library that goes on enters no function of it.            *)
LEMMA ContinueEvents ==
    ASSUME TypeOK, EventsReachRegistered, NEW t \in Thread, stack[t] # <<>>,
           NEW to, Plain(to) \in Frame, to # "event", Continue(t, to),
           UNCHANGED m_eventHandling
    PROVE  EventsReachRegistered'
<1>1. Len(stack[t]) \in Nat
  BY LenProperties DEF TypeOK
<1> SUFFICES ASSUME NEW u \in Thread, NEW i \in 1..Len(stack'[u]),
                    stack'[u][i].at = "event"
             PROVE  /\ stack'[u][i].handler = m_eventHandling
                    /\ m_eventHandling \in Handler
  BY DEF EventsReachRegistered
<1>2. CASE u # t
  BY <1>2, ContinueStack DEF EventsReachRegistered
<1>3. CASE u = t
  <2>1. stack'[t][1].at = to
    BY ContinueStack DEF Plain
  <2>2. i \in 1..Len(stack[t]) /\ i # 1
    BY <1>3, <2>1, ContinueStack
  <2>3. i \in 2..Len(stack[t])
    BY <1>1, <2>2
  <2>4. stack'[t][i] = stack[t][i]
    BY <2>3, ContinueStack
  <2> QED  BY <1>3, <2>2, <2>4 DEF EventsReachRegistered
<1> QED
  BY <1>2, <1>3

(* The function of an EventHandling never runs on a deleted one: a         *)
(* disciplined application whose callbacks do not replace the handling     *)
(* finds it alive until its function returns, also under removeSession     *)
(* and the destructor (Context.cc:37, Context.cc:87).                      *)
THEOREM HandlerStays ==
    Disciplined /\ KeepsHandler => (Spec => []HandlerAlive)
<1> SUFFICES ASSUME Disciplined, KeepsHandler
             PROVE  Spec => []HandlerAlive
  OBVIOUS
<1>1. Init => HandlerInv
  <2> SUFFICES ASSUME Init PROVE HandlerInv
    OBVIOUS
  <2>1. \A t \in Thread : stack[t] = <<>> /\ Len(stack[t]) = 0
    BY EmptySeq DEF Init
  <2> QED
    BY <2>1 DEF Init, HandlerInv, EventsReachRegistered, RegisteredIsAlive
<1>2. TypeOK /\ CalmInv /\ OutsideWhenClosing /\ HandlerInv /\ [Next]_vars
        => HandlerInv'
  <2> SUFFICES ASSUME TypeOK, CalmInv, OutsideWhenClosing, HandlerInv,
                      [Next]_vars
               PROVE  HandlerInv'
    OBVIOUS
  <2>0. /\ InPlace
        /\ EventsReachRegistered
        /\ RegisteredIsAlive
    BY DEF CalmInv, HandlerInv
  <2>1. ASSUME UNCHANGED <<stack, m_eventHandling, handlerLife>>
        PROVE  HandlerInv'
    BY <2>0, <2>1 DEF HandlerInv, EventsReachRegistered, RegisteredIsAlive
  <2>2. ASSUME UNCHANGED handlerVars PROVE RegisteredIsAlive'
    BY <2>0, <2>2 DEF RegisteredIsAlive, handlerVars
  <2>3. ASSUME NEW t \in Thread, NEW k \in Key, Delete(t, k)
        PROVE  HandlerInv'
    <3>1. /\ Removing(k) \in Frame
          /\ Removing(k).at # "event"
          /\ Push(t, Removing(k))
          /\ UNCHANGED m_eventHandling
          /\ UNCHANGED handlerVars
      BY <2>3, PlainFrames DEF Delete, handlerVars
    <3> QED
      BY <2>0, <2>2, <3>1, PushEvents DEF HandlerInv
  <2>4. ASSUME NEW t \in Thread, Event(t)
        PROVE  HandlerInv'
    <3>1. m_eventHandling \in Handler
      BY <2>4 DEF Event, TypeOK
    <3>2. /\ OnEvent(m_eventHandling) \in Frame
          /\ OnEvent(m_eventHandling).handler = m_eventHandling
          /\ Push(t, OnEvent(m_eventHandling))
          /\ UNCHANGED m_eventHandling
          /\ UNCHANGED handlerVars
      BY <2>4, <3>1, PlainFrames DEF Event, OnEvent, handlerVars
    <3> QED
      BY <2>0, <2>2, <3>1, <3>2, PushEvents DEF HandlerInv
  <2>5. ASSUME NEW t \in Thread,
               EventReturns(t) \/ PendingReturns(t) \/ Removed(t)
        PROVE  HandlerInv'
    <3>1. /\ Pop(t)
          /\ UNCHANGED m_eventHandling
          /\ UNCHANGED handlerVars
          /\ stack[t] # <<>>
      BY <2>5 DEF EventReturns, PendingReturns, Removed, handlerVars, At
    <3> QED
      BY <2>0, <2>2, <3>1, PopEvents DEF HandlerInv
  <2>6. ASSUME NEW t \in Thread, IoProcess(t) \/ IsIoPending(t)
        PROVE  HandlerInv'
    <3>1. PICK at \in {"checked", "pending"} : Push(t, Plain(at))
      BY <2>6 DEF IoProcess, IsIoPending
    <3>2. /\ Plain(at) \in Frame
          /\ Plain(at).at # "event"
          /\ UNCHANGED m_eventHandling
          /\ UNCHANGED handlerVars
      BY <2>6, PlainFrames DEF IoProcess, IsIoPending, handlerVars
    <3> QED
      BY <2>0, <2>2, <3>1, <3>2, PushEvents DEF HandlerInv
  <2>7. ASSUME NEW t \in Thread, stack[t] # <<>>, NEW to, Plain(to) \in Frame,
               to # "event", Continue(t, to), UNCHANGED handlerVars
        PROVE  HandlerInv'
    <3>1. EventsReachRegistered'
      BY <2>0, <2>7, ContinueEvents DEF handlerVars
    <3> QED  BY <2>2, <2>7, <3>1 DEF HandlerInv
  <2>8. ASSUME NEW t \in Thread,
               EnterIo(t) \/ WaitOver(t) \/ DeleteResourceManager(t)
                   \/ StopPersist(t) \/ FreeContext(t)
        PROVE  HandlerInv'
    <3>1. /\ Plain("in") \in Frame
          /\ Plain("deleting") \in Frame
          /\ Plain("stopping") \in Frame
          /\ Plain("freeing") \in Frame
      BY PlainFrames
    <3> QED
      BY <2>7, <2>8, <3>1
      DEF EnterIo, WaitOver, DeleteResourceManager, StopPersist, FreeContext,
          At
  <2>9. ASSUME NEW t \in Thread, LeaveIo(t)
        PROVE  HandlerInv'
    <3>1. /\ Pop(t) /\ stack[t] # <<>>
          /\ UNCHANGED m_eventHandling
          /\ UNCHANGED handlerVars
      BY <2>9 DEF LeaveIo, At, handlerVars
    <3> QED
      BY <2>0, <2>2, <3>1, PopEvents DEF HandlerInv
  <2>10. ASSUME NEW t \in Thread, Destroy(t)
         PROVE  HandlerInv'
    <3>1. /\ Plain("waiting") \in Frame
          /\ Plain("waiting").at # "event"
          /\ Push(t, Plain("waiting"))
          /\ UNCHANGED m_eventHandling
          /\ UNCHANGED handlerVars
      BY <2>10, PlainFrames DEF Destroy, handlerVars
    <3> QED
      BY <2>0, <2>2, <3>1, PushEvents DEF HandlerInv
  <2>11. ASSUME NEW t \in Thread, ContextFreed(t)
         PROVE  HandlerInv'
    <3>1. At(t, "freeing") /\ Pop(t) /\ m_eventHandling' = NoHandler
      BY <2>11 DEF ContextFreed
    <3>2. \A u \in Thread : Len(stack'[u]) = 0
      BY <3>1, LastOut
    <3> QED
      BY <3>1, <3>2 DEF HandlerInv, EventsReachRegistered, RegisteredIsAlive
  <2>12. ASSUME NEW t \in Thread, NEW h \in Handler \cup {NoHandler},
                RegisterEventHandling(t, h)
         PROVE  HandlerInv'
    <3>1. /\ t \in IoThread /\ stack[t] = <<>> /\ context = "open"
          /\ UNCHANGED stack
      BY <2>12 DEF RegisterEventHandling, Calls, KeepsHandler
    <3>2. \A u \in Thread : stack[u] = <<>>
      <4>1. \A u \in Thread : ~Destroys(u)
        BY <3>1 DEF CalmInv, OneDestroys
      <4> QED
        BY <3>1, <4>1 DEF OutsideWhenClosing, Disciplined
    <3>3. \A u \in Thread : Len(stack'[u]) = 0
      BY <3>1, <3>2, EmptySeq
    <3>4. RegisteredIsAlive'
      BY <2>12, ConstantsAssumption
      DEF RegisterEventHandling, RegisteredIsAlive, HandlerDeleted, TypeOK
    <3> QED
      BY <3>3, <3>4 DEF HandlerInv, EventsReachRegistered
  <2>13. ASSUME NEW t \in Thread,
                \/ \E k \in Key, s \in Session :
                      AddSession(t, k, s) \/ AddEndPoint(t, k, s)
                \/ EnablePersist(t) \/ DisablePersist(t)
                \/ DeleteSession(t) \/ SessionDeleted(t)
         PROVE  HandlerInv'
    BY <2>1, <2>13
    DEF AddSession, AddEndPoint, EnablePersist, DisablePersist,
        DeleteSession, SessionDeleted, handlerVars
  <2>14. CASE UNCHANGED vars
    BY <2>1, <2>14 DEF vars, handlerVars
  <2> QED
    BY <2>3, <2>4, <2>5, <2>6, <2>8, <2>9, <2>10, <2>11, <2>12, <2>13, <2>14
    DEF Next, Application, Library, ContextOperations,
        ContextClientOperations, ContextServerOperations, RemoveSession,
        RemoveEndPoint
<1>3. TypeOK /\ HandlerInv => HandlerAlive
  <2> SUFFICES ASSUME TypeOK, HandlerInv, NEW t \in Thread,
                      NEW i \in 1..Len(stack[t]), stack[t][i].at = "event"
               PROVE  handlerLife[stack[t][i].handler] = "registered"
    BY DEF HandlerAlive
  <2>1. stack[t][i].handler = m_eventHandling /\ m_eventHandling \in Handler
    BY DEF HandlerInv, EventsReachRegistered
  <2> QED
    BY <2>1, ConstantsAssumption DEF HandlerInv, RegisteredIsAlive
<1>4. QED
  BY <1>1, <1>2, <1>3, TypeCorrect, Calm, Outside, PTL DEF Spec
==============================================================================
