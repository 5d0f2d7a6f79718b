---------------------------- MODULE LogLockProofs ----------------------------
(***************************************************************************)
(* Theorems about LogLock, for any threads, handlers, levels and number of *)
(* calls: types, the one holder of the mutex, the handler that a call of   *)
(* Logging runs undisturbed, whatever the application calls from it and    *)
(* whatever libcoap logs meanwhile, and calls that do not block each other *)
(* when the application calls nothing of Log from its handler.             *)
(***************************************************************************)
EXTENDS LogLock, SequenceTheorems, TLAPS

Frame == Call \cup InHandler

(* A call that holds the mutex, by its own account.                        *)
Inside(frame) == frame.at \in {"locked", "assigning", "done"}

(* What may be right below a handler: another one, or its call of Logging. *)
Runs(frame) ==
    \/ frame.op = "handler"
    \/ frame.op = "Logging" /\ frame.at = "locked"

(* A handler that something is below of runs in a handler or in Logging.   *)
HandlersInLogging ==
    \A t \in Thread : \A i \in 1..(Len(stack[t]) - 1) :
        stack[t][i].op = "handler" => Runs(stack[t][i + 1])

(* One call holds the mutex, and logMutex says in which thread.            *)
OneInside ==
    \A t \in Thread : \A i \in 1..Len(stack[t]) :
        Inside(stack[t][i]) =>
            /\ logMutex = t
            /\ \A j \in 1..Len(stack[t]) : Inside(stack[t][j]) => j = i

Frames == TypeOK /\ HandlersInLogging /\ OneInside

------------------------------------------------------------------------------
(* Frames and stacks.                                                      *)

(* A call that goes on is the same call at another stage.                  *)
LEMMA CallUpdate ==
    ASSUME NEW f \in Call, NEW a \in Stage
    PROVE  /\ [f EXCEPT !.at = a] \in Call
           /\ [f EXCEPT !.at = a].at = a
           /\ [f EXCEPT !.at = a].op = f.op
           /\ f.op \in Op
           /\ f.op = "SetLogHandler" =>
                 /\ f.function \in Function \cup {NoFunction}
                 /\ [f EXCEPT !.at = a].function = f.function
           /\ f.op \in {"Logging", "SetLevel"} =>
                 /\ f.level \in Level
                 /\ [f EXCEPT !.at = a].level = f.level
BY DEF Call, Op

(* A frame is a call or a handler, and tells which.                        *)
LEMMA FrameKinds ==
    ASSUME NEW f \in Frame
    PROVE  /\ f.op = "handler" => f \in InHandler /\ ~Inside(f)
           /\ f.op # "handler" => f \in Call
           /\ f.at # "running" => f \in Call
           /\ f.at = "waiting" => ~Inside(f)
BY DEF Frame, Call, InHandler, Inside, Stage

(* What TypeOK says of one thread's stack.                                 *)
LEMMA StackType ==
    ASSUME TypeOK, NEW t \in Thread
    PROVE  /\ stack[t] \in Seq(Frame)
           /\ Len(stack[t]) \in Nat
           /\ \A i \in 1..Len(stack[t]) : stack[t][i] \in Frame
           /\ stack[t] # <<>> => /\ Len(stack[t]) \in Nat \ {0}
                                 /\ Top(t) = stack[t][1]
                                 /\ Top(t) \in Frame
                                 /\ Tail(stack[t]) \in Seq(Frame)
                                 /\ Len(Tail(stack[t])) = Len(stack[t]) - 1
                                 /\ \A i \in 1..(Len(stack[t]) - 1) :
                                       Tail(stack[t])[i] = stack[t][i + 1]
           /\ Len(stack[t]) = 0 => stack[t] = <<>>
<1> DEFINE s == stack[t]
<1>1. s \in Seq(Frame)
  BY DEF TypeOK, Frame
<1> HIDE DEF s
<1>2. Len(s) \in Nat /\ \A i \in 1..Len(s) : s[i] \in Frame
  BY <1>1
<1>3. Len(s) = 0 <=> s = <<>>
  BY <1>1, EmptySeq
<1>4. ASSUME s # <<>>
      PROVE  /\ Head(s) = s[1]
             /\ Tail(s) \in Seq(Frame)
             /\ Len(Tail(s)) = Len(s) - 1
             /\ \A i \in 1..Len(Tail(s)) : Tail(s)[i] = s[i + 1]
  <2>1. Head(s) = s[1]
    BY <1>1, <1>4
  <2>2. QED
    BY <1>1, <1>4, <2>1, HeadTailProperties
<1>5. s # <<>> => Len(s) \in Nat \ {0} /\ s[1] \in Frame
  BY <1>2, <1>3
<1>6. QED
  BY <1>1, <1>2, <1>3, <1>4, <1>5 DEF s, Top

(* A frame over a sequence of frames.                                      *)
LEMMA Over ==
    ASSUME NEW f \in Frame, NEW s \in Seq(Frame)
    PROVE  /\ <<f>> \o s \in Seq(Frame)
           /\ Len(<<f>> \o s) = Len(s) + 1
           /\ (<<f>> \o s)[1] = f
           /\ \A i \in 2..(Len(s) + 1) : (<<f>> \o s)[i] = s[i - 1]
<1>1. <<f>> \in Seq(Frame) /\ Len(<<f>>) = 1 /\ <<f>>[1] = f
  OBVIOUS
<1>2. /\ <<f>> \o s \in Seq(Frame)
      /\ Len(<<f>> \o s) = 1 + Len(s)
      /\ \A i \in 1..(1 + Len(s)) :
            (<<f>> \o s)[i] = IF i <= 1 THEN <<f>>[i] ELSE s[i - 1]
  BY <1>1, ConcatProperties
<1>3. Len(s) \in Nat
  BY LenProperties
<1>4. QED
  BY <1>1, <1>2, <1>3

(* A frame is put on top.                                                  *)
LEMMA PushStack ==
    ASSUME TypeOK, NEW t \in Thread, NEW f \in Frame, Push(t, f)
    PROVE  /\ stack' \in [Thread -> Seq(Frame)]
           /\ \A u \in Thread \ {t} : stack'[u] = stack[u]
           /\ Len(stack'[t]) = Len(stack[t]) + 1
           /\ stack'[t][1] = f
           /\ \A i \in 2..(Len(stack[t]) + 1) :
                 stack'[t][i] = stack[t][i - 1]
<1> DEFINE s == stack[t]
           p == <<f>> \o s
<1>1. s \in Seq(Frame)
  BY StackType
<1>2. stack' = [stack EXCEPT ![t] = p] /\ stack \in [Thread -> Seq(Frame)]
  BY DEF Push, TypeOK, Frame
<1> HIDE DEF s
<1>3. /\ p \in Seq(Frame)
      /\ Len(p) = Len(s) + 1
      /\ p[1] = f
      /\ \A i \in 2..(Len(s) + 1) : p[i] = s[i - 1]
  BY <1>1, Over
<1> HIDE DEF p
<1>4. QED
  BY <1>2, <1>3 DEF s

(* The top frame goes.                                                     *)
LEMMA PopStack ==
    ASSUME TypeOK, NEW t \in Thread, stack[t] # <<>>,
           stack' = [stack EXCEPT ![t] = Tail(@)]
    PROVE  /\ stack' \in [Thread -> Seq(Frame)]
           /\ \A u \in Thread \ {t} : stack'[u] = stack[u]
           /\ Len(stack'[t]) = Len(stack[t]) - 1
           /\ \A i \in 1..(Len(stack[t]) - 1) :
                 stack'[t][i] = stack[t][i + 1]
<1>1. stack' = [stack EXCEPT ![t] = Tail(stack[t])]
  OBVIOUS
<1>2. stack \in [Thread -> Seq(Frame)]
  BY DEF TypeOK, Frame
<1>3. QED
  BY <1>1, <1>2, StackType

(* The top frame goes on.                                                  *)
LEMMA GoStack ==
    ASSUME TypeOK, NEW t \in Thread, stack[t] # <<>>, NEW a \in Stage,
           Top(t) \in Call, Go(t, a)
    PROVE  /\ stack' \in [Thread -> Seq(Frame)]
           /\ \A u \in Thread \ {t} : stack'[u] = stack[u]
           /\ Len(stack'[t]) = Len(stack[t])
           /\ stack'[t][1] = [stack[t][1] EXCEPT !.at = a]
           /\ \A i \in 2..Len(stack[t]) : stack'[t][i] = stack[t][i]
<1> DEFINE f == [Head(stack[t]) EXCEPT !.at = a]
           r == Tail(stack[t])
           p == <<f>> \o r
<1>1. stack' = [stack EXCEPT ![t] = p] /\ stack \in [Thread -> Seq(Frame)]
  BY DEF Go, TypeOK, Frame
<1>2. f \in Frame /\ f = [stack[t][1] EXCEPT !.at = a]
  BY CallUpdate, StackType DEF Top, Frame
<1>3. /\ r \in Seq(Frame)
      /\ Len(r) = Len(stack[t]) - 1
      /\ Len(stack[t]) \in Nat \ {0}
      /\ \A i \in 1..(Len(stack[t]) - 1) : r[i] = stack[t][i + 1]
  BY StackType
<1> HIDE DEF f, r
<1>4. /\ p \in Seq(Frame)
      /\ Len(p) = Len(r) + 1
      /\ p[1] = f
      /\ \A i \in 2..(Len(r) + 1) : p[i] = r[i - 1]
  BY <1>2, <1>3, Over
<1>5. \A i \in 2..Len(stack[t]) : p[i] = stack[t][i]
  <2>1. SUFFICES ASSUME NEW i \in 2..Len(stack[t])
                 PROVE  p[i] = stack[t][i]
    OBVIOUS
  <2>2. i \in 2..(Len(r) + 1) /\ i - 1 \in 1..(Len(stack[t]) - 1)
        /\ (i - 1) + 1 = i
    BY <1>3
  <2>3. r[i - 1] = stack[t][(i - 1) + 1]
    BY <1>3, <2>2
  <2>4. QED
    BY <1>4, <2>2, <2>3
<1> HIDE DEF p
<1>6. QED
  BY <1>1, <1>2, <1>3, <1>4, <1>5

(* A handler that returns is off the stack, and the call of Logging below  *)
(* it, if there is one, has only to let the mutex go.                      *)
LEMMA ReturnStack ==
    ASSUME TypeOK, HandlersInLogging, NEW t \in Thread, HandlerReturns(t)
    PROVE  /\ stack' \in [Thread -> Seq(Frame)]
           /\ \A u \in Thread \ {t} : stack'[u] = stack[u]
           /\ stack[t] # <<>>
           /\ Len(stack'[t]) = Len(stack[t]) - 1
           /\ Len(stack[t]) > 1 =>
                 IF stack[t][2].op = "handler"
                 THEN stack'[t][1] = stack[t][2]
                 ELSE /\ stack[t][2] \in Call /\ Inside(stack[t][2])
                      /\ stack[t][2].op = "Logging"
                      /\ stack'[t][1] = [stack[t][2] EXCEPT !.at = "done"]
           /\ \A i \in 2..(Len(stack[t]) - 1) :
                 stack'[t][i] = stack[t][i + 1]
<1> DEFINE s == stack[t]
           f == [s[2] EXCEPT !.at = "done"]
           r == Tail(Tail(s))
<1>1. stack \in [Thread -> Seq(Frame)]
  BY DEF TypeOK, Frame
<1>2. /\ s \in Seq(Frame) /\ s # <<>> /\ Len(s) \in Nat \ {0}
      /\ s[1].op = "handler"
      /\ Tail(s) \in Seq(Frame) /\ Len(Tail(s)) = Len(s) - 1
      /\ \A i \in 1..(Len(s) - 1) : Tail(s)[i] = s[i + 1]
  BY StackType DEF HandlerReturns, At
<1>3. ASSUME Len(s) > 1
      PROVE  s[2] \in Frame /\ Runs(s[2])
  <2>1. 1 \in 1..(Len(s) - 1) /\ 2 \in 1..Len(s) /\ 1 + 1 = 2
    <3> HIDE DEF s
    <3>1. QED
      BY <1>2, <1>3
  <2>2. Runs(s[1 + 1]) /\ s[2] \in Frame
    BY <1>2, <2>1 DEF HandlersInLogging
  <2>3. QED
    BY <2>1, <2>2
<1>4. CASE ~RunsUnder(s, 1)
  <2>1. stack' = [stack EXCEPT ![t] = Tail(@)]
    BY <1>4 DEF HandlerReturns
  <2>2. /\ stack' \in [Thread -> Seq(Frame)]
        /\ \A u \in Thread \ {t} : stack'[u] = stack[u]
        /\ Len(stack'[t]) = Len(s) - 1
        /\ \A i \in 1..(Len(s) - 1) : stack'[t][i] = s[i + 1]
    BY <1>2, <2>1, PopStack
  <2> DEFINE p == stack'[t]
  <2> HIDE DEF s, p
  <2>3. ASSUME Len(s) > 1
        PROVE  s[2].op = "handler" /\ p[1] = s[2]
    <3>1. 1 + 1 = 2 /\ 1 < Len(s) /\ 1 \in 1..(Len(s) - 1)
      BY <1>2, <2>3
    <3>2. s[2].op # "Logging"
      BY <1>2, <1>4, <3>1 DEF RunsUnder
    <3>3. s[2].op = "handler"
      BY <1>3, <2>3, <3>2 DEF Runs
    <3>4. p[1] = s[1 + 1]
      BY <2>2, <3>1 DEF p
    <3>5. QED
      BY <3>1, <3>3, <3>4
  <2>4. \A i \in 2..(Len(s) - 1) : p[i] = s[i + 1]
    <3>1. \A i \in 1..(Len(s) - 1) : p[i] = s[i + 1]
      BY <2>2 DEF p
    <3>2. \A i \in 2..(Len(s) - 1) : i \in 1..(Len(s) - 1)
      BY <1>2
    <3>3. QED
      BY <3>1, <3>2
  <2>5. QED
    BY <1>2, <2>2, <2>3, <2>4 DEF s, p
<1>5. CASE RunsUnder(s, 1)
  <2>1. Len(s) > 1 /\ s[2].op = "Logging"
    <3> HIDE DEF s
    <3>1. 1 + 1 = 2
      OBVIOUS
    <3>2. QED
      BY <1>2, <1>5, <3>1 DEF RunsUnder
  <2>2. Tail(s) # <<>>
    <3> HIDE DEF s
    <3>1. Len(Tail(s)) # 0
      BY <1>2, <2>1
    <3>2. Len(<<>>) = 0
      BY EmptySeq
    <3>3. QED
      BY <3>1, <3>2
  <2>3. s[2] \in Frame /\ s[2].at = "locked"
    BY <1>3, <2>1 DEF Runs
  <2>4. s[2] \in Call /\ Inside(s[2])
    BY <2>3, FrameKinds DEF Inside
  <2>5. f \in Frame
    BY <2>4, CallUpdate DEF Frame, Stage
  <2>6. /\ r \in Seq(Frame)
        /\ Len(r) = Len(Tail(s)) - 1
        /\ \A i \in 1..Len(r) : r[i] = Tail(s)[i + 1]
    <3> HIDE DEF s
    <3>1. QED
      BY <1>2, <2>2, HeadTailProperties
  <2>7. stack' = [stack EXCEPT ![t] = <<f>> \o r]
    BY <1>5 DEF HandlerReturns
  <2> DEFINE p == <<f>> \o r
  <2> HIDE DEF f, r
  <2>8. /\ p \in Seq(Frame)
        /\ Len(p) = Len(r) + 1
        /\ p[1] = f
        /\ \A i \in 2..(Len(r) + 1) : p[i] = r[i - 1]
    BY <2>5, <2>6, Over
  <2>9. \A i \in 2..(Len(s) - 1) : p[i] = s[i + 1]
    <3>1. SUFFICES ASSUME NEW i \in 2..(Len(s) - 1)
                   PROVE  p[i] = s[i + 1]
      OBVIOUS
    <3> HIDE DEF s
    <3>2. /\ i \in 2..(Len(r) + 1) /\ i - 1 \in 1..Len(r)
          /\ (i - 1) + 1 = i /\ i \in 1..(Len(s) - 1)
      BY <1>2, <2>6
    <3>3. r[i - 1] = Tail(s)[(i - 1) + 1]
      BY <2>6, <3>2
    <3>4. QED
      BY <1>2, <2>8, <3>2, <3>3
  <2> HIDE DEF p
  <2>10. stack' \in [Thread -> Seq(Frame)] /\ stack'[t] = p
         /\ \A u \in Thread \ {t} : stack'[u] = stack[u]
    BY <1>1, <2>7, <2>8 DEF p
  <2>11. Len(p) = Len(s) - 1
    BY <1>2, <2>6, <2>8
  <2>12. QED
    BY <1>2, <2>1, <2>4, <2>8, <2>9, <2>10, <2>11 DEF f
<1>6. QED
  BY <1>4, <1>5

(* The same, by what is on the stack afterwards.                           *)
LEMMA ReturnedStack ==
    ASSUME Frames, NEW t \in Thread, HandlerReturns(t)
    PROVE  /\ \A u \in Thread \ {t} : stack'[u] = stack[u]
           /\ Len(stack[t]) \in Nat \ {0}
           /\ Len(stack'[t]) = Len(stack[t]) - 1
           /\ \A i \in 1..Len(stack'[t]) :
                 /\ i + 1 \in 1..Len(stack[t])
                 /\ stack'[t][i].op = stack[t][i + 1].op
                 /\ Inside(stack'[t][i]) => Inside(stack[t][i + 1])
                 /\ stack'[t][i].op = "handler" =>
                       stack'[t][i] = stack[t][i + 1]
<1> DEFINE s == stack[t]
           p == stack'[t]
<1>1. /\ \A u \in Thread \ {t} : stack'[u] = stack[u]
      /\ Len(s) \in Nat \ {0}
      /\ Len(p) = Len(s) - 1
      /\ Len(s) > 1 =>
            IF s[2].op = "handler" THEN p[1] = s[2]
            ELSE /\ s[2] \in Call /\ Inside(s[2])
                 /\ s[2].op = "Logging"
                 /\ p[1] = [s[2] EXCEPT !.at = "done"]
      /\ \A i \in 2..(Len(s) - 1) : p[i] = s[i + 1]
  BY ReturnStack, StackType DEF Frames
<1> HIDE DEF s, p
<1>2. ASSUME NEW i \in 1..Len(p)
      PROVE  /\ i + 1 \in 1..Len(s)
             /\ p[i].op = s[i + 1].op
             /\ Inside(p[i]) => Inside(s[i + 1])
             /\ p[i].op = "handler" => p[i] = s[i + 1]
  <2>1. i + 1 \in 1..Len(s) /\ Len(s) > 1
    BY <1>1
  <2>2. CASE i = 1
    <3>1. i + 1 = 2
      BY <2>2
    <3>2. CASE s[2].op = "handler"
      BY <1>1, <2>1, <2>2, <3>1, <3>2
    <3>3. CASE s[2].op # "handler"
      <4>1. /\ s[2] \in Call /\ Inside(s[2])
            /\ p[1] = [s[2] EXCEPT !.at = "done"]
        BY <1>1, <2>1, <3>3
      <4>2. p[1].op = s[2].op
        <5>1. "done" \in Stage
          BY DEF Stage
        <5>2. QED
          BY <4>1, <5>1, CallUpdate
      <4>3. QED
        BY <2>1, <2>2, <3>1, <3>3, <4>1, <4>2
    <3>4. QED
      BY <3>2, <3>3
  <2>3. CASE i # 1
    <3>1. i \in 2..(Len(s) - 1)
      BY <1>1, <2>3
    <3>2. QED
      BY <1>1, <2>1, <3>1
  <2>4. QED
    BY <2>2, <2>3
<1>3. QED
  BY <1>1, <1>2 DEF s, p

------------------------------------------------------------------------------
(* The mutex.                                                              *)

(* One thread's frames change.                                             *)
LEMMA OneThreadChanges ==
    ASSUME HandlersInLogging, NEW t \in Thread,
           \A u \in Thread \ {t} : stack'[u] = stack[u],
           \A i \in 1..(Len(stack'[t]) - 1) :
               stack'[t][i].op = "handler" =>
                   Runs(stack'[t][i + 1])
    PROVE  HandlersInLogging'
<1> SUFFICES ASSUME NEW u \in Thread, NEW i \in 1..(Len(stack'[u]) - 1),
                    stack'[u][i].op = "handler"
             PROVE  Runs(stack'[u][i + 1])
  BY DEF HandlersInLogging
<1>1. CASE u = t
  BY <1>1
<1>2. CASE u # t
  BY <1>2 DEF HandlersInLogging
<1>3. QED
  BY <1>1, <1>2

(* The same of the calls that hold the mutex.                              *)
LEMMA OneThreadInside ==
    ASSUME OneInside, NEW t \in Thread,
           \A u \in Thread \ {t} : stack'[u] = stack[u],
           logMutex' = logMutex,
           \A i \in 1..Len(stack'[t]) :
               Inside(stack'[t][i]) =>
                   /\ logMutex' = t
                   /\ \A j \in 1..Len(stack'[t]) :
                         Inside(stack'[t][j]) => j = i
    PROVE  OneInside'
<1> SUFFICES ASSUME NEW u \in Thread, NEW i \in 1..Len(stack'[u]),
                    Inside(stack'[u][i])
             PROVE  /\ logMutex' = u
                    /\ \A j \in 1..Len(stack'[u]) :
                          Inside(stack'[u][j]) => j = i
  BY DEF OneInside
<1>1. CASE u = t
  BY <1>1
<1>2. CASE u # t
  BY <1>2 DEF OneInside
<1>3. QED
  BY <1>1, <1>2

(* A call that waits for the mutex, or a handler, may come on top.         *)
LEMMA PushFrames ==
    ASSUME Frames, NEW t \in Thread, NEW f \in Frame, Push(t, f),
           UNCHANGED logMutex, ~Inside(f),
           f.op = "handler" =>
               \/ stack[t] = <<>>
               \/ Runs(Top(t))
    PROVE  HandlersInLogging' /\ OneInside'
<1> DEFINE s == stack[t]
           p == stack'[t]
<1>1. /\ \A u \in Thread \ {t} : stack'[u] = stack[u]
      /\ Len(s) \in Nat
      /\ Len(p) = Len(s) + 1
      /\ p[1] = f
      /\ \A i \in 2..(Len(s) + 1) : p[i] = s[i - 1]
  BY PushStack, StackType DEF Frames
<1>2. s # <<>> => Top(t) = s[1] /\ Len(s) # 0
  BY StackType DEF Frames
<1>3. s = <<>> => Len(s) = 0
  BY EmptySeq
<1> HIDE DEF s, p
<1>4. ASSUME NEW i \in 1..(Len(p) - 1), p[i].op = "handler"
      PROVE  Runs(p[i + 1])
  <2>1. p[i + 1] = s[(i + 1) - 1] /\ (i + 1) - 1 = i
    BY <1>1
  <2>2. CASE i = 1
    BY <1>1, <1>2, <1>3, <1>4, <2>1, <2>2 DEF s
  <2>3. CASE i # 1
    <3>1. /\ i \in 2..(Len(s) + 1) /\ i - 1 \in 1..(Len(s) - 1)
          /\ (i - 1) + 1 = i
      BY <1>1, <2>3
    <3>2. s[i - 1].op = "handler"
      BY <1>1, <1>4, <3>1
    <3>3. Runs(s[(i - 1) + 1])
      BY <3>1, <3>2 DEF Frames, HandlersInLogging, s
    <3>4. QED
      BY <2>1, <3>1, <3>3
  <2>4. QED
    BY <2>2, <2>3
<1>5. ASSUME NEW i \in 1..Len(p), Inside(p[i])
      PROVE  /\ i \in 2..(Len(s) + 1)
             /\ i - 1 \in 1..Len(s)
             /\ Inside(s[i - 1])
  BY <1>1, <1>5
<1>6. HandlersInLogging'
  BY <1>1, <1>4, OneThreadChanges DEF Frames, p
<1>7. OneInside'
  <2>1. ASSUME NEW i \in 1..Len(p), Inside(p[i])
        PROVE  /\ logMutex = t
               /\ \A j \in 1..Len(p) : Inside(p[j]) => j = i
    <3>1. logMutex = t
      BY <1>5, <2>1 DEF Frames, OneInside, s
    <3>2. ASSUME NEW j \in 1..Len(p), Inside(p[j])
          PROVE  j = i
      <4>1. i - 1 = j - 1
        BY <1>5, <2>1, <3>2 DEF Frames, OneInside, s
      <4>2. QED
        BY <1>1, <4>1
    <3>3. QED
      BY <3>1, <3>2
  <2>2. QED
    BY <1>1, <2>1, OneThreadInside DEF Frames, p
<1>8. QED
  BY <1>6, <1>7

(* A call takes the mutex that is free, or goes on with it.                *)
LEMMA GoFrames ==
    ASSUME Frames, NEW t \in Thread, stack[t] # <<>>, Top(t) \in Call,
           NEW a \in {"locked", "assigning"}, Go(t, a), logMutex' = t,
           logMutex = Nobody \/ Inside(Top(t))
    PROVE  HandlersInLogging' /\ OneInside'
<1> DEFINE s == stack[t]
           p == stack'[t]
<1>1. /\ \A u \in Thread \ {t} : stack'[u] = stack[u]
      /\ Len(s) \in Nat \ {0}
      /\ Len(p) = Len(s)
      /\ p[1] = [s[1] EXCEPT !.at = a]
      /\ \A i \in 2..Len(s) : p[i] = s[i]
      /\ Top(t) = s[1]
  BY GoStack, StackType DEF Frames, Stage
<1>2. p[1].op # "handler"
  BY <1>1, CallUpdate DEF Op, Stage
<1> HIDE DEF s, p
<1>3. logMutex \in {Nobody, t}
  <2>1. 1 \in 1..Len(s)
    BY <1>1
  <2>2. QED
    BY <1>1, <2>1 DEF Frames, OneInside, s
<1>4. \A u \in Thread \ {t} : \A i \in 1..Len(stack[u]) : ~Inside(stack[u][i])
  BY <1>3, ConstantsAssumption DEF Frames, OneInside
<1>5. \A i \in 2..Len(s) : ~Inside(s[i])
  <2>1. SUFFICES ASSUME NEW i \in 2..Len(s), Inside(s[i])
                 PROVE  FALSE
    OBVIOUS
  <2>2. i \in 1..Len(s) /\ 1 \in 1..Len(s) /\ i # 1
    BY <1>1
  <2>3. logMutex = t /\ \A j \in 1..Len(s) : Inside(s[j]) => j = i
    BY <2>1, <2>2 DEF Frames, OneInside, s
  <2>4. QED
    BY <1>1, <2>2, <2>3, ConstantsAssumption
<1>6. HandlersInLogging'
  <2>1. ASSUME NEW i \in 1..(Len(p) - 1), p[i].op = "handler"
        PROVE  Runs(p[i + 1])
    <3>1. i \in 2..Len(s) /\ i + 1 \in 2..Len(s) /\ i \in 1..(Len(s) - 1)
      <4>1. i # 1
        BY <1>2, <2>1
      <4>2. QED
        BY <1>1, <4>1
    <3>2. p[i] = s[i] /\ p[i + 1] = s[i + 1]
      BY <1>1, <3>1
    <3>3. Runs(s[i + 1])
      BY <2>1, <3>1, <3>2 DEF Frames, HandlersInLogging, s
    <3>4. QED
      BY <3>2, <3>3
  <2>2. \A u \in Thread \ {t} : \A i \in 1..(Len(stack'[u]) - 1) :
            stack'[u][i].op = "handler" =>
               Runs(stack'[u][i + 1])
    BY <1>1 DEF Frames, HandlersInLogging
  <2>3. QED
    BY <2>1, <2>2 DEF HandlersInLogging, p
<1>7. OneInside'
  <2>1. ASSUME NEW i \in 1..Len(p), Inside(p[i])
        PROVE  i = 1
    BY <1>1, <1>5, <2>1
  <2>2. QED
    BY <1>1, <1>4, <2>1 DEF OneInside, p
<1>8. QED
  BY <1>6, <1>7

(* The holder leaves: nobody is inside.                                    *)
LEMMA LeaveFrames ==
    ASSUME Frames, NEW t \in Thread, stack[t] # <<>>, Inside(Top(t)), Leave(t)
    PROVE  /\ HandlersInLogging' /\ OneInside'
           /\ \A u \in Thread : \A i \in 1..Len(stack'[u]) :
                 ~Inside(stack'[u][i])
<1> DEFINE s == stack[t]
           p == stack'[t]
<1>1. /\ \A u \in Thread \ {t} : stack'[u] = stack[u]
      /\ Len(s) \in Nat \ {0}
      /\ Len(p) = Len(s) - 1
      /\ \A i \in 1..(Len(s) - 1) : p[i] = s[i + 1]
      /\ Top(t) = s[1]
  BY PopStack, StackType DEF Frames, Leave
<1> HIDE DEF s, p
<1>2. 1 \in 1..Len(s) /\ Inside(s[1])
  BY <1>1
<1>3. logMutex = t /\ \A j \in 1..Len(s) : Inside(s[j]) => j = 1
  BY <1>2 DEF Frames, OneInside, s
<1>4. \A u \in Thread \ {t} : \A i \in 1..Len(stack[u]) : ~Inside(stack[u][i])
  BY <1>3 DEF Frames, OneInside
<1>5. \A i \in 1..Len(p) :
         /\ i + 1 \in 1..Len(s) /\ i \in 1..(Len(s) - 1)
         /\ i + 1 # 1 /\ p[i] = s[i + 1]
  BY <1>1
<1>6. HandlersInLogging'
  <2>1. ASSUME NEW i \in 1..(Len(p) - 1), p[i].op = "handler"
        PROVE  Runs(p[i + 1])
    <3>1. /\ i \in 1..Len(p) /\ i + 1 \in 1..Len(p)
          /\ i + 1 \in 1..(Len(s) - 1)
      BY <1>1, <2>1
    <3>2. p[i] = s[i + 1] /\ p[i + 1] = s[(i + 1) + 1]
      BY <1>5, <3>1
    <3>3. Runs(s[(i + 1) + 1])
      BY <2>1, <3>1, <3>2 DEF Frames, HandlersInLogging, s
    <3>4. QED
      BY <3>2, <3>3
  <2>2. QED
    BY <1>1, <2>1, OneThreadChanges DEF Frames, p
<1>7. \A i \in 1..Len(p) : ~Inside(p[i])
  BY <1>3, <1>5
<1>8. \A u \in Thread : \A i \in 1..Len(stack'[u]) : ~Inside(stack'[u][i])
  BY <1>1, <1>4, <1>7 DEF p
<1>9. QED
  BY <1>6, <1>8 DEF OneInside

(* A handler returns to its call, which still holds the mutex.             *)
LEMMA ReturnFrames ==
    ASSUME Frames, NEW t \in Thread, HandlerReturns(t)
    PROVE  HandlersInLogging' /\ OneInside'
<1> DEFINE s == stack[t]
           p == stack'[t]
<1>1. /\ \A u \in Thread \ {t} : stack'[u] = stack[u]
      /\ Len(s) \in Nat \ {0}
      /\ Len(p) = Len(s) - 1
      /\ \A i \in 1..Len(p) :
            /\ i + 1 \in 1..Len(s)
            /\ Inside(p[i]) => Inside(s[i + 1])
            /\ p[i].op = "handler" => p[i] = s[i + 1]
      /\ UNCHANGED logMutex
  BY ReturnedStack DEF HandlerReturns
<1>2. \A i \in 2..(Len(s) - 1) : p[i] = s[i + 1]
  BY ReturnStack DEF Frames
<1> HIDE DEF s, p
<1>3. HandlersInLogging'
  <2>1. ASSUME NEW i \in 1..(Len(p) - 1), p[i].op = "handler"
        PROVE  Runs(p[i + 1])
    <3>1. /\ i \in 1..Len(p) /\ i + 1 \in 2..(Len(s) - 1)
          /\ i + 1 \in 1..(Len(s) - 1)
      BY <1>1, <2>1
    <3>2. s[i + 1].op = "handler" /\ p[i + 1] = s[(i + 1) + 1]
      BY <1>1, <1>2, <2>1, <3>1
    <3>3. Runs(s[(i + 1) + 1])
      BY <3>1, <3>2 DEF Frames, HandlersInLogging, s
    <3>4. QED
      BY <3>2, <3>3
  <2>2. QED
    BY <1>1, <2>1, OneThreadChanges DEF Frames, p
<1>4. OneInside'
  <2>1. ASSUME NEW i \in 1..Len(p), Inside(p[i])
        PROVE  /\ logMutex' = t
               /\ \A j \in 1..Len(p) : Inside(p[j]) => j = i
    <3>1. logMutex = t
      BY <1>1, <2>1 DEF Frames, OneInside, s
    <3>2. ASSUME NEW j \in 1..Len(p), Inside(p[j])
          PROVE  j = i
      <4>1. i + 1 = j + 1
        BY <1>1, <2>1, <3>2 DEF Frames, OneInside, s
      <4>2. QED
        BY <1>1, <4>1
    <3>3. QED
      BY <1>1, <3>1, <3>2
  <2>2. QED
    BY <1>1, <2>1, OneThreadInside DEF Frames, p
<1>5. QED
  BY <1>3, <1>4

------------------------------------------------------------------------------
(* Every step keeps the types and the mutex.                               *)

(* A call begins by waiting.                                               *)
LEMMA EnterFrames ==
    ASSUME Frames, NEW t \in Thread, NEW c \in Call, c.at = "waiting",
           Enter(t, c)
    PROVE  Frames'
<1>1. c \in Frame /\ ~Inside(c) /\ c.op # "handler"
  BY FrameKinds, CallUpdate DEF Frame, Op, Stage
<1>2. stack' \in [Thread -> Seq(Frame)]
  BY <1>1, PushStack DEF Frames, Enter
<1>3. TypeOK'
  <2>1. calls' \in 0..MaxCalls
    BY ConstantsAssumption DEF Enter, Frames, TypeOK
  <2>2. QED
    BY <1>2, <2>1 DEF Enter, Frames, TypeOK, Frame, settings
<1>4. HandlersInLogging' /\ OneInside'
  BY <1>1, PushFrames DEF Enter
<1>5. QED
  BY <1>3, <1>4 DEF Frames

(* The calls the application makes are calls.                              *)
LEMMA CallTypes ==
    ASSUME NEW f \in Function \cup {NoFunction}, NEW l \in Level
    PROVE  /\ [op |-> "SetLogHandler", at |-> "waiting", function |-> f]
                 \in Call
           /\ [op |-> "Logging", at |-> "waiting", level |-> l] \in Call
           /\ [op |-> "SetLevel", at |-> "waiting", level |-> l] \in Call
BY DEF Call, Stage

(* The handler's frame is one, and holds no mutex of its own.              *)
LEMMA HandledType ==
    ASSUME TypeOK, NEW l \in Level, Reaches(l)
    PROVE  /\ Handled(l) \in Frame
           /\ Handled(l).op = "handler"
           /\ ~Inside(Handled(l))
BY DEF TypeOK, Reaches, Handled, Frame, InHandler, Inside

(* The top frame of a thread that is in a function of Log.                 *)
LEMMA TopCall ==
    ASSUME TypeOK, NEW t \in Thread, stack[t] # <<>>,
           Top(t).at # "running"
    PROVE  /\ Top(t) \in Call
           /\ Top(t).op \in {"Logging", "SetLevel"} => Top(t).level \in Level
           /\ Top(t).op = "SetLogHandler" =>
                 Top(t).function \in Function \cup {NoFunction}
BY StackType, FrameKinds, CallUpdate DEF Stage

(* Every step keeps the frames.                                            *)
LEMMA FramesStep ==
    ASSUME Frames, [Next]_vars
    PROVE  Frames'
<1>1. TypeOK
  BY DEF Frames
<1>3. ASSUME NEW t \in Thread, Application(t)
      PROVE  Frames'
  <2>1. ASSUME NEW f \in Function \cup {NoFunction}, CallSetLogHandler(t, f)
        PROVE  Frames'
    <3>1. [op |-> "SetLogHandler", at |-> "waiting", function |-> f] \in Call
      BY DEF Call, Stage
    <3>2. QED
      BY <2>1, <3>1, EnterFrames DEF CallSetLogHandler
  <2>2. ASSUME NEW l \in Level, CallLogging(t, l)
        PROVE  Frames'
    BY <2>2, CallTypes, EnterFrames DEF CallLogging
  <2>3. ASSUME NEW l \in Level, CallSetLevel(t, l)
        PROVE  Frames'
    BY <2>3, CallTypes, EnterFrames DEF CallSetLevel
  <2>4. ASSUME CallGetLevel(t)
        PROVE  Frames'
    <3>1. [op |-> "GetLevel", at |-> "waiting"] \in Call
      BY DEF Call, Stage
    <3>2. QED
      BY <2>4, <3>1, EnterFrames DEF CallGetLevel
  <2>5. ASSUME NEW l \in Level, LibcoapLogs(t, l)
        PROVE  Frames'
    <3>1. Handled(l) \in Frame /\ ~Inside(Handled(l))
      BY <1>1, <2>5, HandledType DEF LibcoapLogs
    <3>2. stack' \in [Thread -> Seq(Frame)]
      BY <1>1, <2>5, <3>1, PushStack DEF LibcoapLogs
    <3>3. HandlersInLogging' /\ OneInside'
      <4>1. stack[t] = <<>> \/ Runs(Top(t))
        <5>1. stack[t] = <<>> \/ Top(t).op = "handler"
          BY <2>5 DEF LibcoapLogs, MayCall, At
        <5>2. QED
          BY <5>1 DEF Runs
      <4>2. QED
        BY <2>5, <3>1, <4>1, PushFrames DEF LibcoapLogs
    <3>4. calls' \in 0..MaxCalls
      BY <1>1, <2>5, ConstantsAssumption DEF LibcoapLogs, TypeOK
    <3>5. TypeOK'
      BY <1>1, <2>5, <3>2, <3>4 DEF LibcoapLogs, TypeOK, Frame, settings
    <3>6. QED
      BY <3>3, <3>5 DEF Frames
  <2>6. QED
    BY <1>3, <2>1, <2>2, <2>3, <2>4, <2>5 DEF Application
<1>4. ASSUME NEW t \in Thread, Step(t)
      PROVE  Frames'
  <2>1. CASE HandlerReturns(t)
    <3>1. HandlersInLogging' /\ OneInside'
      BY <2>1, ReturnFrames
    <3>2. stack' \in [Thread -> Seq(Frame)]
      BY <2>1, ReturnStack DEF Frames
    <3>3. TypeOK'
      BY <1>1, <2>1, <3>2 DEF HandlerReturns, TypeOK, Frame, settings
    <3>4. QED
      BY <3>1, <3>3 DEF Frames
  <2>2. CASE Lock(t)
    <3>1. /\ stack[t] # <<>> /\ Top(t) \in Call /\ logMutex = Nobody
          /\ Go(t, "locked") /\ logMutex' = t
      BY <1>1, <2>2, TopCall DEF Lock
    <3>2. HandlersInLogging' /\ OneInside'
      BY <3>1, GoFrames
    <3>3. stack' \in [Thread -> Seq(Frame)]
      BY <1>1, <3>1, GoStack DEF Stage
    <3>4. TypeOK'
      BY <1>1, <2>2, <3>3 DEF Lock, TypeOK, Frame, settings
    <3>5. QED
      BY <3>2, <3>4 DEF Frames
  <2>3. CASE Assign(t)
    <3>1. /\ stack[t] # <<>> /\ Top(t) \in Call /\ Inside(Top(t))
          /\ Go(t, "assigning") /\ logMutex' = logMutex
      BY <1>1, <2>3, TopCall DEF Assign, At, Inside
    <3>2. logMutex' = t
      BY <3>1, <1>1, StackType DEF Frames, OneInside
    <3>3. HandlersInLogging' /\ OneInside'
      BY <3>1, <3>2, GoFrames
    <3>4. stack' \in [Thread -> Seq(Frame)]
      BY <1>1, <3>1, GoStack DEF Stage
    <3>5. TypeOK'
      BY <1>1, <2>3, <3>4 DEF Assign, TypeOK, Frame
    <3>6. QED
      BY <3>3, <3>5 DEF Frames
  <2>4. ASSUME stack[t] # <<>>, Inside(Top(t)), Leave(t),
               UNCHANGED calls, registered' \in BOOLEAN,
               logHandler' \in Function \cup {NoFunction}, log_level' \in Level
        PROVE  Frames'
    <3>1. HandlersInLogging' /\ OneInside'
      BY <2>4, LeaveFrames
    <3>2. stack' \in [Thread -> Seq(Frame)]
      BY <1>1, <2>4, PopStack DEF Leave
    <3>3. TypeOK'
      BY <1>1, <2>4, <3>2 DEF Leave, TypeOK, Frame
    <3>4. QED
      BY <3>1, <3>3 DEF Frames
  <2>5. CASE SetLogHandler(t)
    <3>1. stack[t] # <<>> /\ Inside(Top(t))
          /\ Top(t).function \in Function \cup {NoFunction}
      BY <1>1, <2>5, TopCall DEF SetLogHandler, At, Inside
    <3>2. log_level' \in Level
      BY <1>1, <2>5 DEF SetLogHandler, TypeOK
    <3>3. QED
      BY <2>4, <2>5, <3>1, <3>2 DEF SetLogHandler
  <2>6. CASE Filtered(t) \/ Logged(t) \/ GetLevel(t)
    <3>1. stack[t] # <<>> /\ Inside(Top(t)) /\ Leave(t)
          /\ UNCHANGED <<settings, calls>>
      BY <2>6 DEF Filtered, Logged, GetLevel, At, Inside
    <3>2. QED
      BY <1>1, <2>4, <3>1 DEF settings, TypeOK
  <2>7. CASE SetLevel(t)
    <3>1. stack[t] # <<>> /\ Inside(Top(t)) /\ Top(t).level \in Level
      BY <1>1, <2>7, TopCall DEF SetLevel, At, Inside
    <3>2. logHandler' \in Function \cup {NoFunction} /\ registered' \in BOOLEAN
      BY <1>1, <2>7 DEF SetLevel, TypeOK
    <3>3. QED
      BY <2>4, <2>7, <3>1, <3>2 DEF SetLevel
  <2>8. CASE Logging(t)
    <3>1. Top(t).level \in Level /\ Top(t).op = "Logging"
          /\ Top(t).at = "locked"
      BY <1>1, <2>8, TopCall DEF Logging, At
    <3>2. /\ Handled(Top(t).level) \in Frame
          /\ ~Inside(Handled(Top(t).level))
      BY <1>1, <2>8, <3>1, HandledType DEF Logging
    <3>3. stack' \in [Thread -> Seq(Frame)]
      BY <1>1, <2>8, <3>2, PushStack DEF Logging
    <3>4. HandlersInLogging' /\ OneInside'
      BY <2>8, <3>1, <3>2, PushFrames DEF Logging, Runs
    <3>5. TypeOK'
      BY <1>1, <2>8, <3>3 DEF Logging, TypeOK, Frame, settings
    <3>6. QED
      BY <3>4, <3>5 DEF Frames
  <2>9. QED
    BY <1>4, <2>1, <2>2, <2>3, <2>5, <2>6, <2>7, <2>8 DEF Step
<1>5. CASE UNCHANGED vars
  BY <1>5 DEF vars, Frames, TypeOK, HandlersInLogging, OneInside, settings
<1>6. QED
  BY <1>3, <1>4, <1>5 DEF Next

(* At first nobody calls.                                                  *)
LEMMA InitFrames ==
    ASSUME Init
    PROVE  Frames
<1>1. \A t \in Thread : stack[t] = <<>>
  BY DEF Init
<1>2. Len(<<>>) = 0 /\ <<>> \in Seq(Frame)
  BY EmptySeq
<1>3. TypeOK
  <2>1. stack \in [Thread -> Seq(Frame)]
    BY <1>2 DEF Init
  <2>2. calls \in 0..MaxCalls
    BY ConstantsAssumption DEF Init
  <2>3. QED
    BY <2>1, <2>2 DEF Init, TypeOK, Frame
<1>4. \A t \in Thread : Len(stack[t]) = 0
  BY <1>1, <1>2
<1>5. HandlersInLogging /\ OneInside
  BY <1>4 DEF HandlersInLogging, OneInside
<1>6. QED
  BY <1>3, <1>5 DEF Frames

(* The frames are as described throughout.                                 *)
LEMMA FramesAlways == Spec => []Frames
<1>1. Init => Frames
  BY InitFrames
<1>2. Frames /\ [Next]_vars => Frames'
  BY FramesStep
<1>3. QED
  BY <1>1, <1>2, PTL DEF Spec

(* The mutex, the settings and the frames of each thread keep their types  *)
(* (Log.cc:13-49).                                                         *)
THEOREM TypeCorrect == Spec => []TypeOK
<1>1. Frames => TypeOK
  BY DEF Frames
<1>2. QED
  BY <1>1, FramesAlways, PTL

------------------------------------------------------------------------------
(* The handler that runs is the one that is set.                           *)

(* The handlers that calls of Logging run fit a handler and a level.       *)
Settled(handler, level) ==
    \A t \in Thread : \A i \in 1..Len(stack[t]) :
        RunsUnder(stack[t], i) =>
            /\ stack[t][i].function = handler
            /\ stack[t][i].level <= level

HandlersSettled == Settled(logHandler, log_level)

(* One thread's frames change, and each handler that a call of Logging     *)
(* runs ran before or fits.                                                *)
LEMMA OneThreadSettled ==
    ASSUME NEW t \in Thread, \A u \in Thread \ {t} : stack'[u] = stack[u],
           Settled(logHandler', log_level'),
           \A i \in 1..Len(stack'[t]) : RunsUnder(stack'[t], i) =>
               \/ /\ stack'[t][i].function = logHandler'
                  /\ stack'[t][i].level <= log_level'
               \/ \E j \in 1..Len(stack[t]) :
                     /\ RunsUnder(stack[t], j)
                     /\ stack'[t][i] = stack[t][j]
    PROVE  HandlersSettled'
<1> SUFFICES ASSUME NEW u \in Thread, NEW i \in 1..Len(stack'[u]),
                    RunsUnder(stack'[u], i)
             PROVE  /\ stack'[u][i].function = logHandler'
                    /\ stack'[u][i].level <= log_level'
  BY DEF HandlersSettled, Settled
<1>1. CASE u = t
  BY <1>1 DEF Settled
<1>2. CASE u # t
  BY <1>2 DEF Settled
<1>3. QED
  BY <1>1, <1>2

(* A frame that comes, ...                                                 *)
LEMMA PushSettled ==
    ASSUME TypeOK, NEW t \in Thread, NEW f \in Frame, Push(t, f),
           Settled(logHandler', log_level'),
           f.op = "handler" /\ stack[t] # <<>> /\ Top(t).op = "Logging" =>
               f.function = logHandler' /\ f.level <= log_level'
    PROVE  HandlersSettled'
<1> DEFINE s == stack[t]
           p == stack'[t]
<1>1. /\ \A u \in Thread \ {t} : stack'[u] = stack[u]
      /\ Len(s) \in Nat
      /\ Len(p) = Len(s) + 1
      /\ p[1] = f
      /\ \A i \in 2..(Len(s) + 1) : p[i] = s[i - 1]
  BY PushStack, StackType
<1>2. Len(s) # 0 => s # <<>> /\ Top(t) = s[1]
  <2>1. Len(<<>>) = 0
    BY EmptySeq
  <2>2. QED
    BY <2>1, StackType
<1> HIDE DEF s, p
<1>3. ASSUME NEW i \in 1..Len(p), RunsUnder(p, i)
      PROVE  \/ p[i].function = logHandler' /\ p[i].level <= log_level'
             \/ \E j \in 1..Len(s) : RunsUnder(s, j) /\ p[i] = s[j]
  <2>1. i < Len(p) /\ p[i].op = "handler" /\ p[i + 1].op = "Logging"
    BY <1>3 DEF RunsUnder
  <2>2. p[i + 1] = s[(i + 1) - 1] /\ (i + 1) - 1 = i /\ Len(s) # 0
    BY <1>1, <2>1
  <2>3. CASE i = 1
    BY <1>1, <1>2, <2>1, <2>2, <2>3 DEF s
  <2>4. CASE i # 1
    <3>1. /\ i \in 2..(Len(s) + 1) /\ i - 1 \in 1..Len(s)
          /\ i - 1 < Len(s) /\ (i - 1) + 1 = i
      BY <1>1, <2>1, <2>4
    <3>2. p[i] = s[i - 1]
      BY <1>1, <3>1
    <3>3. RunsUnder(s, i - 1)
      BY <2>1, <2>2, <3>1, <3>2 DEF RunsUnder
    <3>4. QED
      BY <3>1, <3>2, <3>3
  <2>5. QED
    BY <2>3, <2>4
<1>4. QED
  BY <1>1, <1>3, OneThreadSettled DEF s, p

(* ... one that goes on, ...                                               *)
LEMMA GoSettled ==
    ASSUME TypeOK, NEW t \in Thread, stack[t] # <<>>, NEW a \in Stage,
           Top(t) \in Call, Go(t, a), Settled(logHandler', log_level')
    PROVE  HandlersSettled'
<1> DEFINE s == stack[t]
           p == stack'[t]
<1>1. /\ \A u \in Thread \ {t} : stack'[u] = stack[u]
      /\ Len(s) \in Nat \ {0}
      /\ Len(p) = Len(s)
      /\ p[1] = [s[1] EXCEPT !.at = a]
      /\ \A i \in 2..Len(s) : p[i] = s[i]
      /\ Top(t) = s[1]
  BY GoStack, StackType
<1>2. p[1].op # "handler"
  BY <1>1, CallUpdate DEF Op
<1> HIDE DEF s, p
<1>3. ASSUME NEW i \in 1..Len(p), RunsUnder(p, i)
      PROVE  RunsUnder(s, i) /\ p[i] = s[i]
  <2>1. i < Len(p) /\ p[i].op = "handler" /\ p[i + 1].op = "Logging"
    BY <1>3 DEF RunsUnder
  <2>2. i # 1
    BY <1>2, <2>1
  <2>3. i \in 2..Len(s) /\ i + 1 \in 2..Len(s) /\ i < Len(s)
    BY <1>1, <2>1, <2>2
  <2>4. QED
    BY <1>1, <2>1, <2>3 DEF RunsUnder
<1>4. QED
  BY <1>1, <1>3, OneThreadSettled DEF s, p

(* ... one that leaves, ...                                                *)
LEMMA LeaveSettled ==
    ASSUME TypeOK, NEW t \in Thread, stack[t] # <<>>, Leave(t),
           Settled(logHandler', log_level')
    PROVE  HandlersSettled'
<1> DEFINE s == stack[t]
           p == stack'[t]
<1>1. /\ \A u \in Thread \ {t} : stack'[u] = stack[u]
      /\ Len(s) \in Nat \ {0}
      /\ Len(p) = Len(s) - 1
      /\ \A i \in 1..(Len(s) - 1) : p[i] = s[i + 1]
  BY PopStack, StackType DEF Leave
<1> HIDE DEF s, p
<1>2. ASSUME NEW i \in 1..Len(p), RunsUnder(p, i)
      PROVE  i + 1 \in 1..Len(s) /\ RunsUnder(s, i + 1) /\ p[i] = s[i + 1]
  <2>1. i < Len(p) /\ p[i].op = "handler" /\ p[i + 1].op = "Logging"
    BY <1>2 DEF RunsUnder
  <2>2. /\ i + 1 \in 1..Len(s) /\ i + 1 < Len(s)
        /\ p[i] = s[i + 1] /\ p[i + 1] = s[(i + 1) + 1]
    BY <1>1, <2>1
  <2>3. QED
    BY <2>1, <2>2 DEF RunsUnder
<1>3. QED
  BY <1>1, <1>2, OneThreadSettled DEF s, p

(* ... and a handler that returns leave the others as they are.            *)
LEMMA ReturnSettled ==
    ASSUME Frames, HandlersSettled, NEW t \in Thread, HandlerReturns(t)
    PROVE  HandlersSettled'
<1> DEFINE s == stack[t]
           p == stack'[t]
<1>1. /\ \A u \in Thread \ {t} : stack'[u] = stack[u]
      /\ Len(s) \in Nat \ {0}
      /\ Len(p) = Len(s) - 1
      /\ \A i \in 1..Len(p) :
            /\ i + 1 \in 1..Len(s)
            /\ p[i].op = s[i + 1].op
            /\ p[i].op = "handler" => p[i] = s[i + 1]
      /\ UNCHANGED <<logHandler, log_level>>
  BY ReturnedStack DEF HandlerReturns, settings
<1> HIDE DEF s, p
<1>2. ASSUME NEW i \in 1..Len(p), RunsUnder(p, i)
      PROVE  i + 1 \in 1..Len(s) /\ RunsUnder(s, i + 1) /\ p[i] = s[i + 1]
  <2>1. i < Len(p) /\ p[i].op = "handler" /\ p[i + 1].op = "Logging"
    BY <1>2 DEF RunsUnder
  <2>2. /\ i + 1 \in 1..Len(p) /\ i + 1 < Len(s)
    BY <1>1, <2>1
  <2>3. p[i] = s[i + 1] /\ s[(i + 1) + 1].op = "Logging"
    BY <1>1, <2>1, <2>2
  <2>4. QED
    BY <1>1, <2>1, <2>2, <2>3 DEF RunsUnder
<1>3. Settled(logHandler', log_level')
  BY <1>1 DEF HandlersSettled
<1>4. QED
  BY <1>1, <1>2, <1>3, OneThreadSettled DEF s, p

(* A call of Logging that runs a handler holds the mutex, ...              *)
LEMMA RunnerInside ==
    ASSUME Frames, NEW t \in Thread, NEW i \in 1..Len(stack[t]),
           RunsUnder(stack[t], i)
    PROVE  /\ i + 1 \in 1..Len(stack[t])
           /\ Inside(stack[t][i + 1])
           /\ logMutex = t
<1> DEFINE s == stack[t]
<1>1. Len(s) \in Nat
  BY StackType DEF Frames
<1>2. i < Len(s) /\ s[i].op = "handler" /\ s[i + 1].op = "Logging"
  BY DEF RunsUnder
<1>3. i \in 1..(Len(s) - 1) /\ i + 1 \in 1..Len(s)
  <2> HIDE DEF s
  <2>1. i \in 1..Len(s)
    BY DEF s
  <2>2. QED
    BY <1>1, <1>2, <2>1
<1>4. Runs(s[i + 1])
  BY <1>2, <1>3 DEF Frames, HandlersInLogging
<1>5. Inside(s[i + 1])
  BY <1>2, <1>4 DEF Runs, Inside
<1>6. QED
  BY <1>3, <1>5 DEF Frames, OneInside

(* ... so no call of Logging runs one while another call has the mutex.    *)
LEMMA HolderAlone ==
    ASSUME Frames, NEW t \in Thread, stack[t] # <<>>, Inside(Top(t)),
           NEW u \in Thread, NEW i \in 1..Len(stack[u])
    PROVE  ~RunsUnder(stack[u], i)
<1> SUFFICES ASSUME RunsUnder(stack[u], i)
             PROVE  FALSE
  OBVIOUS
<1>1. Top(t) = stack[t][1] /\ 1 \in 1..Len(stack[t])
  BY StackType DEF Frames
<1>2. i + 1 \in 1..Len(stack[u]) /\ Inside(stack[u][i + 1]) /\ logMutex = u
  BY RunnerInside
<1>3. logMutex = t
  BY <1>1 DEF Frames, OneInside
<1>4. i + 1 = 1
  BY <1>1, <1>2, <1>3 DEF Frames, OneInside
<1>5. QED
  BY <1>4

(* Calls that begin change nothing for the handlers that run.              *)
LEMMA EnterSettled ==
    ASSUME Frames, HandlersSettled, NEW t \in Thread, NEW c \in Call,
           Enter(t, c)
    PROVE  HandlersSettled'
<1>1. c \in Frame /\ c.op # "handler"
  BY CallUpdate, FrameKinds DEF Frame, Call
<1>2. UNCHANGED <<logHandler, log_level>> /\ Push(t, c) /\ TypeOK
  BY DEF Enter, settings, Frames
<1>3. Settled(logHandler', log_level')
  BY <1>2 DEF HandlersSettled
<1>4. QED
  BY <1>1, <1>2, <1>3, PushSettled

(* Every step keeps what calls of Logging know of handler and level.       *)
LEMMA HandlersStep ==
    ASSUME Frames, HandlersSettled, [Next]_vars
    PROVE  HandlersSettled'
<1>1. TypeOK
  BY DEF Frames
<1>2. ASSUME NEW t \in Thread, stack[t] # <<>>, Inside(Top(t))
      PROVE  Settled(logHandler', log_level')
  BY <1>2, HolderAlone DEF Settled
<1>3. ASSUME NEW t \in Thread, Application(t)
      PROVE  HandlersSettled'
  <2>1. ASSUME NEW f \in Function \cup {NoFunction}, CallSetLogHandler(t, f)
        PROVE  HandlersSettled'
    <3>1. [op |-> "SetLogHandler", at |-> "waiting", function |-> f] \in Call
      BY DEF Call, Stage
    <3>2. QED
      BY <2>1, <3>1, EnterSettled DEF CallSetLogHandler
  <2>2. ASSUME NEW l \in Level, CallLogging(t, l)
        PROVE  HandlersSettled'
    BY <2>2, CallTypes, EnterSettled DEF CallLogging
  <2>3. ASSUME NEW l \in Level, CallSetLevel(t, l)
        PROVE  HandlersSettled'
    BY <2>3, CallTypes, EnterSettled DEF CallSetLevel
  <2>4. ASSUME CallGetLevel(t)
        PROVE  HandlersSettled'
    <3>1. [op |-> "GetLevel", at |-> "waiting"] \in Call
      BY DEF Call, Stage
    <3>2. QED
      BY <2>4, <3>1, EnterSettled DEF CallGetLevel
  <2>5. ASSUME NEW l \in Level, LibcoapLogs(t, l)
        PROVE  HandlersSettled'
    <3>1. /\ Push(t, Handled(l)) /\ Handled(l) \in Frame
          /\ UNCHANGED <<logHandler, log_level>>
      BY <1>1, <2>5, HandledType DEF LibcoapLogs, settings
    <3>2. stack[t] = <<>> \/ Top(t).op = "handler"
      BY <2>5 DEF LibcoapLogs, MayCall, At
    <3>3. Settled(logHandler', log_level')
      BY <3>1 DEF HandlersSettled
    <3>4. QED
      BY <1>1, <3>1, <3>2, <3>3, PushSettled
  <2>6. QED
    BY <1>3, <2>1, <2>2, <2>3, <2>4, <2>5 DEF Application
<1>4. ASSUME NEW t \in Thread, Step(t)
      PROVE  HandlersSettled'
  <2>1. CASE HandlerReturns(t)
    BY <2>1, ReturnSettled
  <2>2. CASE Lock(t)
    <3>1. /\ stack[t] # <<>> /\ Top(t) \in Call /\ Go(t, "locked")
          /\ UNCHANGED <<logHandler, log_level>>
      BY <1>1, <2>2, TopCall DEF Lock, settings
    <3>2. Settled(logHandler', log_level')
      BY <3>1 DEF HandlersSettled
    <3>3. QED
      BY <1>1, <3>1, <3>2, GoSettled DEF Stage
  <2>3. CASE Assign(t)
    <3>1. /\ stack[t] # <<>> /\ Top(t) \in Call /\ Go(t, "assigning")
          /\ Inside(Top(t))
      BY <1>1, <2>3, TopCall DEF Assign, At, Inside
    <3>2. QED
      BY <1>1, <1>2, <3>1, GoSettled DEF Stage
  <2>4. CASE \/ SetLogHandler(t) \/ Filtered(t) \/ Logged(t)
             \/ GetLevel(t) \/ SetLevel(t)
    <3>1. stack[t] # <<>> /\ Leave(t) /\ Inside(Top(t))
      BY <2>4
      DEF SetLogHandler, Filtered, Logged, GetLevel, SetLevel, At, Inside
    <3>2. QED
      BY <1>1, <1>2, <3>1, LeaveSettled
  <2>5. CASE Logging(t)
    <3>1. /\ stack[t] # <<>> /\ Top(t).level \in Level
          /\ Reaches(Top(t).level) /\ Push(t, Handled(Top(t).level))
          /\ UNCHANGED <<logHandler, log_level>>
      BY <1>1, <2>5, TopCall DEF Logging, At, settings
    <3>2. Handled(Top(t).level) \in Frame
      BY <1>1, <3>1, HandledType
    <3>3. Settled(logHandler', log_level')
      BY <3>1 DEF HandlersSettled
    <3>4. /\ Handled(Top(t).level).function = logHandler'
          /\ Handled(Top(t).level).level <= log_level'
      BY <3>1 DEF Handled, Reaches
    <3>5. QED
      BY <1>1, <3>1, <3>2, <3>3, <3>4, PushSettled
  <2>6. QED
    BY <1>4, <2>1, <2>2, <2>3, <2>4, <2>5 DEF Step
<1>5. CASE UNCHANGED vars
  BY <1>5 DEF vars, settings, HandlersSettled, Settled
<1>6. QED
  BY <1>3, <1>4, <1>5 DEF Next

(* Such a handler is the one that is set, and runs alone.                  *)
LEMMA SettledIsUndisturbed ==
    ASSUME Frames, HandlersSettled
    PROVE  HandlerUndisturbed
<1>1. ASSUME NEW t \in Thread, NEW i \in 1..Len(stack[t]),
             RunsUnder(stack[t], i),
             NEW u \in Thread, NEW j \in 1..Len(stack[u]),
             RunsUnder(stack[u], j)
      PROVE  u = t /\ j = i
  <2>1. /\ i + 1 \in 1..Len(stack[t]) /\ Inside(stack[t][i + 1])
        /\ logMutex = t
    BY <1>1, RunnerInside
  <2>2. /\ j + 1 \in 1..Len(stack[u]) /\ Inside(stack[u][j + 1])
        /\ logMutex = u
    BY <1>1, RunnerInside
  <2>3. u = t /\ j + 1 = i + 1
    BY <2>1, <2>2 DEF Frames, OneInside
  <2>4. QED
    BY <2>3
<1>2. QED
  BY <1>1 DEF HandlerUndisturbed, HandlersSettled, Settled

(* A handler that a call of Logging runs is the one that is set, and runs  *)
(* alone (Log.cc:20, Log.cc:38), whatever the application calls from it,   *)
(* whenever handlers are set and whatever libcoap logs without the mutex.  *)
THEOREM HandlerStays == Spec => []HandlerUndisturbed
<1>1. Init => HandlersSettled
  <2>1. ASSUME Init
        PROVE  \A t \in Thread : stack[t] = <<>>
    BY <2>1 DEF Init
  <2>2. Len(<<>>) = 0
    BY EmptySeq
  <2>3. QED
    BY <2>1, <2>2 DEF HandlersSettled, Settled
<1>2. HandlersSettled /\ Frames /\ [Next]_vars => HandlersSettled'
  BY HandlersStep
<1>3. HandlersSettled /\ Frames => HandlerUndisturbed
  BY SettledIsUndisturbed
<1>4. QED
  BY <1>1, <1>2, <1>3, FramesAlways, PTL DEF Spec

------------------------------------------------------------------------------
(* No call of Log waits for ever.                                          *)

(* A step of t has its guard: one disjunct for each action of Step.        *)
CanGoOn(t) ==
    \/ At(t, "handler", "running")
    \/ stack[t] # <<>> /\ Top(t).at = "waiting" /\ logMutex = Nobody
    \/ At(t, "SetLogHandler", "locked") \/ At(t, "SetLogHandler", "assigning")
    \/ At(t, "Logging", "locked") \/ At(t, "Logging", "done")
    \/ At(t, "GetLevel", "locked") \/ At(t, "SetLevel", "locked")

(* A thread that is in a call of Log, or in the handler, goes on or waits  *)
(* for another one, which goes on.                                         *)
NobodyStuck ==
    \A t \in Thread :
        stack[t] # <<>> =>
            \/ CanGoOn(t)
            \/ logMutex \in Thread \ {t} /\ CanGoOn(logMutex)

(* The stages that the functions of Log go through.                        *)
StageOf(frame) ==
    /\ frame.at = "assigning" => frame.op = "SetLogHandler"
    /\ frame.at = "done" => frame.op = "Logging"

(* Only handlers are above a call, and the mutex is held by the oldest     *)
(* call of its thread.                                                     *)
Returns(t) ==
    /\ \A i \in 1..(Len(stack[t]) - 1) : stack[t][i].op = "handler"
    /\ \A i \in 1..Len(stack[t]) : StageOf(stack[t][i])
    /\ logMutex = t => Len(stack[t]) # 0 /\ Inside(stack[t][Len(stack[t])])

Returnable == \A t \in Thread : Returns(t)

(* One thread's frames change, and no other one takes the mutex.           *)
LEMMA ReturnableChanges ==
    ASSUME Returnable, NEW t \in Thread,
           \A u \in Thread \ {t} : stack'[u] = stack[u],
           logMutex' \in {logMutex, t, Nobody},
           Returns(t)'
    PROVE  Returnable'
<1> SUFFICES ASSUME NEW u \in Thread, u # t
             PROVE  Returns(u)'
  BY DEF Returnable
<1>1. stack'[u] = stack[u] /\ (logMutex' = u => logMutex = u)
  BY ConstantsAssumption
<1>2. Returns(u)
  BY DEF Returnable
<1>3. QED
  BY <1>1, <1>2 DEF Returns

(* A call on top of a stack is alone on it.                                *)
LEMMA CallAlone ==
    ASSUME TypeOK, Returnable, NEW t \in Thread, stack[t] # <<>>,
           Top(t).op # "handler"
    PROVE  Len(stack[t]) = 1 /\ Top(t) = stack[t][1] /\ StageOf(Top(t))
<1>1. Len(stack[t]) \in Nat \ {0} /\ Top(t) = stack[t][1]
  BY StackType
<1>2. Returns(t)
  BY DEF Returnable
<1>3. 1 \notin 1..(Len(stack[t]) - 1)
  BY <1>1, <1>2 DEF Returns
<1>4. 1 \in 1..Len(stack[t])
  BY <1>1
<1>5. StageOf(stack[t][1])
  BY <1>2, <1>4 DEF Returns
<1>6. PICK n : n = Len(stack[t])
  OBVIOUS
<1>7. n \in Nat \ {0} /\ 1 \notin 1..(n - 1)
  BY <1>1, <1>3, <1>6
<1>8. n = 1
  BY <1>7
<1>9. QED
  BY <1>1, <1>5, <1>6, <1>8

(* A frame comes on an empty stack, or a handler on any.                   *)
LEMMA PushReturns ==
    ASSUME TypeOK, Returnable, NEW t \in Thread, NEW f \in Frame, Push(t, f),
           UNCHANGED logMutex, StageOf(f),
           stack[t] = <<>> \/ f.op = "handler"
    PROVE  Returnable'
<1> DEFINE s == stack[t]
           p == stack'[t]
<1>1. /\ \A u \in Thread \ {t} : stack'[u] = stack[u]
      /\ Len(s) \in Nat
      /\ Len(p) = Len(s) + 1
      /\ p[1] = f
      /\ \A i \in 2..(Len(s) + 1) : p[i] = s[i - 1]
  BY PushStack, StackType
<1>2. /\ \A i \in 1..(Len(s) - 1) : s[i].op = "handler"
      /\ \A i \in 1..Len(s) : StageOf(s[i])
      /\ logMutex = t => Len(s) # 0 /\ Inside(s[Len(s)])
  BY DEF Returnable, Returns
<1>3. Len(s) = 0 \/ f.op = "handler"
  <2>1. Len(<<>>) = 0
    BY EmptySeq
  <2>2. QED
    BY <2>1
<1> HIDE DEF s, p
<1>4. \A i \in 1..(Len(p) - 1) : p[i].op = "handler"
  <2>1. SUFFICES ASSUME NEW i \in 1..(Len(p) - 1)
                 PROVE  p[i].op = "handler"
    OBVIOUS
  <2>2. i \in 1..Len(s)
    BY <1>1
  <2>3. CASE i = 1
    BY <1>1, <1>3, <2>2, <2>3
  <2>4. CASE i # 1
    <3>1. i \in 2..(Len(s) + 1) /\ i - 1 \in 1..(Len(s) - 1)
      BY <1>1, <2>2, <2>4
    <3>2. QED
      BY <1>1, <1>2, <3>1
  <2>5. QED
    BY <2>3, <2>4
<1>5. \A i \in 1..Len(p) : StageOf(p[i])
  <2>1. SUFFICES ASSUME NEW i \in 1..Len(p)
                 PROVE  StageOf(p[i])
    OBVIOUS
  <2>2. CASE i = 1
    BY <1>1, <2>2
  <2>3. CASE i # 1
    <3>1. i \in 2..(Len(s) + 1) /\ i - 1 \in 1..Len(s)
      BY <1>1, <2>3
    <3>2. QED
      BY <1>1, <1>2, <3>1
  <2>4. QED
    BY <2>2, <2>3
<1>6. logMutex = t => Len(p) # 0 /\ Inside(p[Len(p)])
  <2>1. SUFFICES ASSUME logMutex = t
                 PROVE  Len(p) # 0 /\ Inside(p[Len(p)])
    OBVIOUS
  <2>2. Len(s) # 0 /\ Inside(s[Len(s)])
    BY <1>2, <2>1
  <2>3. /\ Len(s) + 1 \in 2..(Len(s) + 1)
        /\ (Len(s) + 1) - 1 = Len(s)
        /\ Len(s) + 1 # 0
    BY <1>1, <2>2
  <2>4. p[Len(s) + 1] = s[(Len(s) + 1) - 1]
    BY <1>1, <2>3
  <2>5. QED
    BY <1>1, <2>2, <2>3, <2>4
<1>7. Returns(t)'
  BY <1>4, <1>5, <1>6 DEF Returns, p
<1>8. QED
  BY <1>1, <1>7, ReturnableChanges

(* The only call of a thread goes on with the mutex.                       *)
LEMMA GoReturns ==
    ASSUME TypeOK, Returnable, NEW t \in Thread, stack[t] # <<>>,
           Top(t) \in Call, NEW a \in {"locked", "assigning"}, Go(t, a),
           a = "assigning" => Top(t).op = "SetLogHandler",
           logMutex' = t
    PROVE  Returnable'
<1>1. /\ \A u \in Thread \ {t} : stack'[u] = stack[u]
      /\ Len(stack'[t]) = Len(stack[t])
      /\ stack'[t][1] = [stack[t][1] EXCEPT !.at = a]
  BY GoStack DEF Stage
<1>2. Len(stack[t]) = 1 /\ Top(t) = stack[t][1]
  <2>1. Top(t).op \in Op
    BY CallUpdate DEF Stage
  <2>2. Top(t).op # "handler"
    BY <2>1 DEF Op
  <2>3. QED
    BY <2>2, CallAlone
<1>3. /\ Len(stack'[t]) = 1
      /\ stack'[t][1].at = a
      /\ stack'[t][1].op = Top(t).op
  BY <1>1, <1>2, CallUpdate DEF Stage
<1>4. StageOf(stack'[t][1]) /\ Inside(stack'[t][1])
  BY <1>3 DEF StageOf, Inside
<1>5. Returns(t)'
  BY <1>3, <1>4 DEF Returns
<1>6. QED
  BY <1>1, <1>5, ReturnableChanges

(* The only call of a thread comes back and lets the mutex go.             *)
LEMMA LeaveReturns ==
    ASSUME TypeOK, Returnable, NEW t \in Thread, stack[t] # <<>>,
           Top(t).op # "handler", Leave(t)
    PROVE  Returnable'
<1>1. /\ \A u \in Thread \ {t} : stack'[u] = stack[u]
      /\ Len(stack'[t]) = Len(stack[t]) - 1
      /\ logMutex' = Nobody
  BY PopStack DEF Leave
<1>2. Len(stack[t]) = 1
  BY CallAlone
<1>3. Len(stack'[t]) = 0 /\ logMutex' # t
  BY <1>1, <1>2, ConstantsAssumption
<1>4. Returns(t)'
  BY <1>3 DEF Returns
<1>5. QED
  BY <1>1, <1>4, ReturnableChanges

(* A handler returns to another one, or to the one call of Logging.        *)
LEMMA HandlerReturnsReturns ==
    ASSUME Frames, Returnable, NEW t \in Thread, HandlerReturns(t)
    PROVE  Returnable'
<1> DEFINE s == stack[t]
           p == stack'[t]
<1>1. /\ \A u \in Thread \ {t} : stack'[u] = stack[u]
      /\ Len(s) \in Nat \ {0}
      /\ Len(p) = Len(s) - 1
      /\ \A i \in 1..Len(p) :
            i + 1 \in 1..Len(s) /\ p[i].op = s[i + 1].op
      /\ UNCHANGED logMutex
  BY ReturnedStack DEF HandlerReturns
<1>2. /\ Len(s) > 1 =>
            IF s[2].op = "handler" THEN p[1] = s[2]
            ELSE /\ s[2] \in Call /\ s[2].op = "Logging"
                 /\ p[1] = [s[2] EXCEPT !.at = "done"]
      /\ \A i \in 2..(Len(s) - 1) : p[i] = s[i + 1]
  BY ReturnStack DEF Frames
<1>3. s[1].op = "handler"
  BY StackType DEF Frames, HandlerReturns, At
<1>4. /\ \A i \in 1..(Len(s) - 1) : s[i].op = "handler"
      /\ \A i \in 1..Len(s) : StageOf(s[i])
      /\ logMutex = t => Inside(s[Len(s)])
  BY DEF Returnable, Returns
<1>5. ~Inside(s[1])
  BY <1>1, <1>3, StackType, FrameKinds DEF Frames
<1> HIDE DEF s, p
<1>6. \A i \in 1..(Len(p) - 1) : p[i].op = "handler"
  <2>1. SUFFICES ASSUME NEW i \in 1..(Len(p) - 1)
                 PROVE  p[i].op = "handler"
    OBVIOUS
  <2>2. i \in 1..Len(p) /\ i + 1 \in 1..(Len(s) - 1)
    BY <1>1
  <2>3. QED
    BY <1>1, <1>4, <2>2
<1>7. ASSUME Len(s) > 1, s[2].op # "handler"
      PROVE  p[1].at = "done" /\ p[1].op = "Logging" /\ Len(s) = 2
  <2>1. "done" \in Stage
    BY DEF Stage
  <2>2. s[2] \in Call /\ p[1] = [s[2] EXCEPT !.at = "done"]
        /\ s[2].op = "Logging"
    BY <1>2, <1>7
  <2>3. p[1].at = "done" /\ p[1].op = "Logging"
    BY <2>1, <2>2, CallUpdate
  <2>4. 2 \notin 1..(Len(s) - 1)
    BY <1>4, <1>7
  <2>5. QED
    BY <1>1, <1>7, <2>3, <2>4
<1>8. \A i \in 1..Len(p) : StageOf(p[i])
  <2>1. SUFFICES ASSUME NEW i \in 1..Len(p)
                 PROVE  StageOf(p[i])
    OBVIOUS
  <2>2. i + 1 \in 1..Len(s) /\ Len(s) > 1
    BY <1>1
  <2>3. CASE i = 1 /\ s[2].op # "handler"
    BY <1>7, <2>2, <2>3 DEF StageOf
  <2>4. CASE ~(i = 1 /\ s[2].op # "handler")
    <3>1. p[i] = s[i + 1]
      <4>1. CASE i = 1
        <5>1. i + 1 = 2
          BY <4>1
        <5>2. QED
          BY <1>2, <2>2, <2>4, <4>1, <5>1
      <4>2. CASE i # 1
        <5>1. i \in 2..(Len(s) - 1)
          BY <1>1, <4>2
        <5>2. QED
          BY <1>2, <5>1
      <4>3. QED
        BY <4>1, <4>2
    <3>2. QED
      BY <1>4, <2>2, <3>1
  <2>5. QED
    BY <2>3, <2>4
<1>9. logMutex = t => Len(p) # 0 /\ Inside(p[Len(p)])
  <2>1. SUFFICES ASSUME logMutex = t
                 PROVE  Len(p) # 0 /\ Inside(p[Len(p)])
    OBVIOUS
  <2>2. Len(s) > 1
    BY <1>1, <1>4, <1>5, <2>1
  <2>3. CASE Len(s) = 2
    <3>1. Inside(s[2]) /\ Len(p) = 1
      BY <1>1, <1>4, <2>1, <2>3
    <3>2. CASE s[2].op # "handler"
      BY <1>7, <2>2, <3>1, <3>2 DEF Inside
    <3>3. CASE s[2].op = "handler"
      BY <1>2, <2>2, <3>1, <3>3
    <3>4. QED
      BY <3>2, <3>3
  <2>4. CASE Len(s) # 2
    <3>1. Len(s) - 1 \in 2..(Len(s) - 1) /\ (Len(s) - 1) + 1 = Len(s)
      BY <1>1, <2>2, <2>4
    <3>2. p[Len(s) - 1] = s[(Len(s) - 1) + 1]
      BY <1>2, <3>1
    <3>3. QED
      BY <1>1, <1>4, <2>1, <2>2, <3>1, <3>2
  <2>5. QED
    BY <2>3, <2>4
<1>10. Returns(t)'
  BY <1>1, <1>6, <1>8, <1>9 DEF Returns, p
<1>11. QED
  BY <1>1, <1>10, ReturnableChanges

(* When the application calls nothing of Log from its handler, every step  *)
(* keeps each call on its way.                                             *)
LEMMA ReturnableStep ==
    ASSUME HandlerOps \subseteq {"LibcoapLogs"}, Frames, Returnable,
           [Next]_vars
    PROVE  Returnable'
<1>1. TypeOK
  BY DEF Frames
<1>2. ASSUME UNCHANGED <<stack, logMutex>>
      PROVE  Returnable'
  BY <1>2 DEF Returnable, Returns
<1>3. ASSUME NEW t \in Thread, NEW c \in Call, c.at = "waiting", Enter(t, c)
      PROVE  Returnable'
  <2>1. c \in Frame /\ StageOf(c)
    BY <1>3 DEF Frame, StageOf
  <2>2. stack[t] = <<>> /\ Push(t, c) /\ UNCHANGED logMutex
    <3>1. c.op # "LibcoapLogs"
      BY CallUpdate DEF Op, Stage
    <3>2. QED
      BY <1>3, <3>1 DEF Enter, MayCall
  <2>3. QED
    BY <1>1, <2>1, <2>2, PushReturns
<1>4. ASSUME NEW t \in Thread, Application(t)
      PROVE  Returnable'
  <2>1. ASSUME NEW f \in Function \cup {NoFunction}, CallSetLogHandler(t, f)
        PROVE  Returnable'
    <3>1. [op |-> "SetLogHandler", at |-> "waiting", function |-> f] \in Call
      BY DEF Call, Stage
    <3>2. QED
      BY <1>3, <2>1, <3>1 DEF CallSetLogHandler
  <2>2. ASSUME NEW l \in Level, CallLogging(t, l)
        PROVE  Returnable'
    BY <1>3, <2>2, CallTypes DEF CallLogging
  <2>3. ASSUME NEW l \in Level, CallSetLevel(t, l)
        PROVE  Returnable'
    BY <1>3, <2>3, CallTypes DEF CallSetLevel
  <2>4. ASSUME CallGetLevel(t)
        PROVE  Returnable'
    <3>1. [op |-> "GetLevel", at |-> "waiting"] \in Call
      BY DEF Call, Stage
    <3>2. QED
      BY <1>3, <2>4, <3>1 DEF CallGetLevel
  <2>5. ASSUME NEW l \in Level, LibcoapLogs(t, l)
        PROVE  Returnable'
    <3>1. Handled(l) \in Frame /\ Handled(l).at = "running"
      BY <1>1, <2>5, HandledType DEF LibcoapLogs, Handled
    <3>2. StageOf(Handled(l))
      BY <3>1 DEF StageOf
    <3>3. /\ Push(t, Handled(l)) /\ UNCHANGED logMutex
          /\ Handled(l).op = "handler"
      BY <2>5 DEF LibcoapLogs, Handled
    <3>4. QED
      BY <1>1, <3>1, <3>2, <3>3, PushReturns
  <2>6. QED
    BY <1>4, <2>1, <2>2, <2>3, <2>4, <2>5 DEF Application
<1>5. ASSUME NEW t \in Thread, Step(t)
      PROVE  Returnable'
  <2>1. CASE HandlerReturns(t)
    BY <2>1, HandlerReturnsReturns
  <2>2. CASE Lock(t)
    <3>1. /\ stack[t] # <<>> /\ Top(t) \in Call
          /\ Go(t, "locked") /\ logMutex' = t
      BY <1>1, <2>2, TopCall DEF Lock
    <3>2. QED
      BY <1>1, <3>1, GoReturns
  <2>3. CASE Assign(t)
    <3>1. /\ stack[t] # <<>> /\ Top(t) \in Call /\ Inside(Top(t))
          /\ Top(t).op = "SetLogHandler"
          /\ Go(t, "assigning") /\ logMutex' = logMutex
      BY <1>1, <2>3, TopCall DEF Assign, At, Inside
    <3>2. logMutex' = t
      BY <1>1, <3>1, StackType DEF Frames, OneInside
    <3>3. QED
      BY <1>1, <3>1, <3>2, GoReturns
  <2>4. CASE \/ SetLogHandler(t) \/ Filtered(t) \/ Logged(t)
             \/ GetLevel(t) \/ SetLevel(t)
    <3>1. stack[t] # <<>> /\ Top(t).op # "handler" /\ Leave(t)
      BY <2>4
      DEF SetLogHandler, Filtered, Logged, GetLevel, SetLevel, At
    <3>2. QED
      BY <1>1, <3>1, LeaveReturns
  <2>5. CASE Logging(t)
    <3>1. Top(t).level \in Level
      BY <1>1, <2>5, TopCall DEF Logging, At
    <3> DEFINE h == Handled(Top(t).level)
    <3>2. h \in Frame /\ h.op = "handler" /\ h.at = "running"
      BY <1>1, <2>5, <3>1, HandledType DEF Logging, Handled
    <3>3. Push(t, h) /\ UNCHANGED logMutex
      BY <2>5 DEF Logging
    <3> HIDE DEF h
    <3>4. StageOf(h)
      BY <3>2 DEF StageOf
    <3>5. QED
      BY <1>1, <3>2, <3>3, <3>4, PushReturns
  <2>6. QED
    BY <1>5, <2>1, <2>2, <2>3, <2>4, <2>5 DEF Step
<1>7. CASE UNCHANGED vars
  BY <1>2, <1>7 DEF vars
<1>8. QED
  BY <1>4, <1>5, <1>7 DEF Next

(* The top frame of a thread is at a stage with a way on, unless it waits. *)
LEMMA WayOn ==
    ASSUME TypeOK, Returnable, NEW t \in Thread, stack[t] # <<>>,
           Top(t).at # "waiting"
    PROVE  CanGoOn(t)
<1>1. Top(t) \in Frame /\ Top(t) = stack[t][1] /\ 1 \in 1..Len(stack[t])
  BY StackType
<1>2. StageOf(Top(t))
  BY <1>1 DEF Returnable, Returns
<1>3. CASE Top(t).op = "handler"
  <2>1. Top(t).at = "running"
    BY <1>1, <1>3, FrameKinds DEF InHandler
  <2>2. QED
    BY <1>3, <2>1 DEF CanGoOn, At
<1>4. CASE Top(t).op # "handler"
  <2>1. Top(t) \in Call
    BY <1>1, <1>4, FrameKinds
  <2>2. Top(t).op \in Op /\ Top(t).at \in Stage
    BY <2>1 DEF Call, Op
  <2>3. QED
    BY <1>2, <2>2 DEF Op, Stage, StageOf, CanGoOn, At
<1>5. QED
  BY <1>3, <1>4

(* Whoever waits, waits for a thread that goes on.                         *)
LEMMA ReturnableIsNotStuck ==
    ASSUME TypeOK, Returnable
    PROVE  NobodyStuck
<1> SUFFICES ASSUME NEW t \in Thread, stack[t] # <<>>, ~CanGoOn(t)
             PROVE  logMutex \in Thread \ {t} /\ CanGoOn(logMutex)
  BY DEF NobodyStuck
<1>1. Top(t).at = "waiting"
  BY WayOn
<1>2. logMutex # Nobody
  BY <1>1 DEF CanGoOn
<1>3. PICK u \in Thread : u = logMutex
  BY <1>2 DEF TypeOK
<1>4. Len(stack[u]) # 0 /\ Inside(stack[u][Len(stack[u])])
  BY <1>3 DEF Returnable, Returns
<1>5. stack[u] # <<>>
  BY <1>4, EmptySeq
<1>6. Top(u).at # "waiting"
  <2>1. SUFFICES ASSUME Top(u).at = "waiting"
                 PROVE  FALSE
    OBVIOUS
  <2>2. Top(u).op # "handler"
    BY <1>5, <2>1, StackType, FrameKinds DEF InHandler
  <2>3. Len(stack[u]) = 1 /\ Top(u) = stack[u][1]
    BY <1>5, <2>2, CallAlone
  <2>4. QED
    BY <1>4, <2>1, <2>3 DEF Inside
<1>7. CanGoOn(u)
  BY <1>5, <1>6, WayOn
<1>8. u # t
  BY <1>1, <1>6
<1>9. QED
  BY <1>3, <1>7, <1>8

(* Calls of Log do not block each other for good, if the application calls *)
(* nothing of Log from its handler (Log.cc:38 runs it with the mutex held, *)
(* which is not recursive): whenever a thread is in Log or in the handler, *)
(* it can go on, or the one that has the mutex can.                        *)
THEOREM CallsGoOn ==
    HandlerOps \subseteq {"LibcoapLogs"} => (Spec => []NobodyStuck)
<1> SUFFICES ASSUME HandlerOps \subseteq {"LibcoapLogs"}
             PROVE  Spec => []NobodyStuck
  OBVIOUS
<1>1. Init => Returnable
  <2>1. ASSUME Init
        PROVE  Returnable
    <3>1. \A t \in Thread : stack[t] = <<>> /\ logMutex # t
      BY <2>1, ConstantsAssumption DEF Init
    <3>2. Len(<<>>) = 0
      BY EmptySeq
    <3>3. \A t \in Thread : Len(stack[t]) = 0
      BY <3>1, <3>2
    <3>4. ASSUME NEW t \in Thread
          PROVE  Returns(t)
      BY <3>1, <3>3 DEF Returns
    <3>5. QED
      BY <3>4 DEF Returnable
  <2>2. QED
    BY <2>1
<1>2. Returnable /\ Frames /\ [Next]_vars => Returnable'
  BY ReturnableStep
<1>3. Returnable /\ Frames => NobodyStuck
  BY ReturnableIsNotStuck DEF Frames
<1>4. QED
  BY <1>1, <1>2, <1>3, FramesAlways, PTL DEF Spec

(* A thread that waits for the mutex it holds.                             *)
WaitsForItself(t) ==
    stack[t] # <<>> /\ Top(t).at = "waiting" /\ logMutex = t

(* What is known of a step of another thread: it does not let the mutex go *)
(* that it does not hold.                                                  *)
LEMMA OnlyHolderLeaves ==
    ASSUME Frames, NEW u \in Thread, stack[u] # <<>>, Inside(Top(u))
    PROVE  logMutex = u
<1>1. Top(u) = stack[u][1] /\ 1 \in 1..Len(stack[u])
  BY StackType DEF Frames
<1>2. QED
  BY <1>1 DEF Frames, OneInside

(* No step of any thread helps.                                            *)
LEMMA WaitsOn ==
    ASSUME Frames, NEW t \in Thread, WaitsForItself(t), [Next]_vars
    PROVE  WaitsForItself(t)'
<1>1. /\ stack[t] # <<>> /\ logMutex = t /\ logMutex # Nobody
      /\ Top(t).at = "waiting" /\ Top(t) \in Frame /\ Top(t).op # "handler"
  BY ConstantsAssumption, StackType, FrameKinds
  DEF WaitsForItself, Frames, InHandler
<1>2. ASSUME stack'[t] = stack[t], logMutex' = logMutex
      PROVE  WaitsForItself(t)'
  BY <1>1, <1>2 DEF WaitsForItself, Top
<1>3. ASSUME NEW u \in Thread, u # t, NEW f, Push(u, f), UNCHANGED logMutex
      PROVE  WaitsForItself(t)'
  BY <1>2, <1>3 DEF Push, Frames, TypeOK
<1>4. ASSUME NEW u \in Thread, Application(u)
      PROVE  WaitsForItself(t)'
  <2>1. u # t
    BY <1>1, <1>4
    DEF Application, CallSetLogHandler, CallLogging, CallSetLevel,
        CallGetLevel, LibcoapLogs, Enter, MayCall, At
  <2>2. QED
    BY <1>3, <1>4, <2>1
    DEF Application, CallSetLogHandler, CallLogging, CallSetLevel,
        CallGetLevel, LibcoapLogs, Enter
<1>5. ASSUME NEW u \in Thread, Step(u)
      PROVE  WaitsForItself(t)'
  <2>1. u # t
    BY <1>1, <1>5
    DEF Step, HandlerReturns, Lock, Assign, SetLogHandler, Filtered, Logging,
        Logged, GetLevel, SetLevel, At
  <2>2. ~Lock(u)
    BY <1>1 DEF Lock
  <2>3. ASSUME stack[u] # <<>>, Inside(Top(u))
        PROVE  FALSE
    BY <1>1, <2>1, <2>3, OnlyHolderLeaves
  <2>4. HandlerReturns(u) \/ Logging(u)
    BY <1>5, <2>2, <2>3
    DEF Step, Assign, SetLogHandler, Filtered, Logging, Logged, GetLevel,
        SetLevel, At, Inside
  <2>5. stack'[t] = stack[t] /\ logMutex' = logMutex
    BY <2>1, <2>4 DEF HandlerReturns, Logging, Push, Frames, TypeOK
  <2>6. QED
    BY <1>2, <2>5
<1>7. CASE UNCHANGED vars
  BY <1>2, <1>7 DEF vars
<1>8. QED
  BY <1>4, <1>5, <1>7 DEF Next

(* Why CallsGoOn asks for a handler that calls nothing of Log: the mutex   *)
(* is not recursive, and a thread that waits for it while it holds it      *)
(* (Log.cc:38) waits for ever, whatever all the threads do.                *)
THEOREM NobodyWakesIt ==
    Spec => [][\A t \in Thread :
                   WaitsForItself(t) => WaitsForItself(t)']_vars
<1>1. Frames /\ [Next]_vars =>
          [\A t \in Thread : WaitsForItself(t) => WaitsForItself(t)']_vars
  BY WaitsOn
<1>2. QED
  BY <1>1, FramesAlways, PTL DEF Spec
==============================================================================
