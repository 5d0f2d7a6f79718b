----------------------------- MODULE BinaryValue -----------------------------
(***************************************************************************)
(* What Binary and BinaryConst promise: an object is a value, bytes of its *)
(* own that no other object shares, or, when made by Reference, a name for *)
(* memory of libcoap's.  A moved-from object holds what its new owner had. *)
(***************************************************************************)
CONSTANTS Object, Memory, Data, NoObject, Released

VARIABLES value, memory

Own(d) == [bytes |-> d]
Alias(m) == [at |-> m]

Holding == [bytes : Data] \cup [at : Memory]

Exists(o) == value[o] # NoObject
Holds(o) == value[o] \in Holding

Read(o) ==
    IF value[o] \in [at : Memory] THEN memory[value[o].at] ELSE value[o].bytes

Init ==
    /\ value = [o \in Object |-> NoObject]
    /\ memory \in [Memory -> Data]

Become(o, v) == value' = [value EXCEPT ![o] = v] /\ UNCHANGED memory

New(o) ==
    /\ ~Exists(o)
    /\ \E v \in Holding : Become(o, v)

CopyTo(o, p) == Holds(p) /\ Become(o, Own(Read(p)))

MoveTo(o, p) ==
    /\ ~Exists(o)
    /\ Exists(p)
    /\ value' = [value EXCEPT ![o] = value[p], ![p] = Released]
    /\ UNCHANGED memory

Swap(o, p) ==
    /\ Exists(o) /\ Exists(p)
    /\ value' = [value EXCEPT ![o] = value[p], ![p] = value[o]]
    /\ UNCHANGED memory

Destroy(o) == Exists(o) /\ Become(o, NoObject)

Write(o, d) ==
    \/ value[o] \in [bytes : Data] /\ Become(o, Own(d))
    \/ /\ value[o] \in [at : Memory]
       /\ memory' = [memory EXCEPT ![value[o].at] = d]
       /\ UNCHANGED value

Next ==
    \E o \in Object :
        \/ New(o)
        \/ Destroy(o)
        \/ \E p \in Object : CopyTo(o, p) \/ MoveTo(o, p) \/ Swap(o, p)
        \/ \E d \in Data : Write(o, d)

Spec == Init /\ [][Next]_<<value, memory>>
==============================================================================
