------------------------------- MODULE Binary -------------------------------
(***************************************************************************)
(* Binary, BinaryConst and their views: who owns which block of bytes,     *)
(* through construction, copies, moves, assignment and destruction.        *)
(*                                                                         *)
(* The two classes differ in their copy constructors only.  A block that   *)
(* is freed can be allocated again when nothing refers to it; a pointer to *)
(* a free block is a dangling one.  An operation that throws, because of a *)
(* null pointer or of an allocation that fails, changes nothing.           *)
(***************************************************************************)
EXTENDS Bytes

CONSTANTS
    Binaries,      \* the objects of class Binary
    BinaryConsts,  \* those of class BinaryConst
    Copied,        \* those that are made by a copy constructor
    View,          \* BinaryView and BinaryConstView objects
    Block,         \* coap_binary_t and coap_bin_const_t structures
    Memory,        \* those that libcoap owns
    Data,          \* the bytes in a block
    Free,          \* the contents of a block that is not allocated
    NoObject,      \* no object, or no view
    Null,          \* m_rawData of a moved-from object
    Released       \* its value

Object == Binaries \cup BinaryConsts

ASSUME ConstantsAssumption ==
    /\ Binaries \cap BinaryConsts = {}
    /\ Copied \subseteq Binaries \cup BinaryConsts
    /\ Memory \subseteq Block
    /\ Data \subseteq Seq(Byte)
    /\ Free \notin Data
    /\ Null \notin Block
    /\ NoObject \notin Block \cup {Null}
    /\ NoObject # Released
    /\ {NoObject, Released} \cap ([bytes : Data] \cup [at : Memory]) = {}

VARIABLES
    object,  \* each object's m_rawData and m_owned
    view,    \* each view's m_rawData
    heap     \* the bytes in each block

vars == <<object, view, heap>>

Owned(b) == [m_rawData |-> b, m_owned |-> TRUE]
Referring(b) == [m_rawData |-> b, m_owned |-> FALSE]

NoHolder == Referring(NoObject)

(* Variant: the flag stays.                                                *)
MovedFromOwning == Owned(Null)

MovedFrom == Referring(Null)

Holder ==
    [m_rawData : Block, m_owned : BOOLEAN] \cup {NoHolder, Referring(Null)}

TypeOK ==
    /\ object \in [Object -> Holder]
    /\ view \in [View -> Block \cup {NoObject}]
    /\ heap \in [Block -> Data \cup {Free}]

Init ==
    /\ object = [o \in Object |-> NoHolder]
    /\ view = [v \in View |-> NoObject]
    /\ heap \in [Block -> Data \cup {Free}]
    /\ \A b \in Block : heap[b] # Free <=> b \in Memory

------------------------------------------------------------------------------
Raw(o) == object[o].m_rawData
Exists(o) == object[o] # NoHolder
Holds(o) == Raw(o) \in Block

(* malloc.                                                                 *)
Available(b) ==
    /\ heap[b] = Free
    /\ \A o \in Object : Raw(o) # b
    /\ \A v \in View : view[v] # b

(* Variant: the flag is not asked for.                                     *)
FreedWithReferences(h, holder) ==
    IF holder.m_rawData \in Block
    THEN [h EXCEPT ![holder.m_rawData] = Free] ELSE h

(* ~Binary: the block goes with the object that owns it.                   *)
Freed(h, holder) ==
    IF holder.m_rawData \in Block /\ holder.m_owned
    THEN [h EXCEPT ![holder.m_rawData] = Free] ELSE h

(* The application keeps what a view of its refers to.                     *)
Unviewed(o) == object[o].m_owned => \A v \in View : view[v] # Raw(o)

------------------------------------------------------------------------------
Create(o, b, d) ==
    /\ ~Exists(o)
    /\ Available(b)
    /\ object' = [object EXCEPT ![o] = Owned(b)]
    /\ heap' = [heap EXCEPT ![b] = d]
    /\ UNCHANGED view

DeepCopy(o, b, raw) == Create(o, b, heap[raw])

Reference(o, m) ==
    /\ ~Exists(o)
    /\ object' = [object EXCEPT ![o] = Referring(m)]
    /\ UNCHANGED <<view, heap>>

(* Variant: the pointer is copied, and the bytes are not.                  *)
CopyConstructorShallow(o, p, b) ==
    /\ ~Exists(o)
    /\ Holds(p)
    /\ Available(b)
    /\ object' = [object EXCEPT ![o] = object[p]]
    /\ UNCHANGED <<view, heap>>

(* The copy constructors.  A BinaryConst and a deep copy swap.  A Binary   *)
(* takes the pointer of a temporary deep copy, which frees the block when  *)
(* the full expression ends.                                               *)
CopyConstructor(o, p, b) ==
    /\ ~Exists(o)
    /\ Holds(p)
    /\ Available(b)
    /\ object' = [object EXCEPT ![o] = Owned(b)]
    /\ IF o \in BinaryConsts THEN heap' = [heap EXCEPT ![b] = heap[Raw(p)]]
       ELSE UNCHANGED heap
    /\ UNCHANGED view

(* Variant: the moved-from object keeps the pointer.                       *)
MoveConstructorKeeps(o, p) ==
    /\ ~Exists(o)
    /\ Exists(p)
    /\ object' = [object EXCEPT ![o] = object[p]]
    /\ UNCHANGED <<view, heap>>

MoveConstructor(o, p) ==
    /\ ~Exists(o)
    /\ Exists(p)
    /\ object' = [object EXCEPT ![o] = object[p], ![p] = MovedFrom]
    /\ UNCHANGED <<view, heap>>

(* The object and a deep copy swap, and the copy goes with the old bytes.  *)
CopyAssignment(o, p, b) ==
    /\ o # p
    /\ Exists(o) /\ Unviewed(o)
    /\ Holds(p)
    /\ Available(b)
    /\ object' = [object EXCEPT ![o] = Owned(b)]
    /\ heap' = Freed([heap EXCEPT ![b] = heap[Raw(p)]], object[o])
    /\ UNCHANGED view

(* Variant: the assigned object's bytes go at once.                        *)
MoveAssignmentFrees(o, p) ==
    /\ o # p
    /\ Exists(o) /\ Exists(p)
    /\ object' = [object EXCEPT ![o] = object[p], ![p] = MovedFrom]
    /\ heap' = Freed(heap, object[o])
    /\ UNCHANGED view

(* The objects swap: the old bytes go with the moved-from object.          *)
MoveAssignment(o, p) ==
    /\ o # p
    /\ Exists(o) /\ Exists(p)
    /\ object' = [object EXCEPT ![o] = object[p], ![p] = object[o]]
    /\ UNCHANGED <<view, heap>>

Destroy(o) ==
    /\ Exists(o) /\ Unviewed(o)
    /\ object' = [object EXCEPT ![o] = NoHolder]
    /\ heap' = Freed(heap, object[o])
    /\ UNCHANGED view

(* Through data(), which gives the bytes to write to in both classes.      *)
Write(o, d) ==
    /\ Holds(o)
    /\ heap' = [heap EXCEPT ![Raw(o)] = d]
    /\ UNCHANGED <<object, view>>

(* The public functions of an object, whose class the other one shares.    *)
Operations(o, class) ==
    \/ \E b \in Block, d \in Data : Create(o, b, d)
    \/ \E m \in Memory :
          \/ Reference(o, m)
          \/ \E b \in Block : DeepCopy(o, b, m)
    \/ \E p \in class, b \in Block :
          \/ o \in Copied /\ CopyConstructor(o, p, b)
          \/ CopyAssignment(o, p, b)
    \/ \E p \in class : MoveConstructor(o, p) \/ MoveAssignment(o, p)
    \/ Destroy(o)
    \/ \E d \in Data : Write(o, d)

BinaryOperations(o) == Operations(o, Binaries)

BinaryConstOperations(o) == Operations(o, BinaryConsts)

------------------------------------------------------------------------------
(* Views.                                                                  *)

ViewOf(v, b) ==
    /\ view[v] = NoObject
    /\ view' = [view EXCEPT ![v] = b]
    /\ UNCHANGED <<object, heap>>

DropView(v) ==
    /\ view[v] # NoObject
    /\ view' = [view EXCEPT ![v] = NoObject]
    /\ UNCHANGED <<object, heap>>

(* toBinary and toBinaryConst: a deep copy of what the view refers to.     *)
ToBinary(v, o, b) ==
    /\ view[v] # NoObject
    /\ DeepCopy(o, b, view[v])

ViewOperations(v) ==
    \/ \E m \in Memory : ViewOf(v, m)
    \/ \E o \in Object : Holds(o) /\ ViewOf(v, Raw(o))
    \/ DropView(v)
    \/ \E o \in Object, b \in Block : ToBinary(v, o, b)

Next ==
    \/ \E o \in Binaries : BinaryOperations(o)
    \/ \E o \in BinaryConsts : BinaryConstOperations(o)
    \/ \E v \in View : ViewOperations(v)

Spec == Init /\ [][Next]_vars

------------------------------------------------------------------------------
(* Properties.                                                             *)

(* Every block the library allocated has exactly one owner, and an owner's *)
(* block is an allocated one: nothing leaks, nothing is freed twice, and   *)
(* no object reads freed bytes (Binary.h:23, BinaryConst.h:24).            *)
OwnedOnce ==
    /\ \A o \in Object :
          object[o].m_owned => Raw(o) \in Block \ Memory /\ heap[Raw(o)] # Free
    /\ \A b \in Block \ Memory :
          heap[b] # Free => \E o \in Object : object[o] = Owned(b)
    /\ \A o, p \in Object :
          object[o].m_owned /\ object[p].m_owned /\ Raw(o) = Raw(p) => o = p

(* libcoap's memory is never freed by an object that refers to it.         *)
MemoryIsLibcoaps == \A m \in Memory : heap[m] # Free

(* A view reads allocated bytes for as long as some object holds them,     *)
(* whichever that is now: moves and swaps do not disturb it.               *)
ViewsAlive == \A v \in View : view[v] # NoObject => heap[view[v]] # Free

(* What the objects look like from outside ...                             *)
ValueOf(o) ==
    CASE ~Exists(o) -> NoObject
      [] Exists(o) /\ ~Holds(o) -> Released
      [] Holds(o) /\ object[o].m_owned -> [bytes |-> heap[Raw(o)]]
      [] Holds(o) /\ ~object[o].m_owned -> [at |-> Raw(o)]

Value == INSTANCE BinaryValue
    WITH value <- [o \in Object |-> ValueOf(o)],
         memory <- [m \in Memory |-> heap[m]]

(* ... is values: a copy is independent of its original, whatever is       *)
(* assigned, moved, written or destroyed later.                            *)
ValueSpec == Value!Spec

(* Of two tokens exactly one is smaller, or they are equal, and what is    *)
(* smaller than a smaller one is smaller: the strict total order that the  *)
(* map of handlings (SendersManager.h:133) needs of operator<, and that    *)
(* agrees with the operator== of AckHandler.  Moved-from tokens are not    *)
(* keys.                                                                   *)
TokensAreOrdered ==
    LET Token == {heap[Raw(q)] : q \in {o \in Object : Holds(o)}}
    IN  /\ \A a, b \in Token :
              Cardinality({c \in {"less", "equal", "greater"} :
                  \/ c = "less" /\ Less(a, b)
                  \/ c = "equal" /\ Equal(a, b)
                  \/ c = "greater" /\ Less(b, a)}) = 1
        /\ \A a, b, c \in Token : Less(a, b) /\ Less(b, c) => Less(a, c)

(* An integer comes back from its encoding, which has no leading zero      *)
(* (the content format, RequestPdu.cc:83), and toUInt64 and Decoder agree  *)
(* on the bytes of every object that an integer has room for.              *)
IntegersComeBack ==
    /\ \A n \in 0..(Power[Width] - 1) :
          LET s == Encode(n) IN Decode(s) = n /\ (s # <<>> => s[1] # 0)
    /\ \A o \in {q \in Object : Holds(q)} :
          LET s == heap[Raw(o)] IN Len(s) <= Width => ToUInt64(s) = Decode(s)
==============================================================================
