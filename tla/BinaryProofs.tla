---------------------------- MODULE BinaryProofs ----------------------------
(***************************************************************************)
(* Theorems about Binary, for any number of objects, views and blocks, of  *)
(* programs that copy-construct no object of class Binary: types, the      *)
(* owner of each block, views, objects as values, the order of tokens and  *)
(* the integers in options.                                                *)
(***************************************************************************)
EXTENDS Binary, FiniteSetTheorems, WellFoundedInduction, TLAPS

(* The copy constructor of Binary keeps a pointer to a freed block: what   *)
(* is proved here is the rest.                                             *)
NoBinaryCopied == Copied \cap Binaries = {}

------------------------------------------------------------------------------
(* Type correctness, which needs no such program.                          *)

(* What an object may hold.                                                *)
LEMMA Holders ==
    /\ NoHolder \in Holder
    /\ MovedFrom \in Holder
    /\ \A b \in Block : Owned(b) \in Holder /\ Referring(b) \in Holder
    /\ \A h \in Holder : h.m_owned => h.m_rawData \in Block
    /\ \A h \in Holder :
          h.m_rawData \in Block \/ h = NoHolder \/ h = MovedFrom
<1>1. NoHolder \in Holder /\ MovedFrom \in Holder
  BY DEF Holder, NoHolder, MovedFrom, Referring
<1>2. \A b \in Block : Owned(b) \in Holder /\ Referring(b) \in Holder
  BY DEF Holder, Owned, Referring
<1>3. \A h \in Holder : h.m_owned => h.m_rawData \in Block
  BY DEF Holder, NoHolder, Referring
<1>4. \A h \in Holder :
          h.m_rawData \in Block \/ h = NoHolder \/ h = MovedFrom
  BY DEF Holder, NoHolder, MovedFrom, Referring
<1>5. QED
  BY <1>1, <1>2, <1>3, <1>4

(* The heap keeps its type when a holder's block is freed.                 *)
LEMMA FreedType ==
    ASSUME NEW h \in [Block -> Data \cup {Free}], NEW holder \in Holder
    PROVE  Freed(h, holder) \in [Block -> Data \cup {Free}]
BY DEF Freed

(* An object that is made keeps the types.                                 *)
LEMMA CreateTypes ==
    ASSUME TypeOK, NEW o \in Object, NEW b \in Block,
           NEW d \in Data \cup {Free}, Create(o, b, d)
    PROVE  TypeOK'
BY Holders DEF Create, TypeOK

(* Every variable keeps its type.                                          *)
THEOREM TypeCorrect == Spec => []TypeOK
<1>1. ASSUME Init
      PROVE  TypeOK
  BY <1>1, Holders DEF Init, TypeOK
<1>2. ASSUME TypeOK, [Next]_vars
      PROVE  TypeOK'
  <2>1. ASSUME NEW o \in Object, NEW class \in {Binaries, BinaryConsts},
               Operations(o, class)
        PROVE  TypeOK'
    <3>0. class \subseteq Object
      BY DEF Object
    <3>1. ASSUME NEW b \in Block, NEW d \in Data, Create(o, b, d)
          PROVE  TypeOK'
      BY <1>2, <3>1, CreateTypes
    <3>2. ASSUME NEW m \in Memory, Reference(o, m)
          PROVE  TypeOK'
      BY <1>2, <3>2, Holders, ConstantsAssumption DEF Reference, TypeOK
    <3>3. ASSUME NEW m \in Memory, NEW b \in Block, DeepCopy(o, b, m)
          PROVE  TypeOK'
      <4>1. heap[m] \in Data \cup {Free}
        BY <1>2, ConstantsAssumption DEF TypeOK
      <4>2. QED
        BY <1>2, <3>3, <4>1, CreateTypes DEF DeepCopy
    <3>4. ASSUME NEW p \in class, NEW b \in Block, CopyConstructor(o, p, b)
          PROVE  TypeOK'
      <4>1. heap[Raw(p)] \in Data \cup {Free}
        BY <1>2, <3>4 DEF CopyConstructor, Holds, TypeOK
      <4>2. QED
        BY <1>2, <3>4, <4>1, Holders DEF CopyConstructor, TypeOK
    <3>5. ASSUME NEW p \in class, NEW b \in Block, CopyAssignment(o, p, b)
          PROVE  TypeOK'
      <4>1. heap[Raw(p)] \in Data \cup {Free}
        BY <1>2, <3>5 DEF CopyAssignment, Holds, TypeOK
      <4>2. [heap EXCEPT ![b] = heap[Raw(p)]] \in [Block -> Data \cup {Free}]
        BY <1>2, <4>1 DEF TypeOK
      <4>3. heap' \in [Block -> Data \cup {Free}]
        BY <1>2, <3>5, <4>2, FreedType DEF CopyAssignment, TypeOK
      <4>4. QED
        BY <1>2, <3>5, <4>3, Holders DEF CopyAssignment, TypeOK
    <3>6. ASSUME NEW p \in class, MoveConstructor(o, p)
          PROVE  TypeOK'
      BY <1>2, <3>0, <3>6, Holders DEF MoveConstructor, TypeOK
    <3>7. ASSUME NEW p \in class, MoveAssignment(o, p)
          PROVE  TypeOK'
      BY <1>2, <3>0, <3>7 DEF MoveAssignment, TypeOK
    <3>8. CASE Destroy(o)
      <4>1. heap' \in [Block -> Data \cup {Free}]
        BY <1>2, <3>8, FreedType DEF Destroy, TypeOK
      <4>2. QED
        BY <1>2, <3>8, <4>1, Holders DEF Destroy, TypeOK
    <3>9. ASSUME NEW d \in Data, Write(o, d)
          PROVE  TypeOK'
      BY <1>2, <3>9 DEF Write, Holds, TypeOK
    <3>10. QED
      BY <2>1, <3>1, <3>2, <3>3, <3>4, <3>5, <3>6, <3>7, <3>8, <3>9
      DEF Operations
  <2>2. ASSUME NEW v \in View, ViewOperations(v)
        PROVE  TypeOK'
    <3>1. ASSUME NEW b \in Block, ViewOf(v, b)
          PROVE  TypeOK'
      BY <1>2, <3>1 DEF ViewOf, TypeOK
    <3>2. CASE DropView(v)
      BY <1>2, <3>2 DEF DropView, TypeOK
    <3>3. ASSUME NEW o \in Object, NEW b \in Block, ToBinary(v, o, b)
          PROVE  TypeOK'
      <4>1. heap[view[v]] \in Data \cup {Free}
        BY <1>2, <3>3 DEF ToBinary, TypeOK
      <4>2. QED
        BY <1>2, <3>3, <4>1, CreateTypes DEF ToBinary, DeepCopy
    <3>4. QED
      BY <2>2, <3>1, <3>2, <3>3, ConstantsAssumption
      DEF ViewOperations, Holds
  <2>3. CASE UNCHANGED vars
    BY <1>2, <2>3 DEF TypeOK, vars
  <2>4. QED
    BY <1>2, <2>1, <2>2, <2>3
    DEF Next, BinaryOperations, BinaryConstOperations, Object
<1>3. QED
  BY <1>1, <1>2, PTL DEF Spec

------------------------------------------------------------------------------
(* Ownership.                                                              *)

(* The objects made by Reference name memory of libcoap's.                 *)
RefersToMemory ==
    \A o \in Object : Holds(o) /\ ~object[o].m_owned => Raw(o) \in Memory

(* The inductive invariant: what the properties say of owners needs that   *)
(* memory an object does not own is never freed under it.                  *)
Ownership ==
    /\ TypeOK
    /\ OwnedOnce
    /\ MemoryIsLibcoaps
    /\ ViewsAlive
    /\ RefersToMemory

(* Whatever an object holds is allocated.                                  *)
LEMMA HeldIsAllocated ==
    ASSUME Ownership
    PROVE  \A o \in Object :
               Holds(o) => Raw(o) \in Block /\ heap[Raw(o)] \in Data
BY ConstantsAssumption
DEF Ownership, TypeOK, OwnedOnce, MemoryIsLibcoaps, RefersToMemory, Holds, Raw

(* An object that gets a new block owns it.                                *)
LEMMA CreateOwnership ==
    ASSUME Ownership, NEW o \in Object, NEW b \in Block, NEW d \in Data,
           Create(o, b, d)
    PROVE  Ownership'
<1> USE ConstantsAssumption DEF Ownership
<1>1. TypeOK'
  BY CreateTypes
<1>2. /\ b \notin Memory
      /\ \A p \in Object : Raw(p) # b
      /\ \A v \in View : view[v] # b
  BY DEF Create, Available, MemoryIsLibcoaps
<1>3. /\ object' = [object EXCEPT ![o] = Owned(b)]
      /\ heap' = [heap EXCEPT ![b] = d]
      /\ view' = view
      /\ object[o] = NoHolder
  BY DEF Create, Exists
<1>4. /\ object'[o].m_owned = TRUE
      /\ object'[o].m_rawData = b
      /\ heap'[b] # Free
      /\ \A p \in Object \ {o} : object'[p] = object[p]
      /\ \A c \in Block \ {b} : heap'[c] = heap[c]
      /\ ~object[o].m_owned
  BY <1>3 DEF TypeOK, Owned, NoHolder, Referring
<1>5. OwnedOnce'
  <2>1. \A p \in Object :
           object'[p].m_owned =>
              Raw(p)' \in Block \ Memory /\ heap'[Raw(p)'] # Free
    BY <1>2, <1>4 DEF Raw, OwnedOnce
  <2>2. \A c \in Block \ Memory :
           heap'[c] # Free => \E p \in Object : object'[p] = Owned(c)
    <3>1. object'[o] = Owned(b)
      BY <1>3 DEF TypeOK
    <3>2. ASSUME NEW c \in Block \ Memory, heap'[c] # Free, c # b
          PROVE  \E p \in Object : object'[p] = Owned(c)
      <4>1. PICK p \in Object : object[p] = Owned(c)
        BY <1>4, <3>2 DEF OwnedOnce
      <4>2. p # o
        BY <1>4, <4>1 DEF Owned
      <4>3. QED
        BY <1>4, <4>1, <4>2
    <3>3. QED
      BY <3>1, <3>2
  <2>3. \A p, q \in Object :
           object'[p].m_owned /\ object'[q].m_owned /\ Raw(p)' = Raw(q)'
              => p = q
    BY <1>2, <1>4 DEF Raw, OwnedOnce
  <2>4. QED
    BY <2>1, <2>2, <2>3 DEF OwnedOnce
<1>6. MemoryIsLibcoaps'
  BY <1>2, <1>4 DEF MemoryIsLibcoaps
<1>7. ViewsAlive'
  BY <1>2, <1>3, <1>4 DEF ViewsAlive, TypeOK
<1>8. RefersToMemory'
  BY <1>4 DEF RefersToMemory, Holds, Raw
<1>9. QED
  BY <1>1, <1>5, <1>6, <1>7, <1>8

(* The block of an object that changes hands or goes is freed with no      *)
(* other object or view left on it.                                        *)
LEMMA FreedOwnership ==
    ASSUME Ownership, NEW o \in Object, Unviewed(o)
    PROVE  LET h == Freed(heap, object[o])
           IN  /\ \A c \in Block : h[c] # heap[c] =>
                     c = Raw(o) /\ object[o].m_owned /\ h[c] = Free
               /\ object[o].m_owned => h[Raw(o)] = Free
               /\ \A m \in Memory : h[m] = heap[m]
               /\ \A v \in View :
                     view[v] \in Block => h[view[v]] = heap[view[v]]
               /\ \A p \in Object \ {o} : Holds(p) => h[Raw(p)] = heap[Raw(p)]
BY ConstantsAssumption
DEF Ownership, TypeOK, OwnedOnce, RefersToMemory, Freed, Unviewed, Raw, Holds

(* A destructor frees its own block only.                                  *)
LEMMA DestroyOwnership ==
    ASSUME Ownership, NEW o \in Object, Destroy(o)
    PROVE  Ownership'
<1> USE ConstantsAssumption DEF Ownership
<1> DEFINE h == Freed(heap, object[o])
<1>1. TypeOK'
  BY Holders, FreedType DEF Destroy, TypeOK
<1>2. /\ object' = [object EXCEPT ![o] = NoHolder]
      /\ heap' = h
      /\ view' = view
      /\ Unviewed(o)
  BY DEF Destroy
<1>3. /\ \A c \in Block : h[c] # heap[c] =>
            c = Raw(o) /\ object[o].m_owned /\ h[c] = Free
      /\ object[o].m_owned => h[Raw(o)] = Free
      /\ \A m \in Memory : h[m] = heap[m]
      /\ \A v \in View : view[v] \in Block => h[view[v]] = heap[view[v]]
      /\ \A p \in Object \ {o} : Holds(p) => h[Raw(p)] = heap[Raw(p)]
  BY <1>2, FreedOwnership
<1> HIDE DEF h
<1>4. /\ object'[o].m_owned = FALSE
      /\ object'[o].m_rawData = NoObject
      /\ \A p \in Object \ {o} : object'[p] = object[p]
  BY <1>2 DEF TypeOK, NoHolder, Referring
<1>5. OwnedOnce'
  <2>1. \A p \in Object :
           object'[p].m_owned =>
              Raw(p)' \in Block \ Memory /\ heap'[Raw(p)'] # Free
    BY <1>2, <1>3, <1>4 DEF Raw, Holds, OwnedOnce
  <2>2. ASSUME NEW c \in Block \ Memory, heap'[c] # Free
        PROVE  \E p \in Object : object'[p] = Owned(c)
    <3>1. heap[c] # Free
      BY <1>2, <1>3, <2>2
    <3>2. PICK p \in Object : object[p] = Owned(c)
      BY <3>1 DEF OwnedOnce
    <3>3. p # o
      BY <1>2, <1>3, <2>2, <3>2 DEF Owned, Raw
    <3>4. QED
      BY <1>4, <3>2, <3>3
  <2>3. \A p, q \in Object :
           object'[p].m_owned /\ object'[q].m_owned /\ Raw(p)' = Raw(q)'
              => p = q
    BY <1>4 DEF Raw, OwnedOnce
  <2>4. QED
    BY <2>1, <2>2, <2>3 DEF OwnedOnce
<1>6. MemoryIsLibcoaps'
  BY <1>2, <1>3 DEF MemoryIsLibcoaps
<1>7. ViewsAlive'
  BY <1>2, <1>3 DEF ViewsAlive, TypeOK
<1>8. RefersToMemory'
  BY <1>4 DEF RefersToMemory, Holds, Raw
<1>9. QED
  BY <1>1, <1>5, <1>6, <1>7, <1>8

(* Copy assignment frees the old block and owns the copy.                  *)
LEMMA CopyAssignmentOwnership ==
    ASSUME Ownership, NEW o \in Object, NEW p \in Object, NEW b \in Block,
           CopyAssignment(o, p, b)
    PROVE  Ownership'
<1> USE ConstantsAssumption DEF Ownership
<1> DEFINE d == heap[Raw(p)]
           h == Freed(heap, object[o])
<1>1. d \in Data /\ Raw(p) \in Block
  BY HeldIsAllocated DEF CopyAssignment
<1>2. /\ b \notin Memory
      /\ \A q \in Object : Raw(q) # b
      /\ \A v \in View : view[v] # b
  BY DEF CopyAssignment, Available, MemoryIsLibcoaps
<1>3. /\ object' = [object EXCEPT ![o] = Owned(b)]
      /\ heap' = [h EXCEPT ![b] = d]
      /\ view' = view
      /\ Unviewed(o)
  BY <1>1, <1>2 DEF CopyAssignment, Freed, Raw, TypeOK
<1>4. /\ \A c \in Block : h[c] # heap[c] =>
            c = Raw(o) /\ object[o].m_owned /\ h[c] = Free
      /\ object[o].m_owned => h[Raw(o)] = Free
      /\ \A m \in Memory : h[m] = heap[m]
      /\ \A v \in View : view[v] \in Block => h[view[v]] = heap[view[v]]
      /\ \A q \in Object \ {o} : Holds(q) => h[Raw(q)] = heap[Raw(q)]
  BY <1>3, FreedOwnership
<1>5. h \in [Block -> Data \cup {Free}]
  BY FreedType DEF TypeOK
<1> HIDE DEF d, h
<1>6. TypeOK'
  BY <1>1, <1>3, <1>5, Holders DEF TypeOK
<1>7. /\ object'[o].m_owned = TRUE
      /\ object'[o].m_rawData = b
      /\ object'[o] = Owned(b)
      /\ heap'[b] # Free
      /\ \A q \in Object \ {o} : object'[q] = object[q]
      /\ \A c \in Block \ {b} : heap'[c] = h[c]
  BY <1>1, <1>3, <1>5 DEF TypeOK, Owned
<1>8. OwnedOnce'
  <2>1. \A q \in Object :
           object'[q].m_owned =>
              Raw(q)' \in Block \ Memory /\ heap'[Raw(q)'] # Free
    BY <1>2, <1>4, <1>7 DEF Raw, Holds, OwnedOnce
  <2>2. ASSUME NEW c \in Block \ Memory, heap'[c] # Free, c # b
        PROVE  \E q \in Object : object'[q] = Owned(c)
    <3>1. heap[c] # Free
      BY <1>4, <1>7, <2>2
    <3>2. PICK q \in Object : object[q] = Owned(c)
      BY <3>1 DEF OwnedOnce
    <3>3. q # o
      BY <1>4, <1>7, <2>2, <3>2 DEF Owned, Raw
    <3>4. QED
      BY <1>7, <3>2, <3>3
  <2>3. \A q, r \in Object :
           object'[q].m_owned /\ object'[r].m_owned /\ Raw(q)' = Raw(r)'
              => q = r
    BY <1>2, <1>7 DEF Raw, OwnedOnce
  <2>4. QED
    BY <1>7, <2>1, <2>2, <2>3 DEF OwnedOnce
<1>9. MemoryIsLibcoaps'
  BY <1>2, <1>4, <1>7 DEF MemoryIsLibcoaps
<1>10. ViewsAlive'
  BY <1>2, <1>3, <1>4, <1>7 DEF ViewsAlive, TypeOK
<1>11. RefersToMemory'
  BY <1>7 DEF RefersToMemory, Holds, Raw
<1>12. QED
  BY <1>6, <1>8, <1>9, <1>10, <1>11

(* Two objects exchange what they hold.                                    *)
LEMMA ExchangeOwnership ==
    ASSUME Ownership, NEW o \in Object, NEW p \in Object, o # p,
           object' \in [Object -> Holder],
           object'[o] = object[p],
           \/ object'[p] = object[o]
           \/ object[o] = NoHolder /\ object'[p] = MovedFrom,
           \A q \in Object \ {o, p} : object'[q] = object[q],
           UNCHANGED <<view, heap>>
    PROVE  Ownership'
<1> USE DEF Ownership
<1>1. /\ object'[o] = object[p]
      /\ \/ object'[p] = object[o]
         \/ ~object'[p].m_owned /\ ~object[o].m_owned
      /\ \A q \in Object \ {o, p} : object'[q] = object[q]
  BY DEF NoHolder, MovedFrom, Referring
<1>2. TypeOK'
  BY <1>1 DEF TypeOK
<1>3. OwnedOnce'
  <2>1. \A q \in Object :
           object'[q].m_owned =>
              Raw(q)' \in Block \ Memory /\ heap'[Raw(q)'] # Free
    BY <1>1 DEF Raw, OwnedOnce
  <2>2. ASSUME NEW c \in Block \ Memory, heap'[c] # Free
        PROVE  \E q \in Object : object'[q] = Owned(c)
    <3>1. PICK q \in Object : object[q] = Owned(c)
      BY <2>2 DEF OwnedOnce
    <3>2. object[q].m_owned
      BY <3>1 DEF Owned
    <3>3. QED
      BY <1>1, <3>1, <3>2
  <2>3. \A q, r \in Object :
           object'[q].m_owned /\ object'[r].m_owned /\ Raw(q)' = Raw(r)'
              => q = r
    BY <1>1 DEF Raw, OwnedOnce
  <2>4. QED
    BY <2>1, <2>2, <2>3 DEF OwnedOnce
<1>4. MemoryIsLibcoaps' /\ ViewsAlive'
  BY DEF MemoryIsLibcoaps, ViewsAlive
<1>5. RefersToMemory'
  <2>1. MovedFrom.m_rawData \notin Block
    BY ConstantsAssumption DEF MovedFrom, Referring
  <2>2. object'[p] = object[o] \/ object'[p] = MovedFrom
    OBVIOUS
  <2>3. QED
    BY <1>1, <2>1, <2>2 DEF RefersToMemory, Holds, Raw
<1>6. QED
  BY <1>2, <1>3, <1>4, <1>5

(* Each operation on an object keeps blocks and owners together.           *)
LEMMA OperationOwnership ==
    ASSUME Ownership, NoBinaryCopied, NEW o \in Object,
           NEW class \in {Binaries, BinaryConsts}, o \in class,
           Operations(o, class)
    PROVE  Ownership'
<1> USE ConstantsAssumption
<1>0. class \subseteq Object
  BY DEF Object
<1>1. ASSUME NEW b \in Block, NEW d \in Data, Create(o, b, d)
      PROVE  Ownership'
  BY <1>1, CreateOwnership
<1>2. ASSUME NEW m \in Memory, Reference(o, m)
      PROVE  Ownership'
  <2>1. /\ object' = [object EXCEPT ![o] = Referring(m)]
        /\ object[o] = NoHolder
        /\ UNCHANGED <<view, heap>>
    BY <1>2 DEF Reference, Exists
  <2>2. /\ object'[o].m_owned = FALSE
        /\ object'[o].m_rawData = m
        /\ ~object[o].m_owned
        /\ \A p \in Object \ {o} : object'[p] = object[p]
    BY <2>1 DEF Ownership, TypeOK, Referring, NoHolder
  <2>3. TypeOK'
    BY <2>1, Holders DEF Ownership, TypeOK
  <2>4. OwnedOnce'
    <3>1. \A p \in Object :
             object'[p].m_owned =>
                Raw(p)' \in Block \ Memory /\ heap'[Raw(p)'] # Free
      BY <2>1, <2>2 DEF Raw, Ownership, OwnedOnce
    <3>2. ASSUME NEW c \in Block \ Memory, heap'[c] # Free
          PROVE  \E p \in Object : object'[p] = Owned(c)
      <4>1. PICK p \in Object : object[p] = Owned(c)
        BY <2>1, <3>2 DEF Ownership, OwnedOnce
      <4>2. QED
        BY <2>1, <2>2, <4>1 DEF Owned
    <3>3. \A p, q \in Object :
             object'[p].m_owned /\ object'[q].m_owned /\ Raw(p)' = Raw(q)'
                => p = q
      BY <2>2 DEF Raw, Ownership, OwnedOnce
    <3>4. QED
      BY <3>1, <3>2, <3>3 DEF OwnedOnce
  <2>5. MemoryIsLibcoaps' /\ ViewsAlive'
    BY <2>1 DEF Ownership, MemoryIsLibcoaps, ViewsAlive
  <2>6. RefersToMemory'
    BY <2>2 DEF Ownership, RefersToMemory, Holds, Raw
  <2>7. QED
    BY <2>3, <2>4, <2>5, <2>6 DEF Ownership
<1>3. ASSUME NEW m \in Memory, NEW b \in Block, DeepCopy(o, b, m)
      PROVE  Ownership'
  <2>1. heap[m] \in Data
    BY DEF Ownership, TypeOK, MemoryIsLibcoaps
  <2>2. QED
    BY <1>3, <2>1, CreateOwnership DEF DeepCopy
<1>4. ASSUME NEW p \in class, NEW b \in Block, o \in Copied,
             CopyConstructor(o, p, b)
      PROVE  Ownership'
  <2>1. o \in BinaryConsts
    BY <1>4 DEF NoBinaryCopied, Object
  <2>2. heap[Raw(p)] \in Data
    BY <1>0, <1>4, HeldIsAllocated DEF CopyConstructor
  <2>3. Create(o, b, heap[Raw(p)])
    BY <1>4, <2>1 DEF CopyConstructor, Create
  <2>4. QED
    BY <2>2, <2>3, CreateOwnership
<1>5. ASSUME NEW p \in class, NEW b \in Block, CopyAssignment(o, p, b)
      PROVE  Ownership'
  BY <1>0, <1>5, CopyAssignmentOwnership
<1>6. ASSUME NEW p \in class, MoveConstructor(o, p)
      PROVE  Ownership'
  <2>1. /\ o # p /\ p \in Object
        /\ object[o] = NoHolder
        /\ UNCHANGED <<view, heap>>
    BY <1>0, <1>6 DEF MoveConstructor, Exists
  <2>2. /\ object' \in [Object -> Holder]
        /\ object'[o] = object[p]
        /\ object'[p] = MovedFrom
        /\ \A q \in Object \ {o, p} : object'[q] = object[q]
    BY <1>6, <2>1, Holders DEF MoveConstructor, Ownership, TypeOK
  <2>3. QED
    BY <2>1, <2>2, Holders, ExchangeOwnership
<1>7. ASSUME NEW p \in class, MoveAssignment(o, p)
      PROVE  Ownership'
  <2>1. /\ o # p /\ p \in Object
        /\ object[o] \in Holder
        /\ UNCHANGED <<view, heap>>
    BY <1>0, <1>7 DEF MoveAssignment, Ownership, TypeOK
  <2>2. /\ object' \in [Object -> Holder]
        /\ object'[o] = object[p]
        /\ object'[p] = object[o]
        /\ \A q \in Object \ {o, p} : object'[q] = object[q]
    BY <1>7, <2>1 DEF MoveAssignment, Ownership, TypeOK
  <2>3. QED
    BY <2>1, <2>2, ExchangeOwnership
<1>8. CASE Destroy(o)
  BY <1>8, DestroyOwnership
<1>9. ASSUME NEW d \in Data, Write(o, d)
      PROVE  Ownership'
  <2>1. /\ heap' = [heap EXCEPT ![Raw(o)] = d]
        /\ Raw(o) \in Block
        /\ heap[Raw(o)] # Free
        /\ UNCHANGED <<object, view>>
    BY <1>9, HeldIsAllocated DEF Write, Holds
  <2>2. /\ heap' \in [Block -> Data \cup {Free}]
        /\ \A c \in Block : heap'[c] # Free <=> heap[c] # Free
    BY <2>1 DEF Ownership, TypeOK
  <2>3. TypeOK' /\ MemoryIsLibcoaps' /\ RefersToMemory'
    BY <2>1, <2>2
    DEF Ownership, TypeOK, MemoryIsLibcoaps, RefersToMemory, Raw, Holds
  <2>4. ViewsAlive'
    BY <2>1, <2>2 DEF Ownership, TypeOK, ViewsAlive
  <2>5. OwnedOnce'
    BY <2>1, <2>2 DEF Ownership, OwnedOnce, Raw
  <2>6. QED
    BY <2>3, <2>4, <2>5 DEF Ownership
<1>10. QED
  BY <1>1, <1>2, <1>3, <1>4, <1>5, <1>6, <1>7, <1>8, <1>9 DEF Operations

(* Views own nothing.                                                      *)
LEMMA ViewOwnership ==
    ASSUME Ownership, NEW v \in View, ViewOperations(v)
    PROVE  Ownership'
<1> USE ConstantsAssumption
<1>1. ASSUME NEW b \in Block, heap[b] # Free, ViewOf(v, b)
      PROVE  Ownership'
  BY <1>1
  DEF Ownership, TypeOK, OwnedOnce, MemoryIsLibcoaps, ViewsAlive,
      RefersToMemory, Raw, Holds, ViewOf
<1>2. ASSUME NEW m \in Memory, ViewOf(v, m)
      PROVE  Ownership'
  BY <1>1, <1>2 DEF Ownership, MemoryIsLibcoaps
<1>3. ASSUME NEW o \in Object, Holds(o), ViewOf(v, Raw(o))
      PROVE  Ownership'
  BY <1>1, <1>3, HeldIsAllocated
<1>4. CASE DropView(v)
  BY <1>4
  DEF Ownership, TypeOK, OwnedOnce, MemoryIsLibcoaps, ViewsAlive,
      RefersToMemory, Raw, Holds, DropView
<1>5. ASSUME NEW o \in Object, NEW b \in Block, ToBinary(v, o, b)
      PROVE  Ownership'
  <2>1. heap[view[v]] \in Data
    BY <1>5 DEF ToBinary, Ownership, TypeOK, ViewsAlive
  <2>2. QED
    BY <1>5, <2>1, CreateOwnership DEF ToBinary, DeepCopy
<1>6. QED
  BY <1>2, <1>3, <1>4, <1>5 DEF ViewOperations

(* So does every step of the program.                                      *)
LEMMA OwnershipStep ==
    ASSUME Ownership, NoBinaryCopied, [Next]_vars
    PROVE  Ownership'
<1>1. CASE Next
  BY <1>1, OperationOwnership, ViewOwnership
  DEF Next, BinaryOperations, BinaryConstOperations, Object
<1>2. CASE UNCHANGED vars
  BY <1>2
  DEF vars, Ownership, TypeOK, OwnedOnce, MemoryIsLibcoaps, ViewsAlive,
      RefersToMemory, Raw, Holds
<1>3. QED
  BY <1>1, <1>2

(* There is no object at first, and libcoap's memory is there.             *)
LEMMA OwnershipInit ==
    ASSUME Init
    PROVE  Ownership
<1> USE ConstantsAssumption
<1>1. TypeOK
  BY Holders DEF Init, TypeOK
<1>2. \A o \in Object : ~object[o].m_owned /\ ~Holds(o)
  BY DEF Init, NoHolder, Referring, Holds, Raw
<1>3. MemoryIsLibcoaps /\ ViewsAlive
  BY DEF Init, MemoryIsLibcoaps, ViewsAlive
<1>4. OwnedOnce /\ RefersToMemory
  BY <1>2 DEF Init, OwnedOnce, RefersToMemory
<1>5. QED
  BY <1>1, <1>3, <1>4 DEF Ownership

(* Every allocated block has one owner, an owner's block is allocated, and *)
(* what an object refers to is libcoap's.                                  *)
THEOREM Ownerships == NoBinaryCopied => (Spec => []Ownership)
<1> SUFFICES ASSUME NoBinaryCopied
             PROVE  Spec => []Ownership
  OBVIOUS
<1>1. QED
  BY OwnershipInit, OwnershipStep, PTL DEF Spec

(* No block leaks, is freed twice or is read by its owner after it went.   *)
THEOREM OneOwner == NoBinaryCopied => (Spec => []OwnedOnce)
BY Ownerships, PTL DEF Ownership

(* No object frees the memory it was made to refer to.                     *)
THEOREM MemoryStays == NoBinaryCopied => (Spec => []MemoryIsLibcoaps)
BY Ownerships, PTL DEF Ownership

(* Moves and swaps leave a view on allocated bytes.                        *)
THEOREM ViewsStayAlive == NoBinaryCopied => (Spec => []ViewsAlive)
BY Ownerships, PTL DEF Ownership

------------------------------------------------------------------------------
(* Objects as values.                                                      *)

value == [o \in Object |-> ValueOf(o)]
memory == [m \in Memory |-> heap[m]]

(* What an object's value is in each of its states.                        *)
LEMMA ValueCases ==
    ASSUME Ownership, NEW o \in Object
    PROVE  /\ ~Exists(o) => ValueOf(o) = NoObject
           /\ Exists(o) /\ ~Holds(o) => ValueOf(o) = Released
           /\ Holds(o) /\ object[o].m_owned =>
                  /\ ValueOf(o) = [bytes |-> heap[Raw(o)]]
                  /\ ValueOf(o) \in [bytes : Data]
           /\ Holds(o) /\ ~object[o].m_owned =>
                  /\ ValueOf(o) = [at |-> Raw(o)]
                  /\ ValueOf(o) \in [at : Memory]
<1>1. ~Exists(o) => ~Holds(o)
  BY ConstantsAssumption DEF Exists, Holds, Raw, NoHolder, Referring
<1>2. Holds(o) => heap[Raw(o)] \in Data
  BY HeldIsAllocated
<1>3. Holds(o) /\ ~object[o].m_owned => Raw(o) \in Memory
  BY DEF Ownership, RefersToMemory
<1>4. Holds(o) => Exists(o)
  BY <1>1
<1>5. ~Exists(o) => ValueOf(o) = NoObject
  BY <1>1 DEF ValueOf
<1>6. Exists(o) /\ ~Holds(o) => ValueOf(o) = Released
  BY DEF ValueOf
<1>7. Holds(o) /\ object[o].m_owned => ValueOf(o) = [bytes |-> heap[Raw(o)]]
  BY <1>4 DEF ValueOf
<1>8. Holds(o) /\ ~object[o].m_owned => ValueOf(o) = [at |-> Raw(o)]
  BY <1>4 DEF ValueOf
<1>9. QED
  BY <1>2, <1>3, <1>5, <1>6, <1>7, <1>8

(* An object whose pointer, flag and bytes stay keeps its value.           *)
LEMMA SameValue ==
    ASSUME NEW q \in Object, object'[q] = object[q],
           Holds(q) => heap'[Raw(q)] = heap[Raw(q)]
    PROVE  ValueOf(q)' = ValueOf(q)
BY DEF ValueOf, Exists, Holds, Raw

(* One object changes.                                                     *)
LEMMA OneValue ==
    ASSUME NEW o \in Object,
           \A q \in Object \ {o} :
               /\ object'[q] = object[q]
               /\ Holds(q) => heap'[Raw(q)] = heap[Raw(q)]
    PROVE  value' = [value EXCEPT ![o] = ValueOf(o)']
<1>1. \A q \in Object \ {o} : ValueOf(q)' = ValueOf(q)
  BY SameValue
<1>2. QED
  BY <1>1 DEF value

(* So does libcoap's memory, unless it is written to.                      *)
LEMMA SameMemory ==
    ASSUME \A m \in Memory : heap'[m] = heap[m]
    PROVE  memory' = memory
BY DEF memory

(* Making an object over a new block, from bytes or from the value of      *)
(* another one.                                                            *)
LEMMA CreateValue ==
    ASSUME Ownership, Ownership', NEW o \in Object, NEW b \in Block,
           NEW d \in Data, Create(o, b, d)
    PROVE  /\ ValueOf(o) = NoObject
           /\ value' = [value EXCEPT ![o] = [bytes |-> d]]
           /\ memory' = memory
<1>1. /\ object'[o] = Owned(b)
      /\ heap'[b] = d
      /\ b \notin Memory
      /\ \A m \in Memory : heap'[m] = heap[m]
      /\ \A q \in Object \ {o} :
             /\ object'[q] = object[q]
             /\ Holds(q) => heap'[Raw(q)] = heap[Raw(q)]
  BY DEF Create, Available, Ownership, TypeOK, MemoryIsLibcoaps, Holds
<1>2. ValueOf(o) = NoObject
  BY ValueCases DEF Create
<1>3. ValueOf(o)' = [bytes |-> d]
  <2>1. Exists(o)' /\ Holds(o)' /\ object'[o].m_owned /\ Raw(o)' = b
    BY <1>1, ConstantsAssumption
    DEF Exists, Holds, Raw, Owned, NoHolder, Referring
  <2>2. QED
    BY <1>1, <2>1 DEF ValueOf
<1>4. value' = [value EXCEPT ![o] = ValueOf(o)']
  BY <1>1, OneValue
<1>5. memory' = memory
  BY <1>1, SameMemory
<1>6. QED
  BY <1>2, <1>3, <1>4, <1>5

(* The two kinds of values, and the two marks, are told apart.             *)
LEMMA ValueKinds ==
    /\ \A x \in [bytes : Data] : /\ x \notin [at : Memory]
                                 /\ x \notin {NoObject, Released}
    /\ \A x \in [at : Memory] : x \notin {NoObject, Released}
<1>1. ASSUME NEW x \in [bytes : Data]
      PROVE  x \notin [at : Memory]
  <2>1. DOMAIN x = {"bytes"}
    OBVIOUS
  <2>2. ASSUME x \in [at : Memory]
        PROVE  FALSE
    <3>1. DOMAIN x = {"at"}
      BY <2>2
    <3>2. "at" # "bytes"
      OBVIOUS
    <3>3. QED
      BY <2>1, <3>1, <3>2
  <2>3. QED
    BY <2>2
<1>2. QED
  BY <1>1, ConstantsAssumption

(* The guards of the promise read what the code's read.                    *)
LEMMA AbstractReads ==
    ASSUME Ownership, NEW o \in Object
    PROVE  /\ Value!Exists(o) <=> Exists(o)
           /\ Value!Holds(o) <=> Holds(o)
           /\ Holds(o) => Value!Read(o) = heap[Raw(o)]
<1>1. Value!Exists(o) <=> Exists(o)
  BY ValueCases, ValueKinds, ConstantsAssumption DEF Value!Exists
<1>2. Value!Holds(o) <=> Holds(o)
  BY ValueCases, ValueKinds, ConstantsAssumption
  DEF Value!Holds, Value!Holding
<1>3. ASSUME Holds(o), object[o].m_owned
      PROVE  Value!Read(o) = heap[Raw(o)]
  BY <1>3, ValueCases, ValueKinds DEF Value!Read
<1>4. ASSUME Holds(o), ~object[o].m_owned
      PROVE  Value!Read(o) = heap[Raw(o)]
  <2>1. ValueOf(o) = [at |-> Raw(o)] /\ ValueOf(o) \in [at : Memory]
    BY <1>4, ValueCases
  <2>2. ValueOf(o).at = Raw(o) /\ Raw(o) \in Memory
    BY <2>1
  <2>3. QED
    BY <2>1, <2>2 DEF Value!Read
<1>5. QED
  BY <1>1, <1>2, <1>3, <1>4

(* An object over a new block is a new value, or a copy of one.            *)
LEMMA CreateIsNew ==
    ASSUME Ownership, Ownership', NEW o \in Object, NEW b \in Block,
           NEW d \in Data, Create(o, b, d)
    PROVE  Value!New(o)
<1>1. /\ value' = [value EXCEPT ![o] = [bytes |-> d]]
      /\ memory' = memory
  BY CreateValue
<1>2. ~Value!Exists(o)
  BY AbstractReads DEF Create
<1>3. [bytes |-> d] \in Value!Holding
  BY DEF Value!Holding
<1>4. Value!Become(o, [bytes |-> d])
  BY <1>1 DEF Value!Become, value, memory
<1>5. QED
  BY <1>2, <1>3, <1>4 DEF Value!New

(* An object that refers to libcoap's memory is an alias of it.            *)
LEMMA ReferenceIsNew ==
    ASSUME Ownership, NEW o \in Object, NEW m \in Memory,
           Reference(o, m)
    PROVE  Value!New(o)
<1>1. /\ object'[o] = Referring(m)
      /\ UNCHANGED heap
      /\ \A q \in Object \ {o} : object'[q] = object[q]
  BY DEF Reference, Ownership, TypeOK
<1>2. ValueOf(o)' = [at |-> m]
  <2>1. Exists(o)' /\ Holds(o)' /\ ~object'[o].m_owned /\ Raw(o)' = m
    BY <1>1, ConstantsAssumption
    DEF Exists, Holds, Raw, NoHolder, Referring
  <2>2. QED
    BY <2>1 DEF ValueOf
<1>3. /\ value' = [value EXCEPT ![o] = [at |-> m]]
      /\ memory' = memory
  BY <1>1, <1>2, OneValue, SameMemory
<1>4. ~Value!Exists(o)
  BY AbstractReads DEF Reference
<1>5. [at |-> m] \in Value!Holding
  BY DEF Value!Holding
<1>6. Value!Become(o, [at |-> m])
  BY <1>3 DEF Value!Become, value, memory
<1>7. QED
  BY <1>4, <1>5, <1>6 DEF Value!New

(* A copy, deep or by constructor, is a value of its own.                  *)
LEMMA CopyIsCopyTo ==
    ASSUME Ownership, Ownership', NEW o \in Object, NEW p \in Object,
           NEW b \in Block, Holds(p), Create(o, b, heap[Raw(p)])
    PROVE  Value!CopyTo(o, p)
<1>1. heap[Raw(p)] \in Data
  BY HeldIsAllocated
<1>2. /\ value' = [value EXCEPT ![o] = [bytes |-> heap[Raw(p)]]]
      /\ memory' = memory
  BY <1>1, CreateValue
<1>3. Value!Holds(p) /\ Value!Read(p) = heap[Raw(p)]
  BY AbstractReads
<1>4. QED
  BY <1>2, <1>3 DEF Value!CopyTo, Value!Become, Value!Own, value, memory

(* Copy assignment replaces the one value.                                 *)
LEMMA CopyAssignmentIsCopyTo ==
    ASSUME Ownership, NEW o \in Object, NEW p \in Object, NEW b \in Block,
           CopyAssignment(o, p, b)
    PROVE  Value!CopyTo(o, p)
<1> DEFINE d == heap[Raw(p)]
           h == Freed(heap, object[o])
<1>1. d \in Data
  BY HeldIsAllocated DEF CopyAssignment
<1>2. /\ b \notin Memory
      /\ \A q \in Object : Raw(q) # b
  BY DEF CopyAssignment, Available, Ownership, MemoryIsLibcoaps
<1>3. /\ object' = [object EXCEPT ![o] = Owned(b)]
      /\ heap' = [h EXCEPT ![b] = d]
      /\ Unviewed(o)
  BY <1>1, <1>2 DEF CopyAssignment, Freed, Raw, Ownership, TypeOK
<1>4. /\ \A m \in Memory : h[m] = heap[m]
      /\ \A q \in Object \ {o} : Holds(q) => h[Raw(q)] = heap[Raw(q)]
  BY <1>3, FreedOwnership
<1>5. h \in [Block -> Data \cup {Free}]
  BY FreedType DEF Ownership, TypeOK
<1> HIDE DEF h, d
<1>6. /\ object'[o] = Owned(b)
      /\ heap'[b] = d
      /\ \A m \in Memory : heap'[m] = heap[m]
      /\ \A q \in Object \ {o} :
             /\ object'[q] = object[q]
             /\ Holds(q) => heap'[Raw(q)] = heap[Raw(q)]
  BY <1>2, <1>3, <1>4, <1>5, ConstantsAssumption
  DEF Ownership, TypeOK, Holds
<1>7. ValueOf(o)' = [bytes |-> d]
  <2>1. Exists(o)' /\ Holds(o)' /\ object'[o].m_owned /\ Raw(o)' = b
    BY <1>6, ConstantsAssumption
    DEF Exists, Holds, Raw, Owned, NoHolder, Referring
  <2>2. QED
    BY <1>6, <2>1 DEF ValueOf
<1>8. /\ value' = [value EXCEPT ![o] = [bytes |-> d]]
      /\ memory' = memory
  BY <1>6, <1>7, OneValue, SameMemory
<1>9. Value!Holds(p) /\ Value!Read(p) = d
  BY AbstractReads DEF CopyAssignment, d
<1>10. QED
  BY <1>8, <1>9 DEF Value!CopyTo, Value!Become, Value!Own, value, memory

(* The move constructor takes the value away.                              *)
LEMMA MoveIsMoveTo ==
    ASSUME Ownership, NEW o \in Object, NEW p \in Object,
           MoveConstructor(o, p)
    PROVE  Value!MoveTo(o, p)
<1>1. /\ o # p
      /\ object'[o] = object[p]
      /\ object'[p] = MovedFrom
      /\ \A q \in Object \ {o, p} : object'[q] = object[q]
      /\ UNCHANGED heap
  BY DEF MoveConstructor, Ownership, TypeOK, Exists
<1>2. ValueOf(o)' = ValueOf(p)
  BY <1>1 DEF ValueOf, Exists, Holds, Raw
<1>3. ValueOf(p)' = Released
  <2>1. Exists(p)' /\ ~Holds(p)'
    BY <1>1, ConstantsAssumption
    DEF Exists, Holds, Raw, MovedFrom, NoHolder, Referring
  <2>2. QED
    BY <2>1 DEF ValueOf
<1>4. \A q \in Object \ {o, p} : ValueOf(q)' = ValueOf(q)
  BY <1>1, SameValue
<1>5. /\ value' = [value EXCEPT ![o] = value[p], ![p] = Released]
      /\ memory' = memory
  BY <1>1, <1>2, <1>3, <1>4 DEF value, memory
<1>6. ~Value!Exists(o) /\ Value!Exists(p)
  BY AbstractReads DEF MoveConstructor
<1>7. QED
  BY <1>5, <1>6 DEF Value!MoveTo, value, memory

(* Move assignment exchanges the two values.                               *)
LEMMA MoveAssignmentIsSwap ==
    ASSUME Ownership, NEW o \in Object, NEW p \in Object,
           MoveAssignment(o, p)
    PROVE  Value!Swap(o, p)
<1>1. /\ o # p
      /\ object'[o] = object[p]
      /\ object'[p] = object[o]
      /\ \A q \in Object \ {o, p} : object'[q] = object[q]
      /\ UNCHANGED heap
  BY DEF MoveAssignment, Ownership, TypeOK
<1>2. ValueOf(o)' = ValueOf(p) /\ ValueOf(p)' = ValueOf(o)
  BY <1>1 DEF ValueOf, Exists, Holds, Raw
<1>3. \A q \in Object \ {o, p} : ValueOf(q)' = ValueOf(q)
  BY <1>1, SameValue
<1>4. /\ value' = [value EXCEPT ![o] = value[p], ![p] = value[o]]
      /\ memory' = memory
  BY <1>1, <1>2, <1>3 DEF value, memory
<1>5. Value!Exists(o) /\ Value!Exists(p)
  BY AbstractReads DEF MoveAssignment
<1>6. QED
  BY <1>4, <1>5 DEF Value!Swap, value, memory

(* A destroyed object has no value, and the others keep theirs.            *)
LEMMA DestroyIsDestroy ==
    ASSUME Ownership, NEW o \in Object, Destroy(o)
    PROVE  Value!Destroy(o)
<1> DEFINE h == Freed(heap, object[o])
<1>1. /\ object' = [object EXCEPT ![o] = NoHolder]
      /\ heap' = h
      /\ Unviewed(o)
  BY DEF Destroy
<1>2. /\ \A m \in Memory : h[m] = heap[m]
      /\ \A q \in Object \ {o} : Holds(q) => h[Raw(q)] = heap[Raw(q)]
  BY <1>1, FreedOwnership
<1> HIDE DEF h
<1>3. /\ object'[o] = NoHolder
      /\ \A q \in Object \ {o} : object'[q] = object[q]
  BY <1>1 DEF Ownership, TypeOK
<1>4. ValueOf(o)' = NoObject
  <2>1. ~Exists(o)' /\ ~Holds(o)'
    BY <1>3, ConstantsAssumption
    DEF Exists, Holds, Raw, NoHolder, Referring
  <2>2. QED
    BY <2>1 DEF ValueOf
<1>5. /\ value' = [value EXCEPT ![o] = NoObject]
      /\ memory' = memory
  BY <1>1, <1>2, <1>3, <1>4, OneValue, SameMemory
<1>6. Value!Exists(o)
  BY AbstractReads DEF Destroy
<1>7. QED
  BY <1>5, <1>6 DEF Value!Destroy, Value!Become, value, memory

(* Bytes are written to the object that owns them, or to libcoap's memory, *)
(* which every object that refers to it shows.                             *)
LEMMA WriteIsWrite ==
    ASSUME Ownership, NEW o \in Object, NEW d \in Data, Write(o, d)
    PROVE  Value!Write(o, d)
<1> DEFINE b == Raw(o)
<1>1. /\ Holds(o) /\ b \in Block
      /\ heap'[b] = d
      /\ \A c \in Block \ {b} : heap'[c] = heap[c]
      /\ UNCHANGED object
  BY DEF Write, Holds, Ownership, TypeOK
<1>2. CASE object[o].m_owned
  <2>1. b \notin Memory
    BY <1>2 DEF Ownership, OwnedOnce
  <2>2. ASSUME NEW q \in Object \ {o}, Holds(q)
        PROVE  Raw(q) \in Block \ {b}
    <3>1. CASE object[q].m_owned
      BY <1>2, <2>2, <3>1 DEF Ownership, OwnedOnce, Holds
    <3>2. CASE ~object[q].m_owned
      BY <2>1, <2>2, <3>2, ConstantsAssumption
      DEF Ownership, RefersToMemory
    <3>3. QED
      BY <3>1, <3>2
  <2>3. ValueOf(o)' = [bytes |-> d]
    <3>1. Exists(o)' /\ Holds(o)' /\ object'[o].m_owned /\ Raw(o)' = b
      BY <1>1, <1>2, ConstantsAssumption
      DEF Exists, Holds, Raw, NoHolder, Referring
    <3>2. QED
      BY <1>1, <3>1 DEF ValueOf
  <2>4. /\ value' = [value EXCEPT ![o] = [bytes |-> d]]
        /\ memory' = memory
    <3>1. \A m \in Memory : heap'[m] = heap[m]
      BY <1>1, <2>1, ConstantsAssumption
    <3>2. \A q \in Object \ {o} :
             /\ object'[q] = object[q]
             /\ Holds(q) => heap'[Raw(q)] = heap[Raw(q)]
      BY <1>1, <2>2
    <3>3. QED
      BY <2>3, <3>1, <3>2, OneValue, SameMemory
  <2>5. value[o] \in [bytes : Data]
    BY <1>1, <1>2, ValueCases DEF value
  <2>6. QED
    BY <2>4, <2>5 DEF Value!Write, Value!Become, Value!Own, value, memory
<1>3. CASE ~object[o].m_owned
  <2>1. b \in Memory
    BY <1>1, <1>3 DEF Ownership, RefersToMemory
  <2>2. value[o] = [at |-> b] /\ value[o] \in [at : Memory]
    BY <1>1, <1>3, ValueCases DEF value
  <2>3. ASSUME NEW q \in Object
        PROVE  ValueOf(q)' = ValueOf(q)
    <3>1. CASE Holds(q) /\ object[q].m_owned
      <4>1. Raw(q) \in Block \ {b}
        BY <2>1, <3>1 DEF Ownership, OwnedOnce
      <4>2. QED
        BY <1>1, <4>1, SameValue
    <3>2. CASE Holds(q) /\ ~object[q].m_owned
      BY <1>1, <3>2 DEF ValueOf, Exists, Holds, Raw
    <3>3. CASE ~Holds(q)
      BY <1>1, <3>3, SameValue
    <3>4. QED
      BY <3>1, <3>2, <3>3
  <2>4. value' = value
    BY <2>3 DEF value
  <2>5. memory' = [memory EXCEPT ![b] = d]
    BY <1>1, <2>1, ConstantsAssumption DEF memory
  <2>6. value[o].at = b
    BY <2>2
  <2>7. QED
    BY <2>2, <2>4, <2>5, <2>6 DEF Value!Write, value, memory
<1>4. QED
  BY <1>2, <1>3

(* Each operation on an object is one on values.                           *)
LEMMA OperationRefines ==
    ASSUME Ownership, Ownership', NoBinaryCopied, NEW o \in Object,
           NEW class \in {Binaries, BinaryConsts}, o \in class,
           Operations(o, class)
    PROVE  Value!Next
<1> USE ConstantsAssumption
<1>0. class \subseteq Object
  BY DEF Object
<1>1. ASSUME NEW b \in Block, NEW d \in Data, Create(o, b, d)
      PROVE  Value!Next
  BY <1>1, CreateIsNew DEF Value!Next
<1>2. ASSUME NEW m \in Memory, Reference(o, m)
      PROVE  Value!Next
  BY <1>2, ReferenceIsNew DEF Value!Next
<1>3. ASSUME NEW m \in Memory, NEW b \in Block, DeepCopy(o, b, m)
      PROVE  Value!Next
  <2>1. heap[m] \in Data
    BY DEF Ownership, TypeOK, MemoryIsLibcoaps
  <2>2. Value!New(o)
    BY <1>3, <2>1, CreateIsNew DEF DeepCopy
  <2>3. QED
    BY <2>2 DEF Value!Next
<1>4. ASSUME NEW p \in class, NEW b \in Block, o \in Copied,
             CopyConstructor(o, p, b)
      PROVE  Value!Next
  <2>1. o \in BinaryConsts
    BY <1>4 DEF NoBinaryCopied, Object
  <2>2. Holds(p) /\ Create(o, b, heap[Raw(p)])
    BY <1>4, <2>1 DEF CopyConstructor, Create
  <2>3. Value!CopyTo(o, p)
    BY <1>0, <2>2, CopyIsCopyTo
  <2>4. QED
    BY <1>0, <2>3 DEF Value!Next
<1>5. ASSUME NEW p \in class, NEW b \in Block, CopyAssignment(o, p, b)
      PROVE  Value!Next
  BY <1>0, <1>5, CopyAssignmentIsCopyTo DEF Value!Next
<1>6. ASSUME NEW p \in class, MoveConstructor(o, p)
      PROVE  Value!Next
  BY <1>0, <1>6, MoveIsMoveTo DEF Value!Next
<1>7. ASSUME NEW p \in class, MoveAssignment(o, p)
      PROVE  Value!Next
  BY <1>0, <1>7, MoveAssignmentIsSwap DEF Value!Next
<1>8. CASE Destroy(o)
  BY <1>8, DestroyIsDestroy DEF Value!Next
<1>9. ASSUME NEW d \in Data, Write(o, d)
      PROVE  Value!Next
  BY <1>9, WriteIsWrite DEF Value!Next
<1>10. QED
  BY <1>1, <1>2, <1>3, <1>4, <1>5, <1>6, <1>7, <1>8, <1>9 DEF Operations

(* A view is no value of its own, but toBinary makes one.                  *)
LEMMA ViewRefines ==
    ASSUME Ownership, Ownership', NEW v \in View, ViewOperations(v)
    PROVE  Value!Next \/ UNCHANGED <<value, memory>>
<1>1. CASE UNCHANGED <<object, heap>>
  <2>1. \A o \in Object : ValueOf(o)' = ValueOf(o)
    BY <1>1, SameValue
  <2>2. QED
    BY <1>1, <2>1 DEF value, memory
<1>2. ASSUME NEW o \in Object, NEW b \in Block, ToBinary(v, o, b)
      PROVE  Value!Next
  <2>1. heap[view[v]] \in Data
    BY <1>2 DEF ToBinary, Ownership, TypeOK, ViewsAlive
  <2>2. Value!New(o)
    BY <1>2, <2>1, CreateIsNew DEF ToBinary, DeepCopy
  <2>3. QED
    BY <2>2 DEF Value!Next
<1>3. QED
  BY <1>1, <1>2 DEF ViewOperations, ViewOf, DropView

(* Binary and BinaryConst implement values: whatever sequence of copies,   *)
(* moves, assignments, writes and destructions the program makes, no       *)
(* object's bytes change but by an operation on that object, or on the     *)
(* memory of libcoap's it refers to.                                       *)
THEOREM ObjectsAreValues == NoBinaryCopied => (Spec => ValueSpec)
<1> SUFFICES ASSUME NoBinaryCopied
             PROVE  Spec => ValueSpec
  OBVIOUS
<1>1. ASSUME Init
      PROVE  Value!Init
  <2>1. \A o \in Object : ~Exists(o) /\ ~Holds(o)
    BY <1>1, ConstantsAssumption
    DEF Init, Exists, Holds, Raw, NoHolder, Referring
  <2>2. \A o \in Object : ValueOf(o) = NoObject
    BY <2>1 DEF ValueOf
  <2>3. \A m \in Memory : heap[m] \in Data
    BY <1>1, ConstantsAssumption DEF Init
  <2>4. QED
    BY <2>2, <2>3 DEF Value!Init
<1>2. ASSUME Ownership, Ownership', [Next]_vars
      PROVE  Value!Next \/ UNCHANGED <<value, memory>>
  <2>1. CASE UNCHANGED vars
    <3>1. \A o \in Object : ValueOf(o)' = ValueOf(o)
      BY <2>1, SameValue DEF vars
    <3>2. QED
      BY <2>1, <3>1 DEF value, memory, vars
  <2>2. CASE Next
    BY <1>2, <2>2, OperationRefines, ViewRefines
    DEF Next, BinaryOperations, BinaryConstOperations, Object
  <2>3. QED
    BY <1>2, <2>1, <2>2
<1>3. ASSUME Ownership, Ownership', [Next]_vars
      PROVE  [Value!Next]_<<[o \in Object |-> ValueOf(o)],
                            [m \in Memory |-> heap[m]]>>
  BY <1>2, <1>3 DEF value, memory
<1>4. Spec => []Ownership
  BY Ownerships
<1>5. QED
  BY <1>1, <1>3, <1>4, PTL DEF Spec, ValueSpec, Value!Spec

------------------------------------------------------------------------------
(* The order of tokens.                                                    *)

(* A set of numbers has a least one.                                       *)
LEMMA LeastNumber ==
    ASSUME NEW S \in SUBSET Nat, S # {}
    PROVE  \E n \in S : \A m \in S : n <= m
<1>1. \E n \in S : \A m \in S : ~(<<m, n>> \in OpToRel(<, Nat))
  BY NatLessThanWellFounded, WFMin
<1>2. PICK n \in S : \A m \in S : ~(<<m, n>> \in OpToRel(<, Nat))
  BY <1>1
<1>3. \A m \in S : ~(m < n)
  BY <1>2 DEF OpToRel
<1>4. QED
  BY <1>3

(* Strings of one length that are not equal differ first somewhere.        *)
LEMMA FirstDifference ==
    ASSUME NEW a \in Seq(Byte), NEW b \in Seq(Byte), Len(a) = Len(b),
           ~Equal(a, b)
    PROVE  \E i \in 1..Len(a) :
               /\ a[i] # b[i]
               /\ \A j \in 1..(i - 1) : a[j] = b[j]
<1> DEFINE S == {i \in 1..Len(a) : a[i] # b[i]}
<1>1. S \in SUBSET Nat /\ S # {}
  BY DEF Equal
<1>2. PICK i \in S : \A j \in S : i <= j
  BY <1>1, LeastNumber
<1>3. \A j \in 1..(i - 1) : a[j] = b[j]
  BY <1>2
<1>4. QED
  BY <1>2, <1>3

(* Two strings are smaller, equal or greater, and only one of these.       *)
LEMMA Trichotomy ==
    ASSUME NEW a \in Seq(Byte), NEW b \in Seq(Byte)
    PROVE  /\ Less(a, b) \/ Equal(a, b) \/ Less(b, a)
           /\ ~(Less(a, b) /\ Equal(a, b))
           /\ ~(Less(b, a) /\ Equal(a, b))
           /\ ~(Less(a, b) /\ Less(b, a))
<1>1. Len(a) \in Nat /\ Len(b) \in Nat
  OBVIOUS
<1>2. \A i \in 1..Len(a) : a[i] \in Nat
  BY RadixAssumption DEF Byte
<1>3. \A i \in 1..Len(b) : b[i] \in Nat
  BY RadixAssumption DEF Byte
<1>4. CASE Len(a) # Len(b)
  BY <1>1, <1>4 DEF Less, Equal
<1>5. CASE Len(a) = Len(b)
  <2>1. ASSUME ~Equal(a, b)
        PROVE  Less(a, b) \/ Less(b, a)
    <3>1. PICK i \in 1..Len(a) : /\ a[i] # b[i]
                                 /\ \A j \in 1..(i - 1) : a[j] = b[j]
      BY <1>5, <2>1, FirstDifference
    <3>2. a[i] < b[i] \/ b[i] < a[i]
      BY <1>2, <1>3, <1>5, <3>1
    <3>3. QED
      BY <1>5, <3>1, <3>2 DEF Less, MemcmpLess
  <2>2. ASSUME Equal(a, b)
        PROVE  ~Less(a, b) /\ ~Less(b, a)
    <3>1. \A i \in 1..Len(a) : ~(a[i] < b[i]) /\ ~(b[i] < a[i])
      BY <1>2, <2>2 DEF Equal
    <3>2. QED
      BY <1>1, <1>5, <3>1 DEF Less, MemcmpLess
  <2>3. ASSUME Less(a, b), Less(b, a)
        PROVE  FALSE
    <3>1. PICK i \in 1..Len(a) : /\ a[i] < b[i]
                                 /\ \A k \in 1..(i - 1) : a[k] = b[k]
      BY <1>1, <1>5, <2>3 DEF Less, MemcmpLess
    <3>2. PICK j \in 1..Len(a) : /\ b[j] < a[j]
                                 /\ \A k \in 1..(j - 1) : b[k] = a[k]
      BY <1>1, <1>5, <2>3 DEF Less, MemcmpLess
    <3>3. ~(i < j)
      <4>1. i < j => b[i] = a[i]
        BY <3>2
      <4>2. QED
        BY <1>2, <1>3, <1>5, <3>1, <4>1
    <3>4. ~(j < i)
      <4>1. j < i => a[j] = b[j]
        BY <3>1
      <4>2. QED
        BY <1>2, <1>3, <1>5, <3>2, <4>1
    <3>5. i = j
      BY <3>3, <3>4
    <3>6. QED
      BY <1>2, <1>3, <1>5, <3>1, <3>2, <3>5
  <2>4. QED
    BY <2>1, <2>2, <2>3
<1>6. QED
  BY <1>4, <1>5

(* What is smaller than a smaller string is smaller: of two strings of one *)
(* length the first byte that differs decides, and of three the first of   *)
(* the two that decide.                                                    *)
LEMMA Transitivity ==
    ASSUME NEW a \in Seq(Byte), NEW b \in Seq(Byte), NEW c \in Seq(Byte),
           Less(a, b), Less(b, c)
    PROVE  Less(a, c)
<1>1. Len(a) \in Nat /\ Len(b) \in Nat /\ Len(c) \in Nat
  OBVIOUS
<1>2. \A i \in 1..Len(a) : a[i] \in Nat
  BY RadixAssumption DEF Byte
<1>3. \A i \in 1..Len(b) : b[i] \in Nat
  BY RadixAssumption DEF Byte
<1>4. \A i \in 1..Len(c) : c[i] \in Nat
  BY RadixAssumption DEF Byte
<1>5. Len(a) <= Len(b) /\ Len(b) <= Len(c)
  BY <1>1 DEF Less
<1>6. CASE Len(a) < Len(c)
  BY <1>6 DEF Less
<1>7. CASE Len(a) = Len(b) /\ Len(b) = Len(c)
  <2> DEFINE n == Len(a)
  <2>1. PICK i \in 1..n : a[i] < b[i] /\ \A k \in 1..(i - 1) : a[k] = b[k]
    BY <1>1, <1>7 DEF Less, MemcmpLess
  <2>2. PICK j \in 1..n : b[j] < c[j] /\ \A k \in 1..(j - 1) : b[k] = c[k]
    BY <1>1, <1>7 DEF Less, MemcmpLess
  <2>3. \E m \in 1..n : a[m] < c[m] /\ \A k \in 1..(m - 1) : a[k] = c[k]
    <3>1. CASE i < j
      <4>1. b[i] = c[i] /\ \A k \in 1..(i - 1) : b[k] = c[k]
        BY <2>2, <3>1
      <4>2. a[i] < c[i] /\ \A k \in 1..(i - 1) : a[k] = c[k]
        BY <2>1, <4>1
      <4>3. QED
        BY <4>2
    <3>2. CASE j < i
      <4>1. a[j] = b[j] /\ \A k \in 1..(j - 1) : a[k] = b[k]
        BY <2>1, <3>2
      <4>2. a[j] < c[j] /\ \A k \in 1..(j - 1) : a[k] = c[k]
        BY <2>2, <4>1
      <4>3. QED
        BY <4>2
    <3>3. CASE i = j
      <4>1. \A k \in 1..(i - 1) : a[k] = c[k]
        BY <2>1, <2>2, <3>3
      <4>2. a[i] < b[i] /\ b[i] < c[i]
        BY <2>1, <2>2, <3>3
      <4>3. a[i] \in Nat /\ b[i] \in Nat /\ c[i] \in Nat
        BY <1>2, <1>3, <1>4, <1>7
      <4>4. a[i] < c[i]
        BY <4>2, <4>3
      <4>5. QED
        BY <4>1, <4>4
    <3>4. QED
      BY <3>1, <3>2, <3>3
  <2>4. QED
    BY <1>7, <2>3 DEF Less, MemcmpLess
<1>8. QED
  BY <1>1, <1>5, <1>6, <1>7

(* Whatever bytes the objects hold, operator< is a strict total order of   *)
(* them, and its equality is operator==: the map of handlings finds a      *)
(* token if and only if a handler's comparison accepts it.                 *)
THEOREM TotalOrder == NoBinaryCopied => (Spec => []TokensAreOrdered)
<1> SUFFICES ASSUME NoBinaryCopied
             PROVE  Spec => []TokensAreOrdered
  OBVIOUS
<1>1. ASSUME Ownership
      PROVE  TokensAreOrdered
  <2> DEFINE Token == {heap[Raw(q)] : q \in {o \in Object : Holds(o)}}
             Cases(a, b) == {c \in {"less", "equal", "greater"} :
                                \/ c = "less" /\ Less(a, b)
                                \/ c = "equal" /\ Equal(a, b)
                                \/ c = "greater" /\ Less(b, a)}
  <2>1. \A a \in Token : a \in Seq(Byte)
    BY <1>1, HeldIsAllocated, ConstantsAssumption
  <2> HIDE DEF Token
  <2>2. ASSUME NEW a \in Token, NEW b \in Token
        PROVE  Cardinality(Cases(a, b)) = 1
    <3> DEFINE S == Cases(a, b)
    <3>1. a \in Seq(Byte) /\ b \in Seq(Byte)
      BY <2>1
    <3>2. CASE Less(a, b)
      <4>1. S = {"less"}
        BY <3>1, <3>2, Trichotomy
      <4>2. QED
        BY <4>1, FS_Singleton
    <3>3. CASE Equal(a, b)
      <4>1. S = {"equal"}
        BY <3>1, <3>3, Trichotomy
      <4>2. QED
        BY <4>1, FS_Singleton
    <3>4. CASE Less(b, a)
      <4>1. S = {"greater"}
        BY <3>1, <3>4, Trichotomy
      <4>2. QED
        BY <4>1, FS_Singleton
    <3>5. QED
      BY <3>1, <3>2, <3>3, <3>4, Trichotomy
  <2>3. ASSUME NEW a \in Token, NEW b \in Token, NEW c \in Token,
               Less(a, b), Less(b, c)
        PROVE  Less(a, c)
    BY <2>1, <2>3, Transitivity
  <2>4. QED
    BY <2>2, <2>3 DEF Token, TokensAreOrdered
<1>2. QED
  BY <1>1, Ownerships, PTL

------------------------------------------------------------------------------
(* Integers.                                                               *)

(* Induction up to n, with a set in the place of a predicate.              *)
LEMMA Counting ==
    ASSUME NEW n \in Nat, NEW S, 0 \in S,
           \A i \in 1..n : i - 1 \in S => i \in S
    PROVE  \A i \in 0..n : i \in S
<1> DEFINE T == {i \in 0..n : i \notin S}
<1>1. SUFFICES ASSUME T # {}
               PROVE  FALSE
  OBVIOUS
<1>2. T \in SUBSET Nat
  OBVIOUS
<1>3. PICK m \in T : \A k \in T : m <= k
  <2> HIDE DEF T
  <2>1. QED
    BY <1>1, <1>2, LeastNumber
<1>4. m \in 1..n /\ m \notin S
  OBVIOUS
<1>5. m - 1 \in 0..n /\ m - 1 < m
  BY <1>4
<1>6. m - 1 \notin T
  <2> HIDE DEF T
  <2>1. QED
    BY <1>2, <1>3, <1>5
<1>7. QED
  BY <1>4, <1>5, <1>6

(* The functions on the first numbers whose values come each from the one  *)
(* before, as step says.                                                   *)
Stepwise(n, base, step) ==
    {f \in [0..n -> Nat] :
        f[0] = base /\ \A i \in 1..n : f[i] = step[i][f[i - 1]]}

(* There is one: the recursive functions of Bytes are well defined.        *)
LEMMA StepwiseExists ==
    ASSUME NEW n \in Nat, NEW base \in Nat, NEW step \in [1..n -> [Nat -> Nat]]
    PROVE  \E f : f \in Stepwise(n, base, step)
<1> DEFINE Upto(m) ==
               \E f \in [0..m -> Nat] :
                  f[0] = base /\ \A i \in 1..m : f[i] = step[i][f[i - 1]]
           S == {m \in 0..n : Upto(m)}
<1>1. Upto(0)
  <2> DEFINE f == [i \in 0..0 |-> base]
  <2>1. f \in [0..0 -> Nat] /\ f[0] = base
    OBVIOUS
  <2>2. \A i \in 1..0 : FALSE
    OBVIOUS
  <2> HIDE DEF f
  <2>3. QED
    BY <2>1, <2>2
<1>2. ASSUME NEW m \in 1..n, Upto(m - 1)
      PROVE  Upto(m)
  <2>1. PICK f \in [0..(m - 1) -> Nat] :
            f[0] = base /\ \A i \in 1..(m - 1) : f[i] = step[i][f[i - 1]]
    BY <1>2
  <2> DEFINE g == [i \in 0..m |-> IF i = m THEN step[m][f[m - 1]] ELSE f[i]]
  <2>2. step[m] \in [Nat -> Nat] /\ f[m - 1] \in Nat
    OBVIOUS
  <2>3. step[m][f[m - 1]] \in Nat
    BY <2>2
  <2>4. \A i \in 0..m : i # m => i \in 0..(m - 1)
    OBVIOUS
  <2>5. g \in [0..m -> Nat]
    BY <2>3, <2>4
  <2>6. g[0] = base
    BY <2>1
  <2>7. \A i \in 1..m : g[i] = step[i][g[i - 1]]
    <3>1. SUFFICES ASSUME NEW i \in 1..m
                   PROVE  g[i] = step[i][g[i - 1]]
      OBVIOUS
    <3>2. g[i - 1] = f[i - 1]
      OBVIOUS
    <3>3. CASE i = m
      BY <3>2, <3>3
    <3>4. CASE i # m
      <4>1. i \in 1..(m - 1) /\ i \in 0..m
        BY <3>4
      <4>2. f[i] = step[i][f[i - 1]]
        BY <2>1, <4>1
      <4>3. QED
        BY <3>2, <3>4, <4>1, <4>2
    <3>5. QED
      BY <3>3, <3>4
  <2>8. QED
    BY <2>5, <2>6, <2>7
<1> HIDE DEF Upto
<1>3. 0 \in S /\ \A i \in 1..n : i - 1 \in S => i \in S
  BY <1>1, <1>2
<1>4. Upto(n)
  <2>1. n \in 0..n
    OBVIOUS
  <2>2. n \in S
    <3> HIDE DEF S
    <3>1. QED
      BY <1>3, <2>1, Counting
  <2>3. QED
    BY <2>2
<1>5. QED
  BY <1>4 DEF Upto, Stepwise

(* What a shift by one byte does.                                          *)
LEMMA Division ==
    ASSUME NEW n \in Nat
    PROVE  /\ n \div Radix \in Nat
           /\ n \div Radix <= n
           /\ n % Radix \in Byte
           /\ n = (n \div Radix) * Radix + (n % Radix)
           /\ n \div Radix = 0 => n % Radix = n
           /\ \A m \in Nat : n < Radix * m => n \div Radix < m
<1> USE RadixAssumption DEF Byte
<1>1. n \div Radix \in Nat /\ n % Radix \in 0..(Radix - 1)
  OBVIOUS
<1>2. n = (n \div Radix) * Radix + (n % Radix)
  OBVIOUS
<1>3. \A m \in Nat : n < Radix * m => n \div Radix < m
  <2>1. SUFFICES ASSUME NEW m \in Nat, n < Radix * m, m <= n \div Radix
                 PROVE  FALSE
    BY <1>1
  <2> DEFINE q == n \div Radix
  <2>2. q \in Nat /\ Radix * q <= n
    BY <1>1, <1>2
  <2> HIDE DEF q
  <2>3. Radix * m <= Radix * q
    BY <2>1, <2>2 DEF q
  <2>4. QED
    BY <2>1, <2>2, <2>3
<1>4. n \div Radix = 0 => n % Radix = n
  BY <1>1, <1>2
<1>5. n \div Radix <= n
  <2> DEFINE q == n \div Radix
             r == n % Radix
  <2>1. q \in Nat /\ r \in Nat /\ n = q * Radix + r
    BY <1>1, <1>2
  <2> HIDE DEF q, r
  <2>2. q <= q * Radix
    BY <2>1
  <2>3. QED
    BY <2>1, <2>2 DEF q
<1>6. QED
  BY <1>1, <1>2, <1>3, <1>4, <1>5

(* The powers, by one more byte each.                                      *)
LEMMA Powers ==
    /\ Power \in [0..Width -> Nat]
    /\ Power[0] = 1
    /\ \A k \in 1..Width : Power[k] = Radix * Power[k - 1]
<1> USE RadixAssumption
<1> DEFINE step == [k \in 1..Width |-> [p \in Nat |-> Radix * p]]
           Is(f) == f = [k \in 0..Width |->
                            IF k = 0 THEN 1 ELSE Radix * f[k - 1]]
<1>1. step \in [1..Width -> [Nat -> Nat]]
  OBVIOUS
<1>2. PICK f : f \in Stepwise(Width, 1, step)
  <2> HIDE DEF step
  <2>1. 1 \in Nat /\ Width \in Nat
    OBVIOUS
  <2>2. QED
    BY <1>1, <2>1, StepwiseExists
<1>3. /\ \A k \in 1..Width : k - 1 \in 0..Width /\ k \in 0..Width /\ k # 0
      /\ \A k \in 0..Width : k = 0 \/ k \in 1..Width
  OBVIOUS
<1>4. /\ f \in [0..Width -> Nat]
      /\ f[0] = 1
      /\ \A k \in 1..Width : f[k] = Radix * f[k - 1]
  BY <1>2, <1>3 DEF Stepwise
<1>5. Is(f)
  <2>1. \A k \in 0..Width : f[k] = IF k = 0 THEN 1 ELSE Radix * f[k - 1]
    BY <1>3, <1>4
  <2>2. QED
    BY <1>4, <2>1
<1>6. Power = CHOOSE g : Is(g)
  BY DEF Power
<1>7. Is(Power)
  BY <1>5, <1>6
<1>8. PICK p : p = Power
  OBVIOUS
<1>9. p = [k \in 0..Width |-> IF k = 0 THEN 1 ELSE Radix * p[k - 1]]
  BY <1>7, <1>8
<1>10. p[0] = 1 /\ \A k \in 1..Width : p[k] = Radix * p[k - 1]
  BY <1>3, <1>9
<1>11. \A k \in 0..Width : p[k] \in Nat
  <2> DEFINE S == {k \in 0..Width : p[k] \in Nat}
  <2>1. 0 \in S
    BY <1>10
  <2>2. \A k \in 1..Width : k - 1 \in S => k \in S
    BY <1>3, <1>10
  <2>3. QED
    <3> HIDE DEF S
    <3>1. Width \in Nat
      OBVIOUS
    <3>2. \A k \in 0..Width : k \in S
      BY <2>1, <2>2, <3>1, Counting
    <3>3. QED
      BY <3>2 DEF S
<1>12. p \in [0..Width -> Nat]
  BY <1>9, <1>11
<1>13. QED
  BY <1>8, <1>10, <1>12

(* No power is zero, and each is greater than the one before.              *)
LEMMA PowersPositive ==
    \A k \in 0..Width : Power[k] \in Nat \ {0} /\ Power[k] <= Power[Width]
<1> DEFINE S == {k \in 0..Width : Power[k] \in Nat \ {0}}
           T == {k \in 0..Width : Power[Width - k] <= Power[Width]}
<1>1. Width \in Nat /\ Radix \in Nat \ {0, 1}
  BY RadixAssumption
<1>2. 0 \in S
  BY <1>1, Powers
<1>3. ASSUME NEW k \in 1..Width, k - 1 \in S
      PROVE  k \in S
  <2>1. Power[k] = Radix * Power[k - 1] /\ k \in 0..Width
    BY <1>1, Powers
  <2>2. \A p \in Nat \ {0} : Radix * p \in Nat \ {0}
    BY <1>1
  <2>3. QED
    BY <1>3, <2>1, <2>2
<1>4. \A k \in 0..Width : k \in S
  <2> HIDE DEF S
  <2>1. QED
    BY <1>1, <1>2, <1>3, Counting
<1>5. 0 \in T
  <2>1. 0 \in 0..Width /\ Width - 0 = Width /\ Width \in 0..Width
    BY <1>1
  <2>2. Power[Width] \in Nat
    BY <1>4, <2>1
  <2>3. QED
    BY <2>1, <2>2
<1>6. ASSUME NEW k \in 1..Width, k - 1 \in T
      PROVE  k \in T
  <2>1. /\ k - 1 \in 0..Width
        /\ k \in 0..Width
        /\ Width - k \in 0..Width
        /\ Width \in 0..Width
        /\ Width - (k - 1) \in 1..Width
        /\ (Width - (k - 1)) - 1 = Width - k
    BY <1>1
  <2>2. Power[Width - (k - 1)] = Radix * Power[Width - k]
    BY <2>1, Powers
  <2>3. \A p \in Nat : p <= Radix * p /\ Radix * p \in Nat
    BY <1>1
  <2>4. Power[Width - k] \in Nat /\ Power[Width] \in Nat
    BY <1>4, <2>1
  <2>5. Power[Width - k] <= Radix * Power[Width - k]
    BY <2>3, <2>4
  <2>6. Radix * Power[Width - k] <= Power[Width]
    BY <1>6, <2>2
  <2>7. Radix * Power[Width - k] \in Nat
    BY <2>3, <2>4
  <2>8. Power[Width - k] <= Power[Width]
    BY <2>4, <2>5, <2>6, <2>7
  <2>9. QED
    BY <2>1, <2>8
<1>7. \A k \in 0..Width : k \in T
  <2> HIDE DEF T
  <2>1. QED
    BY <1>1, <1>5, <1>6, Counting
<1>8. ASSUME NEW k \in 0..Width
      PROVE  Power[k] <= Power[Width]
  <2>1. Width - k \in 0..Width /\ Width - (Width - k) = k
    BY <1>1
  <2>2. Width - k \in T
    BY <1>7, <2>1
  <2>3. QED
    BY <2>1, <2>2
<1>9. QED
  BY <1>4, <1>8

(* A value is shifted out byte by byte.                                    *)
LEMMA Shifts ==
    ASSUME NEW n \in Nat
    PROVE  /\ Shifted(n) \in [0..Width -> Nat]
           /\ Shifted(n)[0] = n
           /\ \A k \in 1..Width : Shifted(n)[k] = Shifted(n)[k - 1] \div Radix
<1> USE RadixAssumption
<1> DEFINE step == [k \in 1..Width |-> [p \in Nat |-> p \div Radix]]
           Is(f) == f = [k \in 0..Width |->
                            IF k = 0 THEN n ELSE f[k - 1] \div Radix]
<1>1. step \in [1..Width -> [Nat -> Nat]]
  BY Division
<1>2. PICK f : f \in Stepwise(Width, n, step)
  <2> HIDE DEF step
  <2>1. Width \in Nat
    OBVIOUS
  <2>2. QED
    BY <1>1, <2>1, StepwiseExists
<1>3. /\ \A k \in 1..Width : k - 1 \in 0..Width /\ k \in 0..Width /\ k # 0
      /\ \A k \in 0..Width : k = 0 \/ k \in 1..Width
  OBVIOUS
<1>4. /\ f \in [0..Width -> Nat]
      /\ f[0] = n
      /\ \A k \in 1..Width : f[k] = f[k - 1] \div Radix
  BY <1>2, <1>3 DEF Stepwise
<1>5. Is(f)
  <2>1. \A k \in 0..Width : f[k] = IF k = 0 THEN n ELSE f[k - 1] \div Radix
    BY <1>3, <1>4
  <2>2. QED
    BY <1>4, <2>1
<1>6. Shifted(n) = CHOOSE g : Is(g)
  BY DEF Shifted
<1>7. Is(Shifted(n))
  BY <1>5, <1>6
<1>8. PICK p : p = Shifted(n)
  OBVIOUS
<1>9. p = [k \in 0..Width |-> IF k = 0 THEN n ELSE p[k - 1] \div Radix]
  BY <1>7, <1>8
<1>10. p[0] = n /\ \A k \in 1..Width : p[k] = p[k - 1] \div Radix
  BY <1>3, <1>9
<1>11. \A k \in 0..Width : p[k] \in Nat
  <2> DEFINE S == {k \in 0..Width : p[k] \in Nat}
  <2>1. 0 \in S
    BY <1>10
  <2>2. \A k \in 1..Width : k - 1 \in S => k \in S
    BY <1>3, <1>10, Division
  <2>3. QED
    <3> HIDE DEF S
    <3>1. Width \in Nat
      OBVIOUS
    <3>2. \A k \in 0..Width : k \in S
      BY <2>1, <2>2, <3>1, Counting
    <3>3. QED
      BY <3>2 DEF S
<1>12. p \in [0..Width -> Nat]
  BY <1>9, <1>11
<1>13. QED
  BY <1>8, <1>10, <1>12

(* What an integer has room for is zero after as many shifts as it has     *)
(* bytes, and smaller than that before.                                    *)
LEMMA ShiftedOut ==
    ASSUME NEW n \in Nat, n < Power[Width]
    PROVE  \A k \in 0..Width : Shifted(n)[k] < Power[Width - k]
<1> DEFINE S == {k \in 0..Width : Shifted(n)[k] < Power[Width - k]}
<1>1. Width \in Nat
  BY RadixAssumption
<1>2. 0 \in S
  <2>1. 0 \in 0..Width /\ Width - 0 = Width
    BY <1>1
  <2>2. Shifted(n)[0] = n
    BY Shifts
  <2>3. QED
    BY <2>1, <2>2
<1>3. ASSUME NEW k \in 1..Width, k - 1 \in S
      PROVE  k \in S
  <2>1. /\ k - 1 \in 0..Width
        /\ Width - k \in 0..Width
        /\ Width - (k - 1) \in 1..Width
        /\ (Width - (k - 1)) - 1 = Width - k
    BY <1>1
  <2>2. Power[Width - (k - 1)] = Radix * Power[Width - k]
    BY <2>1, Powers
  <2>3. Shifted(n)[k - 1] < Radix * Power[Width - k]
    BY <1>3, <2>2
  <2>4. Shifted(n)[k - 1] \in Nat /\ Power[Width - k] \in Nat
    BY <2>1, Shifts, Powers
  <2>5. Shifted(n)[k - 1] \div Radix < Power[Width - k]
    BY <2>3, <2>4, Division
  <2>6. Shifted(n)[k] = Shifted(n)[k - 1] \div Radix
    BY Shifts
  <2>7. QED
    BY <2>5, <2>6
<1>4. \A k \in 0..Width : k \in S
  <2> HIDE DEF S
  <2>1. QED
    BY <1>1, <1>2, <1>3, Counting
<1>5. QED
  BY <1>4

(* Shifts make no value greater.                                           *)
LEMMA ShiftsDecrease ==
    ASSUME NEW n \in Nat
    PROVE  \A k \in 0..Width : Shifted(n)[k] <= n
<1> DEFINE S == {k \in 0..Width : Shifted(n)[k] <= n}
<1>1. Width \in Nat
  BY RadixAssumption
<1>2. 0 \in S
  <2>1. 0 \in 0..Width
    BY <1>1
  <2>2. Shifted(n)[0] = n
    BY Shifts
  <2>3. QED
    BY <2>1, <2>2
<1>3. ASSUME NEW k \in 1..Width, k - 1 \in S
      PROVE  k \in S
  <2>1. k - 1 \in 0..Width /\ k \in 0..Width
    BY <1>1
  <2>2. Shifted(n)[k - 1] \in Nat /\ Shifted(n)[k - 1] <= n
    BY <1>3, <2>1, Shifts
  <2>3. Shifted(n)[k] = Shifted(n)[k - 1] \div Radix
    BY Shifts
  <2>4. Shifted(n)[k - 1] \div Radix <= Shifted(n)[k - 1]
    BY <2>2, Division
  <2>5. Shifted(n)[k] \in Nat
    BY <2>1, Shifts
  <2>6. QED
    BY <2>1, <2>2, <2>3, <2>4, <2>5
<1>4. \A k \in 0..Width : k \in S
  <2> HIDE DEF S
  <2>1. QED
    BY <1>1, <1>2, <1>3, Counting
<1>5. QED
  BY <1>4

(* The length of an encoding: the fewest shifts that leave nothing.        *)
LEMMA Lengths ==
    ASSUME NEW n \in Nat, n < Power[Width]
    PROVE  /\ EncodedLength(n) \in 0..Width
           /\ Shifted(n)[EncodedLength(n)] = 0
           /\ EncodedLength(n) # 0 => Shifted(n)[EncodedLength(n) - 1] # 0
<1> DEFINE K == {k \in 0..Width : k = Width \/ Shifted(n)[k] = 0}
<1>1. Width \in Nat
  BY RadixAssumption
<1>2. Shifted(n)[Width] = 0
  <2>1. Width \in 0..Width /\ Width - Width = 0
    BY <1>1
  <2>2. Shifted(n)[Width] < 1 /\ Shifted(n)[Width] \in Nat
    BY <2>1, ShiftedOut, Shifts, Powers
  <2>3. QED
    BY <2>2
<1>3. K \in SUBSET Nat /\ Width \in K
  BY <1>1
<1>4. PICK l \in K : \A k \in K : l <= k
  <2> HIDE DEF K
  <2>1. QED
    BY <1>3, LeastNumber
<1>5. EncodedLength(n) = CHOOSE x \in K : \A y \in K : x <= y
  BY DEF EncodedLength, Min
<1>6. /\ EncodedLength(n) \in K
      /\ \A k \in K : EncodedLength(n) <= k
  <2> HIDE DEF K
  <2>1. QED
    BY <1>4, <1>5
<1>7. PICK e : e = EncodedLength(n)
  OBVIOUS
<1>8. e \in 0..Width /\ Shifted(n)[e] = 0 /\ \A k \in K : e <= k
  BY <1>2, <1>6, <1>7
<1>9. e # 0 => Shifted(n)[e - 1] # 0
  <2>1. SUFFICES ASSUME e # 0, Shifted(n)[e - 1] = 0
                 PROVE  FALSE
    OBVIOUS
  <2>2. e - 1 \in 0..Width /\ e - 1 < e
    BY <1>1, <1>8, <2>1
  <2>3. e - 1 \in K
    BY <2>1, <2>2
  <2>4. QED
    <3> HIDE DEF K
    <3>1. QED
      BY <1>8, <2>2, <2>3
<1>10. QED
  BY <1>7, <1>8, <1>9

(* What Decoder has after i bytes.                                         *)
LEMMA Decodes ==
    ASSUME NEW s \in Seq(Byte)
    PROVE  \E v \in [0..Len(s) -> Nat] :
               /\ Decode(s) = v[Len(s)]
               /\ v[0] = 0
               /\ \A i \in 1..Len(s) :
                     v[i] = (v[i - 1] * Radix + s[i]) % Power[Width]
<1> DEFINE step == [i \in 1..Len(s) |->
                       [v \in Nat |-> (v * Radix + s[i]) % Power[Width]]]
           Is(f) == f = [i \in 0..Len(s) |->
                            IF i = 0 THEN 0
                            ELSE (f[i - 1] * Radix + s[i]) % Power[Width]]
<1>1. Len(s) \in Nat /\ \A i \in 1..Len(s) : s[i] \in Nat
  BY RadixAssumption DEF Byte
<1> HIDE DEF Byte
<1>2. Radix \in Nat /\ Power[Width] \in Nat \ {0}
  BY PowersPositive, RadixAssumption
<1>3. \A i \in 1..Len(s), v \in Nat : (v * Radix + s[i]) % Power[Width] \in Nat
  <2>1. ASSUME NEW i \in 1..Len(s), NEW v \in Nat
        PROVE  (v * Radix + s[i]) % Power[Width] \in Nat
    <3>1. v * Radix + s[i] \in Nat
      BY <1>1, <1>2
    <3>2. \A a \in Nat, b \in Nat \ {0} : a % b \in Nat
      OBVIOUS
    <3>3. QED
      BY <1>2, <3>1, <3>2
  <2>2. QED
    BY <2>1
<1>4. step \in [1..Len(s) -> [Nat -> Nat]]
  BY <1>3
<1>5. PICK f : f \in Stepwise(Len(s), 0, step)
  <2> HIDE DEF step
  <2>1. 0 \in Nat
    OBVIOUS
  <2>2. QED
    BY <1>1, <1>4, <2>1, StepwiseExists
<1>6. PICK l \in Nat : l = Len(s)
  BY <1>1
<1>7. /\ \A i \in 1..l : i - 1 \in 0..l /\ i \in 0..l /\ i # 0
      /\ \A i \in 0..l : i = 0 \/ i \in 1..l
  OBVIOUS
<1>8. /\ f \in [0..l -> Nat]
      /\ f[0] = 0
      /\ \A i \in 1..l : f[i] = (f[i - 1] * Radix + s[i]) % Power[Width]
  BY <1>5, <1>6, <1>7 DEF Stepwise
<1>9. Is(f)
  <2>1. \A i \in 0..l : f[i] = IF i = 0 THEN 0
                               ELSE (f[i - 1] * Radix + s[i]) % Power[Width]
    BY <1>7, <1>8
  <2>2. QED
    BY <1>6, <1>8, <2>1
<1>10. Decode(s) = (CHOOSE g : Is(g))[Len(s)]
  BY DEF Decode
<1>11. PICK v : v = (CHOOSE g : Is(g))
  OBVIOUS
<1>12. Is(v)
  BY <1>9, <1>11
<1>13. v = [i \in 0..l |-> IF i = 0 THEN 0
                           ELSE (v[i - 1] * Radix + s[i]) % Power[Width]]
  BY <1>6, <1>12
<1>14. /\ v[0] = 0
       /\ \A i \in 1..l : v[i] = (v[i - 1] * Radix + s[i]) % Power[Width]
  BY <1>7, <1>13
<1>15. \A i \in 0..l : v[i] \in Nat
  <2> DEFINE S == {i \in 0..l : v[i] \in Nat}
  <2>1. 0 \in S
    BY <1>14
  <2>2. ASSUME NEW i \in 1..l, i - 1 \in S
        PROVE  i \in S
    <3>1. i \in 0..l /\ v[i - 1] \in Nat
      BY <1>7, <2>2
    <3>2. (v[i - 1] * Radix + s[i]) % Power[Width] \in Nat
      BY <1>3, <1>6, <3>1
    <3>3. QED
      BY <1>14, <3>1, <3>2
  <2>3. QED
    <3> HIDE DEF S
    <3>1. \A i \in 0..l : i \in S
      BY <2>1, <2>2, Counting
    <3>2. QED
      BY <3>1 DEF S
<1>16. v \in [0..l -> Nat]
  BY <1>13, <1>15
<1>17. QED
  BY <1>6, <1>10, <1>11, <1>14, <1>16

(* What toUInt64 has after i bytes, where the shifts are defined.          *)
LEMMA Sums ==
    ASSUME NEW s \in Seq(Byte), Len(s) <= Width
    PROVE  \E r \in [0..Len(s) -> Nat] :
               /\ ToUInt64(s) = r[Len(s)]
               /\ r[0] = 0
               /\ \A i \in 1..Len(s) :
                     r[i] = r[i - 1] + s[i] * Power[Len(s) - i]
<1> DEFINE step == [i \in 1..Len(s) |->
                       [v \in Nat |-> v + s[i] * Power[Len(s) - i]]]
           Is(f) == f = [i \in 0..Len(s) |->
                            IF i = 0 THEN 0
                            ELSE f[i - 1] + s[i] * Power[Len(s) - i]]
<1>1. Len(s) \in Nat /\ \A i \in 1..Len(s) : s[i] \in Nat
  BY RadixAssumption DEF Byte
<1> HIDE DEF Byte
<1>2. PICK l \in Nat : l = Len(s)
  BY <1>1
<1>3. \A i \in 1..l, v \in Nat : v + s[i] * Power[l - i] \in Nat
  <2>1. ASSUME NEW i \in 1..l, NEW v \in Nat
        PROVE  v + s[i] * Power[l - i] \in Nat
    <3>1. l - i \in 0..Width
      BY <1>2, RadixAssumption
    <3>2. Power[l - i] \in Nat /\ s[i] \in Nat
      BY <1>1, <1>2, <3>1, Powers
    <3>3. \A a, b \in Nat : v + a * b \in Nat
      OBVIOUS
    <3>4. QED
      BY <3>2, <3>3
  <2>2. QED
    BY <2>1
<1>4. step \in [1..Len(s) -> [Nat -> Nat]]
  BY <1>2, <1>3
<1>5. PICK f : f \in Stepwise(Len(s), 0, step)
  <2> HIDE DEF step
  <2>1. 0 \in Nat
    OBVIOUS
  <2>2. QED
    BY <1>1, <1>4, <2>1, StepwiseExists
<1>6. /\ \A i \in 1..l : i - 1 \in 0..l /\ i \in 0..l /\ i # 0
      /\ \A i \in 0..l : i = 0 \/ i \in 1..l
  OBVIOUS
<1>7. /\ f \in [0..l -> Nat]
      /\ f[0] = 0
      /\ \A i \in 1..l : f[i] = f[i - 1] + s[i] * Power[l - i]
  BY <1>2, <1>5, <1>6 DEF Stepwise
<1>8. Is(f)
  <2>1. \A i \in 0..l : f[i] = IF i = 0 THEN 0
                               ELSE f[i - 1] + s[i] * Power[l - i]
    BY <1>6, <1>7
  <2>2. QED
    BY <1>2, <1>7, <2>1
<1>9. ToUInt64(s) = (CHOOSE g : Is(g))[Len(s)]
  BY DEF ToUInt64
<1>10. PICK r : r = (CHOOSE g : Is(g))
  OBVIOUS
<1>11. Is(r)
  BY <1>8, <1>10
<1>12. r = [i \in 0..l |-> IF i = 0 THEN 0
                           ELSE r[i - 1] + s[i] * Power[l - i]]
  BY <1>2, <1>11
<1>13. /\ r[0] = 0
       /\ \A i \in 1..l : r[i] = r[i - 1] + s[i] * Power[l - i]
  BY <1>6, <1>12
<1>14. \A i \in 0..l : r[i] \in Nat
  <2> DEFINE S == {i \in 0..l : r[i] \in Nat}
  <2>1. 0 \in S
    BY <1>13
  <2>2. ASSUME NEW i \in 1..l, i - 1 \in S
        PROVE  i \in S
    <3>1. i \in 0..l /\ r[i - 1] \in Nat
      BY <1>6, <2>2
    <3>2. r[i - 1] + s[i] * Power[l - i] \in Nat
      BY <1>3, <3>1
    <3>3. QED
      BY <1>13, <3>1, <3>2
  <2>3. QED
    <3> HIDE DEF S
    <3>1. \A i \in 0..l : i \in S
      BY <2>1, <2>2, Counting
    <3>2. QED
      BY <3>1 DEF S
<1>15. r \in [0..l -> Nat]
  BY <1>12, <1>14
<1>16. QED
  BY <1>2, <1>9, <1>10, <1>13, <1>15

(* A remainder leaves smaller numbers as they are.                         *)
LEMMA SmallRemainder ==
    ASSUME NEW a \in Nat, NEW b \in Nat, a < b
    PROVE  a % b = a
OBVIOUS

(* Decoder gives back what Encoder got.                                    *)
LEMMA DecodeEncode ==
    ASSUME NEW n \in Nat, n < Power[Width]
    PROVE  /\ Decode(Encode(n)) = n
           /\ Encode(n) # <<>> => Encode(n)[1] # 0
<1> DEFINE s == Encode(n)
           q == Shifted(n)
<1>1. PICK l \in 0..Width : l = EncodedLength(n)
  BY Lengths
<1>2. Width \in Nat
  BY RadixAssumption
<1>3. q[l] = 0 /\ (l # 0 => q[l - 1] # 0)
  BY <1>1, Lengths
<1>4. /\ q \in [0..Width -> Nat]
      /\ q[0] = n
      /\ \A k \in 1..Width : q[k] = q[k - 1] \div Radix
      /\ \A k \in 0..Width : q[k] <= n
  BY Shifts, ShiftsDecrease
<1>5. s = [i \in 1..l |-> q[l - i] % Radix]
  BY <1>1 DEF Encode
<1> HIDE DEF q, s
<1>6. \A i \in 1..l : /\ l - i \in 0..Width
                      /\ l - (i - 1) \in 1..Width
                      /\ (l - (i - 1)) - 1 = l - i
  BY <1>2
<1>7. \A i \in 1..l : q[l - i] % Radix \in Byte
  BY <1>4, <1>6, Division
<1>8. s \in Seq(Byte) /\ Len(s) = l /\ \A i \in 1..l : s[i] = q[l - i] % Radix
  BY <1>2, <1>5, <1>7
<1>9. PICK v \in [0..l -> Nat] :
          /\ Decode(s) = v[l]
          /\ v[0] = 0
          /\ \A i \in 1..l : v[i] = (v[i - 1] * Radix + s[i]) % Power[Width]
  BY <1>8, Decodes
<1>10. \A i \in 0..l : v[i] = q[l - i]
  <2> DEFINE S == {i \in 0..l : v[i] = q[l - i]}
  <2>1. 0 \in S
    <3>1. 0 \in 0..l /\ l - 0 = l
      BY <1>2
    <3>2. QED
      BY <1>3, <1>9, <3>1
  <2>2. ASSUME NEW i \in 1..l, i - 1 \in S
        PROVE  i \in S
    <3>1. v[i - 1] = q[l - (i - 1)] /\ i \in 0..l
      BY <1>2, <2>2
    <3>2. q[l - (i - 1)] = q[l - i] \div Radix
      BY <1>4, <1>6
    <3>3. q[l - i] \in Nat /\ q[l - i] <= n
      BY <1>4, <1>6
    <3>4. (q[l - i] \div Radix) * Radix + (q[l - i] % Radix) = q[l - i]
      BY <3>3, Division
    <3>5. v[i - 1] * Radix + s[i] = q[l - i]
      BY <1>8, <3>1, <3>2, <3>4
    <3>6. Power[Width] \in Nat
      BY <1>2, Powers
    <3>7. q[l - i] % Power[Width] = q[l - i]
      <4>1. q[l - i] < Power[Width]
        BY <3>3, <3>6
      <4>2. QED
        BY <3>3, <3>6, <4>1, SmallRemainder
    <3>8. v[i] = q[l - i]
      BY <1>9, <3>5, <3>7
    <3>9. QED
      BY <3>1, <3>8
  <2>3. l \in Nat
    BY <1>2
  <2>4. QED
    <3> HIDE DEF S
    <3>1. \A i \in 0..l : i \in S
      BY <2>1, <2>2, <2>3, Counting
    <3>2. QED
      BY <3>1 DEF S
<1>11. Decode(s) = n
  <2>1. l \in 0..l /\ l - l = 0
    BY <1>2
  <2>2. QED
    BY <1>4, <1>9, <1>10, <2>1
<1>12. s # <<>> => s[1] # 0
  <2>1. SUFFICES ASSUME s # <<>>
                 PROVE  s[1] # 0
    OBVIOUS
  <2>2. l # 0
    BY <1>8, <2>1
  <2>3. 1 \in 1..l /\ l - 1 \in 0..Width /\ l \in 1..Width
    BY <1>2, <2>2
  <2>4. q[l - 1] \div Radix = 0 /\ q[l - 1] \in Nat
    BY <1>3, <1>4, <2>3
  <2>5. q[l - 1] % Radix = q[l - 1]
    BY <2>4, Division
  <2>6. QED
    BY <1>3, <1>8, <2>2, <2>3, <2>5
<1>13. QED
  BY <1>11, <1>12 DEF s

(* toUInt64 and Decoder agree where the integer has room for the bytes.    *)
LEMMA SumIsDecode ==
    ASSUME NEW s \in Seq(Byte), Len(s) <= Width
    PROVE  ToUInt64(s) = Decode(s)
<1>1. PICK l \in Nat : l = Len(s)
  OBVIOUS
<1>2. Width \in Nat /\ Radix \in Nat /\ l <= Width
  BY <1>1, RadixAssumption
<1>3. PICK v \in [0..l -> Nat] :
          /\ Decode(s) = v[l]
          /\ v[0] = 0
          /\ \A i \in 1..l : v[i] = (v[i - 1] * Radix + s[i]) % Power[Width]
  BY <1>1, Decodes
<1>4. PICK r \in [0..l -> Nat] :
          /\ ToUInt64(s) = r[l]
          /\ r[0] = 0
          /\ \A i \in 1..l : r[i] = r[i - 1] + s[i] * Power[l - i]
  BY <1>1, Sums
<1>5. \A i \in 1..l : s[i] \in Nat /\ s[i] < Radix
  BY <1>1, <1>2 DEF Byte
<1> DEFINE S == {i \in 0..l : v[i] < Power[i] /\ r[i] = v[i] * Power[l - i]}
<1>6. 0 \in S
  <2>1. 0 \in 0..l /\ l - 0 \in 0..Width
    BY <1>2
  <2>2. Power[0] = 1 /\ Power[l - 0] \in Nat
    BY <2>1, Powers
  <2>3. QED
    BY <1>3, <1>4, <2>1, <2>2
<1>7. ASSUME NEW i \in 1..l, i - 1 \in S
      PROVE  i \in S
  <2>1. /\ i - 1 \in 0..l /\ i \in 0..l
        /\ i - 1 \in 0..Width /\ i \in 1..Width /\ i \in 0..Width
        /\ l - i \in 0..Width /\ l - (i - 1) \in 1..Width
        /\ Width \in 0..Width
        /\ (l - (i - 1)) - 1 = l - i
    BY <1>2
  <2>2. PICK p \in Nat, w \in Nat, a \in Nat :
            p = Power[i - 1] /\ w = Power[l - i] /\ a = v[i - 1]
    BY <2>1, Powers
  <2>3. /\ Power[i] = Radix * p
        /\ Power[l - (i - 1)] = Radix * w
        /\ Power[i] <= Power[Width] /\ Power[Width] \in Nat
    BY <2>1, <2>2, Powers, PowersPositive
  <2>4. a < p /\ r[i - 1] = a * (Radix * w)
    BY <1>7, <2>2, <2>3
  <2>5. s[i] \in Nat /\ s[i] < Radix
    BY <1>5
  <2>6. a * Radix + s[i] \in Nat /\ a * Radix + s[i] < Radix * p
    <3>1. PICK d \in Nat : p = a + 1 + d
      <4>1. p - (a + 1) \in Nat
        BY <2>4
      <4>2. p = a + 1 + (p - (a + 1))
        BY <2>4
      <4>3. QED
        BY <4>1, <4>2
    <3>2. Radix * p = a * Radix + Radix + Radix * d
      BY <1>2, <3>1
    <3>3. a * Radix \in Nat /\ Radix * d \in Nat
      BY <1>2
    <3>4. \A x, y, z \in Nat :
              z < Radix => x + z \in Nat /\ x + z < x + Radix + y
      BY <1>2
    <3>5. /\ a * Radix + s[i] \in Nat
          /\ a * Radix + s[i] < a * Radix + Radix + Radix * d
      BY <2>5, <3>3, <3>4
    <3>6. QED
      BY <3>2, <3>5
  <2>7. v[i] = a * Radix + s[i]
    <3>1. Radix * p \in Nat
      BY <1>2
    <3>2. a * Radix + s[i] < Power[Width]
      <4>1. \A x, y, z \in Nat : x < y /\ y <= z => x < z
        OBVIOUS
      <4>2. QED
        BY <2>3, <2>6, <3>1, <4>1
    <3>3. (a * Radix + s[i]) % Power[Width] = a * Radix + s[i]
      BY <2>3, <2>6, <3>2, SmallRemainder
    <3>4. QED
      BY <1>3, <2>2, <3>3
  <2>8. r[i] = a * (Radix * w) + s[i] * w
    BY <1>4, <2>2, <2>4
  <2>9. (a * Radix + s[i]) * w = a * (Radix * w) + s[i] * w
    <3>1. \A x, y, z \in Nat : (x + y) * z = x * z + y * z
      OBVIOUS
    <3>2. \A x, y, z \in Nat : (x * y) * z = x * (y * z) /\ x * y \in Nat
      OBVIOUS
    <3>3. a * Radix \in Nat /\ (a * Radix) * w = a * (Radix * w)
      BY <1>2, <3>2
    <3>4. (a * Radix + s[i]) * w = (a * Radix) * w + s[i] * w
      BY <2>5, <3>1, <3>3
    <3>5. QED
      BY <3>3, <3>4
  <2>10. QED
    BY <2>1, <2>2, <2>3, <2>6, <2>7, <2>8, <2>9
<1>8. \A i \in 0..l : i \in S
  <2> HIDE DEF S
  <2>1. QED
    BY <1>6, <1>7, Counting
<1>9. r[l] = v[l]
  <2>1. l \in S /\ l - l = 0 /\ v[l] \in Nat
    BY <1>8
  <2>2. Power[l - l] = 1
    BY <2>1, Powers
  <2>3. r[l] = v[l] * Power[l - l]
    BY <2>1
  <2>4. QED
    BY <2>1, <2>2, <2>3
<1>10. QED
  BY <1>3, <1>4, <1>9

(* Every integer comes back from its encoding, which has no leading zero,  *)
(* and toUInt64 and Decoder agree on the bytes of every object, for bytes  *)
(* and integers of any size.                                               *)
THEOREM IntegersRoundTrip == NoBinaryCopied => (Spec => []IntegersComeBack)
<1> SUFFICES ASSUME NoBinaryCopied
             PROVE  Spec => []IntegersComeBack
  OBVIOUS
<1>1. ASSUME Ownership
      PROVE  IntegersComeBack
  <2>1. ASSUME NEW n \in 0..(Power[Width] - 1)
        PROVE  LET s == Encode(n)
               IN  Decode(s) = n /\ (s # <<>> => s[1] # 0)
    <3>1. Power[Width] \in Nat
      BY PowersPositive, RadixAssumption
    <3>2. n \in Nat /\ n < Power[Width]
      BY <3>1
    <3>3. QED
      BY <3>2, DecodeEncode
  <2>2. ASSUME NEW o \in Object, Holds(o)
        PROVE  LET s == heap[Raw(o)]
               IN  Len(s) <= Width => ToUInt64(s) = Decode(s)
    <3>1. heap[Raw(o)] \in Seq(Byte)
      BY <1>1, <2>2, HeldIsAllocated, ConstantsAssumption
    <3>2. QED
      BY <3>1, SumIsDecode
  <2>3. QED
    BY <2>1, <2>2 DEF IntegersComeBack
<1>2. QED
  BY <1>1, Ownerships, PTL
==============================================================================
