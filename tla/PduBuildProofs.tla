---------------------------- MODULE PduBuildProofs ----------------------------
(***************************************************************************)
(* Theorems about PduBuild and their proofs, for any pdus, options, values *)
(* and payloads and for pdus of any size: an Options object is copied node *)
(* by node, and what setPayload answered true for is in the message and is *)
(* read back unless the pdu was full.                                      *)
(***************************************************************************)
EXTENDS PduBuild, FiniteSetTheorems, SequenceTheorems, WellFoundedInduction,
        TLAPS

------------------------------------------------------------------------------
(* Numbers, lists and finite sets.                                         *)

(* A set of numbers has a least one, which is its Min.                     *)
LEMMA MinIsLeast ==
    ASSUME NEW S \in SUBSET Nat, S # {}
    PROVE  Min(S) \in S /\ \A n \in S : Min(S) <= n
<1>1. PICK n \in S : \A m \in S : ~(<<m, n>> \in OpToRel(<, Nat))
  BY NatLessThanWellFounded, WFMin
<1>2. \A m \in S : ~(m < n)
  BY <1>1 DEF OpToRel
<1>3. \A m \in S : n <= m
  BY <1>2
<1>4. QED
  BY <1>3 DEF Min

(* A copy of Options has the same nodes in the same order, for lists of    *)
(* any length: shown for the first i nodes, for each i in turn.            *)
THEOREM CopiedIsOptions ==
    ASSUME NEW options \in Options
    PROVE  Copied(options) = options
<1> DEFINE n == Len(options)
           First(i) == [j \in 1..i |-> options[j]]
           prefix == [i \in 0..n |-> First(i)]
           copy == CHOOSE c :
               c = [i \in 0..n |-> IF i = 0 THEN <<>>
                                   ELSE Insert(c[i - 1], options[i])]
<1>1. options \in Seq(Node) /\ n \in Nat
  BY ConstantsAssumption DEF Options, SeqOf
<1>2. First(0) = <<>>
  <2>1. 1..0 = {}
    OBVIOUS
  <2>2. QED
    BY <2>1
<1>3. \A i \in 1..n : First(i) = Insert(First(i - 1), options[i])
  BY <1>1 DEF Insert
<1>4. prefix = [i \in 0..n |-> IF i = 0 THEN <<>>
                               ELSE Insert(prefix[i - 1], options[i])]
  <2>1. \A i \in 0..n : i # 0 => i \in 1..n /\ i - 1 \in 0..n
    BY <1>1
  <2>2. \A i \in 0..n : i # 0 => prefix[i - 1] = First(i - 1)
    BY <2>1
  <2> HIDE DEF n, First
  <2>3. QED
    BY <1>2, <1>3, <2>1, <2>2
<1>5. copy = [i \in 0..n |-> IF i = 0 THEN <<>>
                             ELSE Insert(copy[i - 1], options[i])]
  BY <1>4
<1> HIDE DEF copy
<1>6. \A i \in 0..n : copy[i] = First(i)
  <2> DEFINE wrong == {i \in 0..n : copy[i] # First(i)}
  <2>1. SUFFICES ASSUME wrong # {} PROVE FALSE
    OBVIOUS
  <2>2. PICK k \in wrong : \A i \in wrong : k <= i
    <3>1. wrong \in SUBSET Nat
      BY <1>1
    <3> HIDE DEF wrong
    <3>2. QED
      BY <2>1, <3>1, MinIsLeast
  <2>3. k \in 0..n /\ copy[k] # First(k)
    OBVIOUS
  <2>4. k # 0
    <3>1. 0 \in 0..n
      BY <1>1
    <3>2. copy[0] = <<>>
      BY <1>5, <3>1
    <3> HIDE DEF First
    <3>3. QED
      BY <1>2, <2>3, <3>2
  <2>5. k \in 1..n /\ k - 1 \in 0..n /\ ~(k <= k - 1)
    BY <1>1, <2>3, <2>4
  <2>6. copy[k - 1] = First(k - 1)
    BY <2>2, <2>5
  <2> HIDE DEF First, wrong
  <2>7. copy[k] = Insert(copy[k - 1], options[k])
    BY <1>5, <2>3, <2>4
  <2>8. QED
    BY <1>3, <2>3, <2>5, <2>6, <2>7
<1>7. Copied(options) = copy[n]
  BY DEF Copied, copy
<1>8. First(n) = options
  BY <1>1
<1>9. n \in 0..n
  BY <1>1
<1>10. QED
  BY <1>6, <1>7, <1>8, <1>9

(* The nodes that sorting leaves unreached are nodes of the list.          *)
LEMMA UnreachedAreNodes ==
    ASSUME NEW options \in Options
    PROVE  Unreached(options) \subseteq Node
<1>1. options \in Seq(Node)
  BY ConstantsAssumption DEF Options, SeqOf
<1>2. ToSet(options) \subseteq Node
  BY <1>1 DEF ToSet
<1>3. QED
  BY <1>2 DEF Unreached

------------------------------------------------------------------------------
(* What libcoap writes into a pdu.                                         *)

(* The first node of a number that the list has is a node of that number.  *)
LEMMA FirstOfIsNode ==
    ASSUME NEW options \in Options, NEW n,
           n \in {options[i].number : i \in DOMAIN options}
    PROVE  FirstOf(options, n) \in Node
<1> DEFINE S == {i \in DOMAIN options : options[i].number = n}
<1>1. options \in Seq(Node)
  BY ConstantsAssumption DEF Options, SeqOf
<1>2. S \in SUBSET Nat /\ S # {}
  BY <1>1
<1>3. Min(S) \in DOMAIN options
  <2>1. Min(S) \in S
    <3> HIDE DEF S
    <3>1. QED
      BY <1>2, MinIsLeast
  <2>2. QED
    BY <2>1
<1>4. QED
  BY <1>1, <1>3 DEF FirstOf

(* Options leave the data as it is, the options that were there, and a pdu *)
(* that is full.                                                           *)
LEMMA OptionsAdded ==
    ASSUME NEW raw \in Raw, NEW options \in Options
    PROVE  LET new == WithOptions(raw, options)
           IN  /\ new \in Raw
               /\ new.data = raw.data
               /\ raw.data = NoData /\ ~Room(raw) => ~Room(new)
<1> DEFINE offered == {options[i].number : i \in DOMAIN options}
           there == {n \in Number : HasOption(raw, n)}
           Before(n) == there \cup {m \in offered : m < n}
           new == WithOptions(raw, options)
<1>1. \A n \in offered : FirstOf(options, n).value \in Value
  BY FirstOfIsNode DEF Node
<1>2. \A n \in Number :
          new.options[n] =
              IF n \in offered \ there /\ Cardinality(Before(n)) < raw.max_size
              THEN FirstOf(options, n).value
              ELSE raw.options[n]
  BY DEF WithOptions, Raw
<1>3. new = [options |-> new.options, data |-> raw.data,
             max_size |-> raw.max_size]
  <2>1. PICK f : new = [raw EXCEPT !.options = f]
    BY DEF WithOptions
  <2> HIDE DEF new
  <2>2. [raw EXCEPT !.options = f] =
            [options |-> f, data |-> raw.data, max_size |-> raw.max_size]
    BY DEF Raw
  <2>3. QED
    BY <2>1, <2>2
<1>4. new.options = [n \in Number |-> new.options[n]]
  BY DEF WithOptions, Raw
<1>5. \A n \in offered : n \in Number
  <2>1. options \in Seq(Node)
    BY ConstantsAssumption DEF Options, SeqOf
  <2>2. \A i \in DOMAIN options : options[i].number \in Number
    <3> HIDE DEF new, offered, there, Before
    <3>1. \A i \in DOMAIN options : options[i] \in Node
      BY <2>1
    <3>2. QED
      BY <3>1 DEF Node
  <2> HIDE DEF new
  <2>3. QED
    BY <2>2
<1> HIDE DEF new
<1>6. \A n \in Number : new.options[n] \in Value \cup {NoValue}
  BY <1>1, <1>2 DEF Raw
<1>7. new \in Raw /\ new.data = raw.data
  BY <1>3, <1>4, <1>6 DEF Raw
<1>8. ASSUME raw.data = NoData, ~Room(raw)
      PROVE  ~Room(new)
  <2>1. /\ IsFiniteSet(there) /\ Cardinality(there) \in Nat
        /\ raw.max_size \in Nat
    BY ConstantsAssumption, FS_Subset, FS_CardinalityType DEF Raw
  <2>2. ~(Cardinality(there) < raw.max_size)
    <3> HIDE DEF there
    <3>1. ~(Cardinality(there) + 0 < raw.max_size)
      BY <1>8 DEF Room, there
    <3>2. QED
      BY <2>1, <3>1
  <2>3. ASSUME NEW n \in Number
        PROVE  ~(Cardinality(Before(n)) < raw.max_size)
    <3>1. IsFiniteSet(Before(n)) /\ there \subseteq Before(n)
      BY <1>5, ConstantsAssumption, FS_Subset
    <3>2. /\ Cardinality(Before(n)) \in Nat
          /\ Cardinality(there) <= Cardinality(Before(n))
      BY <3>1, FS_Subset, FS_CardinalityType
    <3> HIDE DEF there, Before
    <3>3. QED
      BY <2>1, <2>2, <3>2
  <2>4. new.options = raw.options
    BY <1>2, <1>4, <2>3 DEF Raw
  <2>5. new.data = NoData /\ new.max_size = raw.max_size
    BY <1>3, <1>8
  <2>6. QED
    BY <1>8, <2>4, <2>5 DEF Room, HasOption
<1>9. QED
  BY <1>7, <1>8 DEF new

(* One option, likewise.                                                   *)
LEMMA OptionAdded ==
    ASSUME NEW raw \in Raw, NEW n \in Number, NEW v \in Value
    PROVE  /\ WithOption(raw, n, v) \in Raw
           /\ WithOption(raw, n, v).data = raw.data
           /\ ~Room(raw) => WithOption(raw, n, v) = raw
           /\ raw.data = NoData /\ Room(raw) =>
                 HasOption(WithOption(raw, n, v), n)
BY ConstantsAssumption DEF WithOption, OptionsFail, HasOption, Raw

(* Data leaves the options as they are, and is written where there is room *)
(* and none yet.                                                           *)
LEMMA DataAdded ==
    ASSUME NEW raw \in Raw, NEW d \in Data
    PROVE  LET new == WithData(raw, d)
           IN  /\ new \in Raw
               /\ new.options = raw.options
               /\ raw.data = NoData =>
                     IF Room(raw) THEN new.data = d ELSE new = raw
BY DEF WithData, Raw

------------------------------------------------------------------------------
(* Types.                                                                  *)

(* What a wrapper reads is a payload or none.                              *)
LEMMA ReadTyped ==
    ASSUME NEW raw \in Raw
    PROVE  Read(raw) \in Payload \cup {NoPayload}
BY ConstantsAssumption DEF Read, HasOption, Raw, Payload

(* A payload that is written keeps the types, ...                          *)
LEMMA WriteTyped ==
    ASSUME TypeOK, NEW p \in Pdu, NEW payload \in Payload, NEW raw \in Raw,
           Write(p, payload, raw)
    PROVE  TypeOK'
<1>1. WithData(raw, payload.data) \in Raw
  BY DataAdded DEF Payload
<1>2. QED
  BY <1>1 DEF Write, TypeOK

(* ... as does one that is refused, ...                                    *)
LEMMA GiveUpTyped ==
    ASSUME TypeOK, NEW p \in Pdu, NEW raw \in Raw, GiveUp(p, raw)
    PROVE  TypeOK'
BY DEF GiveUp, TypeOK

(* ... and every step.                                                     *)
LEMMA StepTyped == TypeOK /\ [Next]_vars => TypeOK'
<1> SUFFICES ASSUME TypeOK, [Next]_vars PROVE TypeOK'
  OBVIOUS
<1>1. CASE UNCHANGED vars
  BY <1>1 DEF vars, TypeOK
<1>2. ASSUME NEW p \in Pdu, Wrap(p) PROVE TypeOK'
  <2>1. Read(m_rawPdu[p]) \in Payload \cup {NoPayload}
    BY ReadTyped DEF TypeOK
  <2>2. QED
    BY <1>2, <2>1 DEF Wrap, TypeOK
<1>3. ASSUME NEW p \in Pdu, Unwrap(p) PROVE TypeOK'
  BY <1>3 DEF Unwrap, TypeOK
<1>4. ASSUME NEW p \in Pdu, NEW options \in Options, AddOptions(p, options)
      PROVE  TypeOK'
  <2>1. m_rawPdu[p] \in Raw /\ Copied(options) = options
    BY CopiedIsOptions DEF TypeOK
  <2>2. WithOptions(m_rawPdu[p], options) \in Raw
    BY <2>1, OptionsAdded
  <2>3. Unreached(options) \subseteq Node
    BY UnreachedAreNodes
  <2>4. m_rawPdu' \in [Pdu -> Raw] /\ spilled' \in SUBSET Node
    BY <1>4, <2>1, <2>2, <2>3 DEF AddOptions, TypeOK
  <2>5. QED
    BY <1>4, <2>4 DEF AddOptions, TypeOK
<1>5. ASSUME NEW p \in Pdu, NEW payload \in Payload \cup {NoPayload},
             SetPayloadRefused(p, payload)
      PROVE  TypeOK'
  BY <1>5 DEF SetPayloadRefused, vars, TypeOK
<1>6. ASSUME NEW p \in Pdu, NEW payload \in Payload,
             \/ SetPayload(p, payload)
             \/ SetRequestPayload(p, payload)
             \/ SetResponsePayload(p, payload)
      PROVE  TypeOK'
  <2>1. m_rawPdu[p] \in Raw /\ WithFormat(m_rawPdu[p], payload) \in Raw
    BY OptionAdded, ConstantsAssumption DEF TypeOK, WithFormat, Payload
  <2>2. \E raw \in Raw : Write(p, payload, raw) \/ GiveUp(p, raw)
    BY <1>6, <2>1 DEF SetPayload, SetRequestPayload, SetResponsePayload
  <2>3. QED
    BY <2>2, WriteTyped, GiveUpTyped
<1>7. CASE Next
  BY <1>2, <1>3, <1>4, <1>5, <1>6, <1>7
     DEF Next, PduOperations, RequestPduOperations, ResponsePduOperations
<1>8. QED
  BY <1>1, <1>7

(* Every variable keeps its type: what is in a pdu, a wrapper or a list    *)
(* is made of the options, values and payloads the program has.            *)
THEOREM TypeCorrect == Spec => []TypeOK
<1>1. \A p \in Built : Empty(p) \in Raw
  BY ConstantsAssumption DEF Empty, Raw
<1>2. Received \cup {Empty(p) : p \in Built} \subseteq Raw
  BY <1>1, ConstantsAssumption
<1>3. Init => TypeOK
  BY <1>2 DEF Init, TypeOK
<1>4. QED
  BY <1>3, StepTyped, PTL DEF Spec

------------------------------------------------------------------------------
(* Payloads.                                                               *)

(* A pdu the program builds has data only once setPayload has answered     *)
(* true for it, and setPayload is for those pdus only.                     *)
DataIsTold ==
    \A p \in Pdu :
        /\ p \in Built /\ told[p] = NoPayload => m_rawPdu[p].data = NoData
        /\ p \notin Built => told[p] = NoPayload

Kept == PayloadIsWritten /\ PayloadIsReadBack /\ DataHasFormat /\ DataIsTold

(* A wrapper without a payload is around a pdu without data.               *)
LEMMA NothingYet ==
    ASSUME TypeOK, Kept, NEW p \in wrapped \cap Built,
           m_payload[p] = NoPayload
    PROVE  m_rawPdu[p].data = NoData
BY DEF TypeOK, Kept, PayloadIsReadBack, DataIsTold

(* What Write leaves: the payload, with some format, in the pdu and in the *)
(* wrapper, or a pdu that is full.                                         *)
LEMMA WriteKeeps ==
    ASSUME TypeOK, Kept, NEW p \in wrapped \cap Built,
           NEW payload \in Payload, NEW raw \in Raw, raw.data = NoData,
           Room(raw) => HasOption(raw, ContentFormat),
           Write(p, payload, raw)
    PROVE  Kept'
<1> DEFINE new == WithData(raw, payload.data)
<1>1. p \in Pdu /\ wrapped \subseteq Pdu
  BY DEF TypeOK
<1>2. /\ new.options = raw.options
      /\ IF Room(raw) THEN new.data = payload.data ELSE new = raw
  BY DataAdded DEF Payload
<1>3. /\ told'[p] = payload /\ m_payload'[p] = payload
      /\ m_rawPdu'[p] = new
      /\ \A q \in Pdu \ {p} : /\ told'[q] = told[q]
                             /\ m_payload'[q] = m_payload[q]
                             /\ m_rawPdu'[q] = m_rawPdu[q]
      /\ wrapped' = wrapped
  BY <1>1 DEF Write, TypeOK
<1> HIDE DEF new
<1>4. payload # NoPayload
  BY ConstantsAssumption
<1>5. IF Room(raw) THEN m_rawPdu'[p].data = payload.data
      ELSE m_rawPdu'[p].data = NoData /\ ~Room(m_rawPdu'[p])
  BY <1>2, <1>3
<1>6. PayloadIsWritten'
  BY <1>3, <1>5 DEF Kept, PayloadIsWritten
<1>7. PayloadIsReadBack'
  <2>1. ASSUME NEW q \in wrapped', told'[q] # NoPayload,
               m_rawPdu'[q].data # NoData
        PROVE  /\ m_payload'[q] # NoPayload
               /\ m_payload'[q].data = told'[q].data
               /\ m_rawPdu'[q].options[ContentFormat] = told'[q].type
                     => m_payload'[q].type = told'[q].type
    <3>1. CASE q = p
      BY <1>3, <1>4, <3>1
    <3>2. CASE q # p
      <4>1. q \in wrapped /\ q \in Pdu \ {p}
        BY <1>1, <1>3, <2>1, <3>2
      <4>2. QED
        BY <1>3, <2>1, <4>1 DEF Kept, PayloadIsReadBack
    <3>3. QED
      BY <3>1, <3>2
  <2>2. QED
    BY <2>1 DEF PayloadIsReadBack
<1>8. DataHasFormat'
  BY <1>2, <1>3, <1>5, ConstantsAssumption
     DEF Kept, DataHasFormat, HasOption
<1>9. DataIsTold'
  BY <1>3, <1>4, ConstantsAssumption DEF Kept, DataIsTold
<1>10. QED
  BY <1>6, <1>7, <1>8, <1>9 DEF Kept

(* Options go to a pdu without data only; one that was full stays full.    *)
LEMMA OptionsKeep ==
    ASSUME TypeOK, Kept, NEW p \in Pdu, NEW raw \in Raw,
           m_rawPdu[p].data = NoData, raw.data = NoData,
           ~Room(m_rawPdu[p]) => ~Room(raw),
           m_rawPdu' = [m_rawPdu EXCEPT ![p] = raw],
           UNCHANGED <<wrapped, m_payload, told>>
    PROVE  Kept'
<1>1. /\ m_rawPdu'[p] = raw
      /\ \A q \in Pdu \ {p} : m_rawPdu'[q] = m_rawPdu[q]
      /\ wrapped' = wrapped /\ wrapped \subseteq Pdu
      /\ m_payload' = m_payload /\ told' = told
  BY DEF TypeOK
<1>2. PayloadIsWritten'
  <2>1. told[p] # NoPayload => ~Room(m_rawPdu[p])
    <3>1. told[p] # NoPayload => told[p].data # NoData
      BY ConstantsAssumption DEF TypeOK, Payload
    <3>2. QED
      BY <3>1 DEF Kept, PayloadIsWritten
  <2>2. QED
    BY <1>1, <2>1 DEF Kept, PayloadIsWritten
<1>3. PayloadIsReadBack'
  BY <1>1 DEF Kept, PayloadIsReadBack
<1>4. DataHasFormat'
  BY <1>1, ConstantsAssumption DEF Kept, DataHasFormat
<1>5. DataIsTold'
  BY <1>1 DEF Kept, DataIsTold
<1>6. QED
  BY <1>2, <1>3, <1>4, <1>5 DEF Kept

(* A wrapper made on a pdu with a payload reads that payload.              *)
LEMMA WrapKeeps ==
    ASSUME TypeOK, Kept, NEW p \in Pdu, Wrap(p)
    PROVE  Kept'
<1>1. /\ m_rawPdu' = m_rawPdu /\ told' = told
      /\ wrapped' = wrapped \cup {p} /\ wrapped \subseteq Pdu
      /\ m_payload'[p] = Read(m_rawPdu[p])
      /\ \A q \in Pdu \ {p} : m_payload'[q] = m_payload[q]
  BY DEF Wrap, TypeOK
<1>2. ASSUME told[p] # NoPayload, m_rawPdu[p].data # NoData
      PROVE  /\ Read(m_rawPdu[p]) # NoPayload
             /\ Read(m_rawPdu[p]).data = told[p].data
             /\ Read(m_rawPdu[p]).type = m_rawPdu[p].options[ContentFormat]
  <2>1. p \in Built
    BY <1>2 DEF Kept, DataIsTold
  <2>2. HasOption(m_rawPdu[p], ContentFormat)
    BY <1>2, <2>1 DEF Kept, DataHasFormat
  <2>3. m_rawPdu[p].data = told[p].data
    BY <1>2 DEF Kept, PayloadIsWritten
  <2>4. Read(m_rawPdu[p]) = [data |-> m_rawPdu[p].data,
                             type |-> m_rawPdu[p].options[ContentFormat]]
    BY <1>2, <2>2 DEF Read
  <2>5. /\ m_rawPdu[p].data \in Data
        /\ m_rawPdu[p].options[ContentFormat] \in Value
    BY <1>2, <2>2, ConstantsAssumption DEF TypeOK, Raw, HasOption
  <2>6. Read(m_rawPdu[p]) \in Payload
    BY <2>4, <2>5 DEF Payload
  <2>7. QED
    BY <2>3, <2>4, <2>6, ConstantsAssumption
<1>3. PayloadIsReadBack'
  BY <1>1, <1>2 DEF Kept, PayloadIsReadBack
<1>4. PayloadIsWritten' /\ DataHasFormat' /\ DataIsTold'
  BY <1>1 DEF Kept, PayloadIsWritten, DataHasFormat, DataIsTold
<1>5. QED
  BY <1>3, <1>4 DEF Kept

(* A wrapper that goes leaves the message as it is.                        *)
LEMMA UnwrapKeeps ==
    ASSUME TypeOK, Kept, NEW p \in Pdu, Unwrap(p)
    PROVE  Kept'
<1>1. /\ m_rawPdu' = m_rawPdu /\ told' = told
      /\ wrapped' = wrapped \ {p} /\ wrapped \subseteq Pdu
      /\ \A q \in Pdu \ {p} : m_payload'[q] = m_payload[q]
  BY DEF Unwrap, TypeOK
<1>2. QED
  BY <1>1
     DEF Kept, PayloadIsWritten, PayloadIsReadBack, DataHasFormat, DataIsTold

(* The three ways through setPayload of a non-empty payload.               *)
LEMMA SetPayloadKeeps ==
    ASSUME TypeOK, Kept, NEW p \in Pdu, NEW payload \in Payload,
           \/ SetPayload(p, payload)
           \/ SetRequestPayload(p, payload)
           \/ SetResponsePayload(p, payload)
    PROVE  Kept'
<1> DEFINE raw == m_rawPdu[p]
<1>1. p \in wrapped \cap Built /\ m_payload[p] = NoPayload
  BY DEF SetPayload, SetRequestPayload, SetResponsePayload
<1>2. raw \in Raw /\ raw.data = NoData
  BY <1>1, NothingYet DEF TypeOK
<1>3. CASE SetPayload(p, payload)
  BY <1>1, <1>2, <1>3, WriteKeeps DEF SetPayload
<1>4. CASE ~SetPayload(p, payload)
  <2> DEFINE new == WithFormat(raw, payload)
  <2>1. /\ new \in Raw /\ new.data = NoData
        /\ ~Room(raw) => new = raw
        /\ Room(raw) => HasOption(new, ContentFormat)
    BY <1>2, OptionAdded, ConstantsAssumption DEF WithFormat, Payload
  <2>2. ~OptionsFail(raw)
    BY <1>2 DEF OptionsFail
  <2>3. Write(p, payload, new) \/ GiveUp(p, new)
    BY <1>4, <2>2 DEF SetRequestPayload, SetResponsePayload
  <2> HIDE DEF new
  <2>4. CASE Write(p, payload, new)
    BY <1>1, <2>1, <2>4, WriteKeeps
  <2>5. CASE GiveUp(p, new)
    BY <1>2, <2>1, <2>5, OptionsKeep DEF GiveUp
  <2>6. QED
    BY <2>3, <2>4, <2>5
<1>5. QED
  BY <1>3, <1>4

(* Options come before the payload's data, or change nothing.              *)
LEMMA AddOptionsKeeps ==
    ASSUME TypeOK, Kept, NEW p \in Pdu, NEW options \in Options,
           AddOptions(p, options)
    PROVE  Kept'
<1>1. m_rawPdu[p] \in Raw /\ Copied(options) = options
  BY CopiedIsOptions DEF TypeOK
<1>2. CASE OptionsFail(m_rawPdu[p])
  BY <1>2 DEF AddOptions, Kept, PayloadIsWritten, PayloadIsReadBack,
     DataHasFormat, DataIsTold
<1>3. CASE ~OptionsFail(m_rawPdu[p])
  <2> DEFINE new == WithOptions(m_rawPdu[p], options)
  <2>1. m_rawPdu[p].data = NoData
    BY <1>3 DEF OptionsFail
  <2>2. /\ new \in Raw /\ new.data = NoData
        /\ ~Room(m_rawPdu[p]) => ~Room(new)
    BY <1>1, <2>1, OptionsAdded
  <2>3. /\ m_rawPdu' = [m_rawPdu EXCEPT ![p] = new]
        /\ UNCHANGED <<wrapped, m_payload, told>>
    BY <1>1, <1>3 DEF AddOptions, TypeOK
  <2> HIDE DEF new
  <2>4. QED
    BY <2>1, <2>2, <2>3, OptionsKeep
<1>4. QED
  BY <1>2, <1>3

(* Every step keeps what setPayload answered true for.                     *)
LEMMA StepKeeps == TypeOK /\ Kept /\ [Next]_vars => Kept'
<1> SUFFICES ASSUME TypeOK, Kept, [Next]_vars PROVE Kept'
  OBVIOUS
<1>1. ASSUME NEW p \in Pdu, NEW payload \in Payload \cup {NoPayload},
             SetPayloadRefused(p, payload)
      PROVE  UNCHANGED vars
  BY <1>1 DEF SetPayloadRefused
<1>2. CASE UNCHANGED vars
  BY <1>2 DEF vars, Kept, PayloadIsWritten, PayloadIsReadBack,
     DataHasFormat, DataIsTold
<1>3. CASE Next
  BY <1>1, <1>2, <1>3, WrapKeeps, UnwrapKeeps, AddOptionsKeeps,
     SetPayloadKeeps
     DEF Next, PduOperations, RequestPduOperations, ResponsePduOperations
<1>4. QED
  BY <1>2, <1>3

(* Messages, wrappers and answers agree throughout.                        *)
LEMMA AlwaysKept == Spec => [](TypeOK /\ Kept)
<1>1. Init => Kept
  <2> SUFFICES ASSUME Init PROVE Kept
    OBVIOUS
  <2>1. \A p \in Pdu : told[p] = NoPayload
    BY DEF Init
  <2>2. \A p \in Built : m_rawPdu[p].data = NoData
    BY ConstantsAssumption DEF Init, Empty
  <2>3. wrapped = {}
    BY DEF Init
  <2>4. QED
    BY <2>1, <2>2, <2>3 DEF Kept, PayloadIsWritten, PayloadIsReadBack,
       DataHasFormat, DataIsTold
<1>2. QED
  BY <1>1, StepKeeps, TypeCorrect, PTL DEF Spec

(* What setPayload answered true for stays in the message, in both classes *)
(* of messages, whatever is done to it and through whatever wrappers; only *)
(* a pdu without room is left without it.                                  *)
THEOREM PayloadStays == Spec => []PayloadIsWritten
<1>1. TypeOK /\ Kept => PayloadIsWritten
  BY DEF Kept
<1>2. QED
  BY <1>1, AlwaysKept, PTL

(* Every wrapper of that message reads the payload back.                   *)
THEOREM PayloadComesBack == Spec => []PayloadIsReadBack
<1>1. TypeOK /\ Kept => PayloadIsReadBack
  BY DEF Kept
<1>2. QED
  BY <1>1, AlwaysKept, PTL

(* No message the program builds has data without a content format.        *)
THEOREM FormatComesWithData == Spec => []DataHasFormat
<1>1. TypeOK /\ Kept => DataHasFormat
  BY DEF Kept
<1>2. QED
  BY <1>1, AlwaysKept, PTL

(* setPayload answers true at most once for a message that has its data.   *)
THEOREM AcceptedOnce == Spec => PayloadOnce
<1>1. ASSUME TypeOK, Kept, Next, NEW q \in Pdu, told[q] # NoPayload,
             m_rawPdu[q].data # NoData
      PROVE  told'[q] = told[q]
  <2>1. ASSUME NEW p \in Pdu, NEW payload, NEW raw, Write(p, payload, raw),
               p \in wrapped \cap Built, m_payload[p] = NoPayload
        PROVE  told'[q] = told[q]
    <3>1. p # q
      BY <1>1, <2>1, NothingYet
    <3>2. QED
      BY <1>1, <2>1, <3>1 DEF Write, TypeOK
  <2>2. ASSUME NEW p \in Pdu, NEW payload \in Payload,
               \/ SetPayload(p, payload)
               \/ SetRequestPayload(p, payload)
               \/ SetResponsePayload(p, payload)
        PROVE  told'[q] = told[q]
    <3>1. p \in wrapped \cap Built /\ m_payload[p] = NoPayload
      BY <2>2 DEF SetPayload, SetRequestPayload, SetResponsePayload
    <3>2. \E raw : Write(p, payload, raw) \/ GiveUp(p, raw)
      BY <2>2 DEF SetPayload, SetRequestPayload, SetResponsePayload
    <3>3. QED
      BY <2>1, <3>1, <3>2 DEF GiveUp
  <2>3. ASSUME NEW p \in Pdu,
               \/ Wrap(p)
               \/ Unwrap(p)
               \/ \E options \in Options : AddOptions(p, options)
               \/ \E payload \in Payload \cup {NoPayload} :
                     SetPayloadRefused(p, payload)
        PROVE  told' = told
    BY <2>3 DEF Wrap, Unwrap, AddOptions, SetPayloadRefused, vars
  <2>4. QED
    BY <1>1, <2>2, <2>3
       DEF Next, PduOperations, RequestPduOperations, ResponsePduOperations
<1>2. TypeOK /\ Kept /\ [Next]_vars
         => [\A p \in Pdu : told[p] # NoPayload /\ m_rawPdu[p].data # NoData
                => told'[p] = told[p]]_vars
  BY <1>1
<1>3. QED
  BY <1>2, AlwaysKept, PTL DEF Spec, PayloadOnce
==============================================================================
