------------------------- MODULE BlockTransferProofs -------------------------
(***************************************************************************)
(* Theorems about BlockTransfer, for any number of clients, resources,     *)
(* buffers and copies in the network, and bodies of any length: types, the *)
(* owner of each buffer, and the bodies whose blocks came in turn.         *)
(***************************************************************************)
EXTENDS BlockTransfer, FiniteSetTheorems, TLAPS

------------------------------------------------------------------------------
(* Blocks.                                                                 *)

(* Lengths are numbers.                                                    *)
LEMMA LengthType == \A d \in Body : Length[d] \in Nat
BY ConstantsAssumption

(* A body that is begun anew has the length of what is sent ...            *)
LEMMA BuildAnew ==
    ASSUME NEW request \in Request
    PROVE  /\ Build(Free, request) \in
                  [1..Length[request.body] -> Body \cup {Unset}]
           /\ request.block \in 1..Length[request.body] =>
                  Build(Free, request)[request.block] = request.body
BY DEF Build, Request

(* ... and one that a block joins keeps the others.                        *)
LEMMA BuildOn ==
    ASSUME NEW request \in Request, NEW blocks \in Blocks
    PROVE  /\ DOMAIN Build(blocks, request) =
                  DOMAIN blocks \cup 1..Length[request.body]
           /\ \A i \in DOMAIN blocks \cup 1..Length[request.body] :
                  Build(blocks, request)[i] =
                     IF i = request.block THEN request.body
                     ELSE IF i \in DOMAIN blocks THEN blocks[i] ELSE Unset
BY ConstantsAssumption DEF Build

(* What coap_block_build_body makes is a sequence of blocks.               *)
LEMMA BuildType ==
    ASSUME NEW request \in Request, NEW blocks \in Blocks \cup {Free}
    PROVE  Build(blocks, request) \in Blocks
<1>1. request.body \in Body
  BY DEF Request
<1>2. CASE blocks = Free
  BY <1>1, <1>2, BuildAnew DEF Blocks
<1>3. CASE blocks \in Blocks
  <2>1. PICK d \in Body : blocks \in [1..Length[d] -> Body \cup {Unset}]
    BY <1>3 DEF Blocks
  <2>2. DOMAIN blocks = 1..Length[d]
    BY <2>1
  <2>3. PICK e \in Body :
            1..Length[e] = DOMAIN blocks \cup 1..Length[request.body]
    <3>1. CASE Length[d] <= Length[request.body]
      BY <1>1, <2>2, <3>1, LengthType
    <3>2. CASE Length[request.body] <= Length[d]
      BY <1>1, <2>2, <3>2, LengthType
    <3>3. QED
      BY <1>1, <3>1, <3>2, LengthType
  <2>4. \A i \in 1..Length[e] :
            Build(blocks, request)[i] \in Body \cup {Unset}
    BY <1>1, <1>3, <2>1, <2>2, <2>3, BuildOn
  <2>5. Build(blocks, request) \in [1..Length[e] -> Body \cup {Unset}]
    <3>1. DOMAIN Build(blocks, request) = 1..Length[e]
      BY <1>3, <2>3, BuildOn
    <3>2. Build(blocks, request) =
              [i \in 1..Length[e] |-> Build(blocks, request)[i]]
      BY <3>1 DEF Build
    <3>3. QED
      BY <2>4, <3>2
  <2>6. QED
    BY <2>5 DEF Blocks
<1>4. QED
  BY <1>2, <1>3

------------------------------------------------------------------------------
(* Type correctness.                                                       *)

(* A client's requests for a resource have one key.                        *)
LEMMA KeyType ==
    ASSUME NEW c \in Client, NEW request \in Request
    PROVE  KeyOf(c, request) \in Key
BY DEF KeyOf, Key, Request

(* The heap keeps its type when an entry's body is deleted.                *)
LEMMA DeleteBodyType ==
    ASSUME TypeOK, NEW k \in Key
    PROVE  DeleteBody(k) \in [Buffer -> Blocks \cup {Free}]
BY DEF DeleteBody, TypeOK

(* What arrives is a request.                                              *)
LEMMA ArrivingType ==
    ASSUME TypeOK, NEW c \in Client, NEW request \in Arriving(c)
    PROVE  request \in Request
<1>1. CASE request = sending[c] /\ request # Idle
  BY <1>1 DEF TypeOK
<1>2. CASE request \in {p[2] : p \in {q \in late : q[1] = c}}
  <2>1. PICK p \in late : request = p[2]
    BY <1>2
  <2>2. QED
    BY <2>1 DEF TypeOK
<1>3. QED
  BY <1>1, <1>2 DEF Arriving

(* A reader of a request has its type.                                     *)
LEMMA NewReaderType ==
    ASSUME NEW c \in Client, NEW request \in Request, NewReader(c, request)
    PROVE  /\ reader' \in Reader
           /\ reader' # Idle
           /\ reader'.client = c
           /\ reader'.request = request
           /\ reader'.m_bobyData = NoBuffer
BY ConstantsAssumption DEF NewReader, Reader

(* A first block keeps the types.                                          *)
LEMMA FirstBlockTypes ==
    ASSUME TypeOK, NEW c \in Client, NEW request \in Request,
           NEW b \in Buffer, FirstBlock(c, request, b)
    PROVE  TypeOK'
<1> DEFINE k == KeyOf(c, request)
           left == DeleteBody(k)
<1>1. k \in Key
  BY KeyType
<1>2. left \in [Buffer -> Blocks \cup {Free}]
  BY <1>1, DeleteBodyType
<1>3. Build(Free, request) \in Blocks
  BY BuildType
<1>4. /\ heap' = [left EXCEPT ![b] = Build(Free, request)]
      /\ cache' = [cache EXCEPT ![k] = b]
      /\ disturbed' = disturbed \ {k} \/ disturbed' = disturbed \cup {k}
      /\ NewReader(c, request)
      /\ UNCHANGED <<sending, late, handed, lost>>
  BY DEF FirstBlock, Begins
<1> HIDE DEF k, left
<1>5. /\ heap' \in [Buffer -> Blocks \cup {Free}]
      /\ cache' \in [Key -> Buffer \cup {NoBuffer, NoEntry}]
      /\ disturbed' \in SUBSET Key
  BY <1>1, <1>2, <1>3, <1>4 DEF TypeOK
<1>6. reader' \in Reader
  BY <1>4, NewReaderType
<1>7. QED
  BY <1>4, <1>5, <1>6 DEF TypeOK

(* So does a request without a payload, ...                                *)
LEMMA EmptyRequestTypes ==
    ASSUME TypeOK, NEW c \in Client, NEW request \in Request,
           EmptyRequest(c, request)
    PROVE  TypeOK'
<1> DEFINE k == KeyOf(c, request)
<1>1. k \in Key
  BY KeyType
<1>2. /\ heap' = DeleteBody(k)
      /\ cache' = [cache EXCEPT ![k] = NoBuffer]
      /\ disturbed' = disturbed \ {k} \/ disturbed' = disturbed \cup {k}
      /\ NewReader(c, request)
      /\ UNCHANGED <<sending, late, handed, lost>>
  BY DEF EmptyRequest, Begins
<1>3. heap' \in [Buffer -> Blocks \cup {Free}]
  BY <1>1, <1>2, DeleteBodyType
<1> HIDE DEF k
<1>4. /\ cache' \in [Key -> Buffer \cup {NoBuffer, NoEntry}]
      /\ disturbed' \in SUBSET Key
  BY <1>1, <1>2 DEF TypeOK
<1>5. reader' \in Reader
  BY <1>2, NewReaderType
<1>6. QED
  BY <1>2, <1>3, <1>4, <1>5 DEF TypeOK

(* ... a later block, ...                                                  *)
LEMMA LaterBlockTypes ==
    ASSUME TypeOK, NEW c \in Client, NEW request \in Request,
           NEW b \in Buffer, LaterBlock(c, request, b)
    PROVE  TypeOK'
<1> DEFINE k == KeyOf(c, request)
<1>1. k \in Key
  BY KeyType
<1>2. Build(heap[b], request) \in Blocks
  BY BuildType DEF TypeOK
<1>3. /\ heap' = [heap EXCEPT ![b] = Build(heap[b], request)]
      /\ cache' = [cache EXCEPT ![k] = b]
      /\ disturbed' = disturbed \/ disturbed' = disturbed \cup {k}
      /\ NewReader(c, request)
      /\ UNCHANGED <<sending, late, handed, lost>>
  BY DEF LaterBlock
<1> HIDE DEF k
<1>4. /\ heap' \in [Buffer -> Blocks \cup {Free}]
      /\ cache' \in [Key -> Buffer \cup {NoBuffer, NoEntry}]
      /\ disturbed' \in SUBSET Key
  BY <1>1, <1>2, <1>3 DEF TypeOK
<1>5. reader' \in Reader
  BY <1>3, NewReaderType
<1>6. QED
  BY <1>3, <1>4, <1>5 DEF TypeOK

(* ... read(), ...                                                         *)
LEMMA ReadBodyTypes ==
    ASSUME TypeOK, NEW b \in Buffer, ReadBody(b)
    PROVE  TypeOK'
<1>1. reader \in Reader /\ reader.request \in Request
      /\ reader.client \in Client
  BY DEF ReadBody, TypeOK, Reader
<1>2. KeyOf(reader.client, reader.request) \in Key
  BY <1>1, KeyType
<1>3. /\ heap' \in [Buffer -> Blocks \cup {Free}]
      /\ cache' \in [Key -> Buffer \cup {NoBuffer, NoEntry}]
  <2>1. CASE IsBlockTransfer(reader.request)
    BY <1>2, <2>1 DEF ReadBody, Take, TypeOK
  <2>2. CASE ~IsBlockTransfer(reader.request)
    <3>1. Build(Free, reader.request) \in Blocks
      BY <1>1, BuildType
    <3>2. QED
      BY <2>2, <3>1 DEF ReadBody, CopyRequest, TypeOK
  <2>3. QED
    BY <2>1, <2>2
<1>4. /\ reader' = [reader EXCEPT !.m_bobyData = b]
      /\ UNCHANGED <<sending, late, lost, disturbed>>
  BY DEF ReadBody
<1>5. reader' \in Reader
  BY <1>1, <1>4 DEF Reader
<1>6. handed' \in SUBSET Handed
  <2>1. reader.request.body \in Body
    BY <1>1 DEF Request
  <2>2. \E t \in BOOLEAN :
            handed' = handed \cup {[buffer |-> b,
                                    body |-> reader.request.body,
                                    inTurn |-> t]}
    BY DEF ReadBody
  <2>3. QED
    BY <2>1, <2>2 DEF TypeOK, Handed
<1>7. QED
  BY <1>3, <1>4, <1>5, <1>6 DEF TypeOK

(* ... an answer, after which the client goes on with its body, ...        *)
LEMMA AnsweredTypes ==
    ASSUME TypeOK, Answered
    PROVE  TypeOK'
<1>1. reader \in Reader /\ reader.client \in Client
      /\ reader.request \in Request
  BY DEF Answered, TypeOK, Reader
<1>2. NextBlock(reader.request) \in Request
  BY <1>1 DEF NextBlock, Request
<1>3. sending' \in [Client -> Request \cup {Idle}]
  BY <1>1, <1>2 DEF Answered, TypeOK
<1>4. QED
  BY <1>3 DEF Answered, TypeOK, memory

(* ... and the end of a session.                                           *)
LEMMA SessionEndsTypes ==
    ASSUME TypeOK, NEW c \in Client, SessionEnds(c)
    PROVE  TypeOK'
<1>1. {cache[<<c, r>>] : r \in {q \in Resource : cache[<<c, q>>] \in Buffer}}
         \subseteq Buffer
  OBVIOUS
<1>2. cache' \in [Key -> Buffer \cup {NoBuffer, NoEntry}]
  BY DEF SessionEnds, TypeOK
<1>3. QED
  BY <1>1, <1>2 DEF SessionEnds, TypeOK

(* Every step keeps the types.                                             *)
LEMMA TypeOKStep ==
    ASSUME TypeOK, [Next]_vars
    PROVE  TypeOK'
<1> USE ConstantsAssumption
<1>1. ASSUME NEW c \in Client, NEW r \in Resource, NEW d \in Body,
             Send(c, r, d)
      PROVE  TypeOK'
  <2>1. [resource |-> r, body |-> d, block |-> 1] \in Request
    BY DEF Request
  <2>2. sending' \in [Client -> Request \cup {Idle}]
    BY <1>1, <2>1 DEF Send, TypeOK
  <2>3. QED
    BY <1>1, <2>2 DEF Send, TypeOK, memory
<1>2. ASSUME NEW c \in Client, GiveUp(c)
      PROVE  TypeOK'
  BY <1>2 DEF GiveUp, TypeOK, memory
<1>3. ASSUME NEW c \in Client, Keep(c)
      PROVE  TypeOK'
  <2>1. <<c, sending[c]>> \in Client \X Request
    BY <1>3 DEF Keep, TypeOK
  <2>2. QED
    BY <1>3, <2>1 DEF Keep, TypeOK, memory
<1>4. ASSUME NEW p \in late, Drop(p)
      PROVE  TypeOK'
  BY <1>4 DEF Drop, TypeOK, memory
<1>5. ASSUME NEW c \in Client, NEW request \in Arriving(c), NEW b \in Buffer,
             FirstBlock(c, request, b)
      PROVE  TypeOK'
  BY <1>5, FirstBlockTypes, ArrivingType
<1>6. ASSUME NEW c \in Client, NEW request \in Arriving(c), NEW b \in Buffer,
             LaterBlock(c, request, b)
      PROVE  TypeOK'
  BY <1>6, LaterBlockTypes, ArrivingType
<1>7. ASSUME NEW c \in Client, NEW request \in Arriving(c),
             EmptyRequest(c, request)
      PROVE  TypeOK'
  BY <1>7, EmptyRequestTypes, ArrivingType
<1>8. ASSUME NEW c \in Client, NEW request \in Arriving(c),
             BlockWithoutEntry(c, request)
      PROVE  TypeOK'
  BY <1>8 DEF BlockWithoutEntry, TypeOK, memory
<1>9. ASSUME NEW c \in Client, SessionEnds(c)
      PROVE  TypeOK'
  BY <1>9, SessionEndsTypes
<1>10. ASSUME NEW b \in Buffer, ReadBody(b)
       PROVE  TypeOK'
  BY <1>10, ReadBodyTypes
<1>11. ASSUME NEW h \in handed, Release(h)
       PROVE  TypeOK'
  BY <1>11 DEF Release, TypeOK
<1>12. CASE Answered
  BY <1>12, AnsweredTypes
<1>13. CASE AnswerLost
  BY <1>13 DEF AnswerLost, TypeOK, memory
<1>14. CASE UNCHANGED vars
  BY <1>14 DEF vars, memory, TypeOK
<1>15. QED
  BY <1>1, <1>2, <1>3, <1>4, <1>5, <1>6, <1>7, <1>8, <1>9, <1>10, <1>11,
     <1>12, <1>13, <1>14
  DEF Next

(* Every variable keeps its type, whatever lengths the bodies that share a *)
(* buffer have.                                                            *)
THEOREM TypeCorrect == Spec => []TypeOK
<1>1. Init => TypeOK
  BY DEF Init, TypeOK
<1>2. QED
  BY <1>1, TypeOKStep, PTL DEF Spec

------------------------------------------------------------------------------
(* Ownership.                                                              *)

(* The owners of a buffer, one by one: the entry of one key, what the      *)
(* application holds of one body, or an entry that went with its session.  *)
Owned(b) ==
    /\ heap[b] = Free =>
          /\ \A k \in Key : cache[k] # b
          /\ \A h \in handed : h.buffer # b
          /\ b \notin lost
    /\ heap[b] # Free =>
          \/ \E k \in Key : cache[k] = b
          \/ \E h \in handed : h.buffer = b
          \/ b \in lost
    /\ \A k \in Key : cache[k] = b =>
          /\ \A j \in Key : cache[j] = b => j = k
          /\ \A h \in handed : h.buffer # b
          /\ b \notin lost
    /\ \A h \in handed : h.buffer = b =>
          /\ \A g \in handed : g.buffer = b => g = h
          /\ b \notin lost

Ownership == \A b \in Buffer : Owned(b)

(* The owners counted.                                                     *)
LEMMA OwnersCounted ==
    ASSUME Ownership
    PROVE  BuffersOwnedOnce
<1>1. SUFFICES ASSUME NEW b \in Buffer
               PROVE  Cardinality({k \in Key : cache[k] = b})
                      + Cardinality({h \in handed : h.buffer = b})
                      + Cardinality(lost \cap {b})
                          = IF heap[b] = Free THEN 0 ELSE 1
  BY DEF BuffersOwnedOnce
<1> DEFINE K == {k \in Key : cache[k] = b}
           H == {h \in handed : h.buffer = b}
           L == lost \cap {b}
<1>2. \/ heap[b] = Free /\ K = {} /\ H = {} /\ L = {}
      \/ heap[b] # Free /\ (\E k : K = {k}) /\ H = {} /\ L = {}
      \/ heap[b] # Free /\ K = {} /\ (\E h : H = {h}) /\ L = {}
      \/ heap[b] # Free /\ K = {} /\ H = {} /\ L = {b}
  <2>1. Owned(b)
    BY DEF Ownership
  <2>2. CASE heap[b] = Free
    BY <2>1, <2>2 DEF Owned
  <2>3. ASSUME heap[b] # Free, NEW k \in Key, cache[k] = b
        PROVE  K = {k} /\ H = {} /\ L = {}
    BY <2>1, <2>3 DEF Owned
  <2>4. ASSUME heap[b] # Free, NEW h \in handed, h.buffer = b
        PROVE  K = {} /\ H = {h} /\ L = {}
    BY <2>1, <2>4 DEF Owned
  <2>5. ASSUME heap[b] # Free, b \in lost
        PROVE  K = {} /\ H = {} /\ L = {b}
    BY <2>1, <2>5 DEF Owned
  <2>6. heap[b] # Free => \/ \E k \in Key : cache[k] = b
                          \/ \E h \in handed : h.buffer = b
                          \/ b \in lost
    BY <2>1 DEF Owned
  <2> HIDE DEF K, H, L
  <2>7. QED
    BY <2>2, <2>3, <2>4, <2>5, <2>6 DEF K, H, L
<1> HIDE DEF K, H, L
<1>3. Cardinality({}) = 0 /\ \A x : Cardinality({x}) = 1
  BY FS_EmptySet, FS_Singleton
<1>4. LET n == IF heap[b] = Free THEN 0 ELSE 1
      IN  \/ Cardinality(K) = n /\ Cardinality(H) = 0 /\ Cardinality(L) = 0
          \/ Cardinality(K) = 0 /\ Cardinality(H) = n /\ Cardinality(L) = 0
          \/ Cardinality(K) = 0 /\ Cardinality(H) = 0 /\ Cardinality(L) = n
  BY <1>2, <1>3
<1>5. Cardinality(K) + Cardinality(H) + Cardinality(L)
         = IF heap[b] = Free THEN 0 ELSE 1
  BY <1>4
<1>6. QED
  BY <1>5 DEF K, H, L

(* A step that leaves the caches, the buffers and who holds them alone, or *)
(* only writes to a buffer that is allocated.                              *)
LEMMA SameOwners ==
    ASSUME Ownership, UNCHANGED <<cache, handed, lost>>,
           \A b \in Buffer : heap'[b] = Free <=> heap[b] = Free
    PROVE  Ownership'
BY DEF Ownership, Owned

(* A first block gives its buffer to the entry.                            *)
LEMMA FirstBlockOwners ==
    ASSUME TypeOK, Ownership, NEW c \in Client, NEW request \in Request,
           NEW b \in Buffer, FirstBlock(c, request, b)
    PROVE  Ownership'
<1> USE ConstantsAssumption
<1> DEFINE k == KeyOf(c, request)
           left == DeleteBody(k)
           built == Build(Free, request)
<1>1. k \in Key
  BY KeyType
<1>2. built # Free
  BY <1>1, BuildType
<1>3. /\ left[b] = Free
      /\ heap' = [left EXCEPT ![b] = built]
      /\ cache' = [cache EXCEPT ![k] = b]
      /\ UNCHANGED <<handed, lost>>
  BY DEF FirstBlock
<1>4. /\ left \in [Buffer -> Blocks \cup {Free}]
      /\ \A a \in Buffer :
             left[a] = IF a = cache[k] THEN Free ELSE heap[a]
  BY <1>1, DeleteBodyType DEF DeleteBody, TypeOK
<1> HIDE DEF k, left, built
<1>5. /\ \A a \in Buffer \ {b} :
             heap'[a] = IF a = cache[k] THEN Free ELSE heap[a]
      /\ heap'[b] # Free
      /\ cache'[k] = b
      /\ \A j \in Key \ {k} : cache'[j] = cache[j]
  BY <1>1, <1>2, <1>3, <1>4 DEF TypeOK
<1>6. heap[b] = Free \/ cache[k] = b
  BY <1>3, <1>4
<1>7. /\ \A j \in Key \ {k} : cache[j] # b
      /\ \A h \in handed : h.buffer # b
      /\ b \notin lost
  BY <1>1, <1>6 DEF Ownership, Owned
<1>8. ASSUME NEW a \in Buffer \ {b}
      PROVE  Owned(a)'
  <2>1. CASE a = cache[k]
    BY <1>1, <1>3, <1>5, <1>8, <2>1 DEF Ownership, Owned
  <2>2. CASE a # cache[k]
    BY <1>1, <1>3, <1>5, <1>8, <2>2 DEF Ownership, Owned
  <2>3. QED
    BY <2>1, <2>2
<1>9. Owned(b)'
  BY <1>1, <1>3, <1>5, <1>7 DEF Owned
<1>10. QED
  BY <1>8, <1>9 DEF Ownership

(* A request without a payload leaves the entry without one.               *)
LEMMA EmptyRequestOwners ==
    ASSUME TypeOK, Ownership, NEW c \in Client, NEW request \in Request,
           EmptyRequest(c, request)
    PROVE  Ownership'
<1> USE ConstantsAssumption
<1> DEFINE k == KeyOf(c, request)
<1>1. k \in Key
  BY KeyType
<1>2. /\ heap' = DeleteBody(k)
      /\ cache' = [cache EXCEPT ![k] = NoBuffer]
      /\ UNCHANGED <<handed, lost>>
  BY DEF EmptyRequest
<1> HIDE DEF k
<1>3. \A a \in Buffer : heap'[a] = IF a = cache[k] THEN Free ELSE heap[a]
  BY <1>1, <1>2 DEF DeleteBody, TypeOK
<1>4. /\ cache'[k] = NoBuffer
      /\ \A j \in Key \ {k} : cache'[j] = cache[j]
  BY <1>1, <1>2 DEF TypeOK
<1>5. ASSUME NEW a \in Buffer
      PROVE  Owned(a)'
  BY <1>1, <1>2, <1>3, <1>4 DEF Ownership, Owned
<1>6. QED
  BY <1>5 DEF Ownership

(* A later block replaces the entry's buffer, or keeps it.                 *)
LEMMA LaterBlockOwners ==
    ASSUME TypeOK, Ownership, NEW c \in Client, NEW request \in Request,
           NEW b \in Buffer, LaterBlock(c, request, b)
    PROVE  Ownership'
<1> USE ConstantsAssumption
<1> DEFINE k == KeyOf(c, request)
           built == Build(heap[b], request)
<1>1. k \in Key
  BY KeyType
<1>2. built # Free
  BY <1>1, BuildType DEF TypeOK
<1>3. /\ b = cache[k] \/ (cache[k] = NoBuffer /\ heap[b] = Free)
      /\ heap' = [heap EXCEPT ![b] = built]
      /\ cache' = [cache EXCEPT ![k] = b]
      /\ UNCHANGED <<handed, lost>>
  BY DEF LaterBlock
<1> HIDE DEF k, built
<1>4. /\ \A a \in Buffer \ {b} : heap'[a] = heap[a] /\ a # cache[k]
      /\ heap'[b] # Free
      /\ cache'[k] = b
      /\ \A j \in Key \ {k} : cache'[j] = cache[j]
  BY <1>1, <1>2, <1>3 DEF TypeOK
<1>5. /\ \A j \in Key \ {k} : cache[j] # b
      /\ \A h \in handed : h.buffer # b
      /\ b \notin lost
  BY <1>1, <1>3 DEF Ownership, Owned
<1>6. ASSUME NEW a \in Buffer \ {b}
      PROVE  Owned(a)'
  BY <1>1, <1>3, <1>4, <1>6 DEF Ownership, Owned
<1>7. Owned(b)'
  BY <1>1, <1>3, <1>4, <1>5 DEF Owned
<1>8. QED
  BY <1>6, <1>7 DEF Ownership

(* read() moves the buffer from the entry to the application.              *)
LEMMA ReadBodyOwners ==
    ASSUME TypeOK, Ownership, NEW b \in Buffer, ReadBody(b)
    PROVE  Ownership'
<1> USE ConstantsAssumption
<1> DEFINE k == KeyOf(reader.client, reader.request)
           new == [buffer |-> b, body |-> reader.request.body,
                   inTurn |-> IsBlockTransfer(reader.request)
                                 => k \notin disturbed]
<1>1. reader.request \in Request /\ k \in Key
  BY KeyType DEF ReadBody, TypeOK, Reader
<1>2. /\ handed' = handed \cup {new}
      /\ new.buffer = b
      /\ UNCHANGED lost
  BY DEF ReadBody
<1>3. CASE IsBlockTransfer(reader.request)
  <2>1. /\ b = cache[k]
        /\ cache' = [cache EXCEPT ![k] = NoBuffer]
        /\ UNCHANGED heap
    BY <1>3 DEF ReadBody, Take
  <2> HIDE DEF k, new
  <2>2. /\ cache'[k] = NoBuffer
        /\ \A j \in Key \ {k} : cache'[j] = cache[j]
    BY <1>1, <2>1 DEF TypeOK
  <2>3. \A a \in Buffer \ {b} : Owned(a)'
    BY <1>1, <1>2, <2>1, <2>2 DEF Ownership, Owned
  <2>4. Owned(b)'
    BY <1>1, <1>2, <2>1, <2>2 DEF Ownership, Owned
  <2>5. QED
    BY <2>3, <2>4 DEF Ownership
<1>4. CASE ~IsBlockTransfer(reader.request)
  <2>1. Build(Free, reader.request) # Free
    BY <1>1, BuildType
  <2>2. /\ heap[b] = Free
        /\ heap' = [heap EXCEPT ![b] = Build(Free, reader.request)]
        /\ UNCHANGED cache
    BY <1>4 DEF ReadBody, CopyRequest
  <2> HIDE DEF k, new
  <2>3. /\ heap'[b] # Free
        /\ \A a \in Buffer \ {b} : heap'[a] = heap[a]
    BY <2>1, <2>2 DEF TypeOK
  <2>4. \A a \in Buffer \ {b} : Owned(a)'
    BY <1>2, <2>2, <2>3 DEF Ownership, Owned
  <2>5. Owned(b)'
    BY <1>2, <2>2, <2>3 DEF Ownership, Owned
  <2>6. QED
    BY <2>4, <2>5 DEF Ownership
<1>5. QED
  BY <1>3, <1>4

(* The application frees what it was handed.                               *)
LEMMA ReleaseOwners ==
    ASSUME TypeOK, Ownership, NEW h \in handed, Release(h)
    PROVE  Ownership'
<1> DEFINE b == h.buffer
<1>1. /\ b \in Buffer
      /\ handed' = handed \ {h}
      /\ heap'[b] = Free
      /\ \A a \in Buffer \ {b} : heap'[a] = heap[a]
      /\ UNCHANGED <<cache, lost>>
  BY DEF Release, TypeOK, Handed
<1>2. \A a \in Buffer \ {b} : Owned(a)'
  BY <1>1 DEF Ownership, Owned
<1>3. Owned(b)'
  BY <1>1 DEF Ownership, Owned
<1>4. QED
  BY <1>2, <1>3 DEF Ownership

(* The bodies in the entries of a session that ends are lost.              *)
LEMMA SessionEndsOwners ==
    ASSUME TypeOK, Ownership, NEW c \in Client, SessionEnds(c)
    PROVE  Ownership'
<1> USE ConstantsAssumption
<1> DEFINE gone == {cache[<<c, r>>] : r \in
                       {q \in Resource : cache[<<c, q>>] \in Buffer}}
<1>1. /\ lost' = lost \cup gone
      /\ \A k \in Key :
             cache'[k] = IF k[1] = c THEN NoEntry ELSE cache[k]
      /\ UNCHANGED <<heap, handed>>
  BY DEF SessionEnds
<1>2. ASSUME NEW a \in Buffer
      PROVE  a \in gone <=> \E k \in Key : k[1] = c /\ cache[k] = a
  <2>1. ASSUME a \in gone
        PROVE  \E k \in Key : k[1] = c /\ cache[k] = a
    <3>1. PICK r \in Resource : cache[<<c, r>>] = a
      BY <2>1
    <3>2. <<c, r>> \in Key /\ <<c, r>>[1] = c
      BY DEF Key
    <3>3. QED
      BY <3>1, <3>2
  <2>2. ASSUME NEW k \in Key, k[1] = c, cache[k] = a
        PROVE  a \in gone
    <3>1. PICK r \in Resource : k = <<c, r>>
      BY <2>2 DEF Key
    <3>2. QED
      BY <2>2, <3>1
  <2>3. QED
    BY <2>1, <2>2
<1> HIDE DEF gone
<1>3. ASSUME NEW a \in Buffer
      PROVE  Owned(a)'
  BY <1>1, <1>2 DEF Ownership, Owned
<1>4. QED
  BY <1>3 DEF Ownership

(* Every step keeps one holder for each buffer.                            *)
LEMMA OwnershipStep ==
    ASSUME TypeOK, Ownership, [Next]_vars
    PROVE  Ownership'
<1>1. ASSUME NEW c \in Client, NEW request \in Arriving(c), NEW b \in Buffer,
             FirstBlock(c, request, b) \/ LaterBlock(c, request, b)
      PROVE  Ownership'
  BY <1>1, FirstBlockOwners, LaterBlockOwners, ArrivingType
<1>2. ASSUME NEW c \in Client, NEW request \in Arriving(c),
             EmptyRequest(c, request)
      PROVE  Ownership'
  BY <1>2, EmptyRequestOwners, ArrivingType
<1>3. ASSUME NEW c \in Client, SessionEnds(c)
      PROVE  Ownership'
  BY <1>3, SessionEndsOwners
<1>4. ASSUME NEW b \in Buffer, ReadBody(b)
      PROVE  Ownership'
  BY <1>4, ReadBodyOwners
<1>5. ASSUME NEW h \in handed, Release(h)
      PROVE  Ownership'
  BY <1>5, ReleaseOwners
<1>6. CASE UNCHANGED memory
  BY <1>6, SameOwners DEF memory
<1>7. QED
  BY <1>1, <1>2, <1>3, <1>4, <1>5, <1>6
  DEF Next, vars, Send, GiveUp, Keep, Drop, BlockWithoutEntry, Answered,
      AnswerLost

(* Each buffer is free or has one holder throughout.                       *)
LEMMA OwnershipAlways == Spec => []Ownership
<1>1. ASSUME Init
      PROVE  Ownership
  BY <1>1, ConstantsAssumption DEF Init, Ownership, Owned
<1>2. QED
  BY <1>1, OwnershipStep, TypeCorrect, PTL DEF Spec

(* No buffer has two owners, is freed twice or is used after it was freed, *)
(* whatever is lost, repeated or late; those without an owner are the ones *)
(* of sessions that ended.                                                 *)
THEOREM OneOwner == Spec => []BuffersOwnedOnce
<1>1. Ownership => BuffersOwnedOnce
  BY OwnersCounted
<1>2. QED
  BY <1>1, OwnershipAlways, PTL

------------------------------------------------------------------------------
(* Bodies.                                                                 *)

(* The entry of a key has the first n blocks of a body, in a buffer of its *)
(* length.                                                                 *)
Stored(k, d, n) ==
    /\ cache[k] \in Buffer
    /\ heap[cache[k]] \in [1..Length[d] -> Body \cup {Unset}]
    /\ \A i \in 1..n : heap[cache[k]][i] = d

InLength(request) ==
    request.block = 1 \/ request.block <= Length[request.body]

InBody ==
    /\ \A c \in Client : sending[c] # Idle => InLength(sending[c])
    /\ \A p \in late : InLength(p[2])
    /\ reader # Idle => InLength(reader.request)

(* The entry has the blocks before the one a client sends, if its session  *)
(* has not ended, the application has not taken them and no block came out *)
(* of turn.                                                                *)
Kept(c) ==
    LET k == KeyOf(c, sending[c])
    IN  sending[c] # Idle /\ sending[c].block # 1 /\ k \notin disturbed =>
            \/ cache[k] = NoEntry
            \/ cache[k] = NoBuffer /\ IsLast(sending[c])
            \/ Stored(k, sending[c].body, sending[c].block - 1)

KeptForSenders == \A c \in Client : Kept(c)

(* In the handler it has that block too, until the application takes the   *)
(* body, which it does at the last block only.                             *)
KeptInHandler ==
    reader # Idle =>
        LET request == reader.request
            k == KeyOf(reader.client, request)
        IN  IsBlockTransfer(request) /\ k \notin disturbed =>
                IF reader.m_bobyData = NoBuffer
                THEN Stored(k, request.body, request.block)
                ELSE IsLast(request) /\ cache[k] = NoBuffer

(* The block in the handler is none that its client has not come to.       *)
HandlerInTurn ==
    reader # Idle =>
        LET request == reader.request
            sent == sending[reader.client]
        IN  /\ sent # Idle
            /\ sent.block # 1
            /\ sent.resource = request.resource
            /\ KeyOf(reader.client, request) \notin disturbed
            => /\ sent.body = request.body
               /\ request.block <= sent.block

Progress ==
    /\ InBody
    /\ KeptForSenders
    /\ KeptInHandler
    /\ HandlerInTurn
    /\ BodyIsWhole

(* What a request says of its body has its type.                           *)
LEMMA BodyLength ==
    ASSUME NEW request \in Request
    PROVE  /\ request.body \in Body
           /\ request.resource \in Resource
           /\ request.block \in Nat \ {0}
           /\ Length[request.body] \in Nat
BY LengthType DEF Request

(* What arrives is a block of its body.                                    *)
LEMMA ArrivingInLength ==
    ASSUME InBody, NEW c \in Client, NEW request \in Arriving(c)
    PROVE  InLength(request)
<1>1. CASE request = sending[c] /\ request # Idle
  BY <1>1 DEF InBody
<1>2. CASE request \in {p[2] : p \in {q \in late : q[1] = c}}
  BY <1>2 DEF InBody
<1>3. QED
  BY <1>1, <1>2 DEF Arriving

(* Two owners have different buffers, and these are allocated.             *)
LEMMA Apart ==
    ASSUME TypeOK, Ownership
    PROVE  /\ \A j \in Key : cache[j] \in Buffer => heap[cache[j]] # Free
           /\ \A j, k \in Key :
                 j # k /\ cache[j] \in Buffer => cache[j] # cache[k]
           /\ \A h \in handed :
                 /\ h.buffer \in Buffer
                 /\ heap[h.buffer] # Free
                 /\ \A k \in Key : cache[k] # h.buffer
           /\ \A g, h \in handed : g # h => g.buffer # h.buffer
BY DEF Ownership, Owned, TypeOK, Handed

(* What is kept for a client stays while its request and its entry do.     *)
LEMMA KeptOn ==
    ASSUME TypeOK, NEW c \in Client, Kept(c), sending'[c] = sending[c],
           NEW k \in Key, sending[c] # Idle => k = KeyOf(c, sending[c]),
           k \notin disturbed' => k \notin disturbed,
           cache'[k] = cache[k],
           cache[k] \in Buffer => heap'[cache[k]] = heap[cache[k]]
    PROVE  Kept(c)'
<1>1. SUFFICES ASSUME sending[c] # Idle, sending[c].block # 1,
                      k \notin disturbed'
               PROVE  \/ cache'[k] = NoEntry
                      \/ cache'[k] = NoBuffer /\ IsLast(sending[c])
                      \/ Stored(k, sending[c].body, sending[c].block - 1)'
  BY DEF Kept, KeyOf, IsLast, Stored
<1>2. \/ cache[k] = NoEntry
      \/ cache[k] = NoBuffer /\ IsLast(sending[c])
      \/ Stored(k, sending[c].body, sending[c].block - 1)
  BY <1>1 DEF Kept
<1>3. QED
  BY <1>1, <1>2 DEF Stored

(* A step in which the request of no client but c changes, and nothing in  *)
(* the entries but that of c's key k, leaves what is kept, if it is kept   *)
(* for c and k.                                                            *)
LEMMA OthersKept ==
    ASSUME TypeOK, KeptForSenders, UNCHANGED sending,
           NEW c \in Client, NEW k \in Key, k[1] = c,
           disturbed \ {k} \subseteq disturbed',
           \A j \in Key \ {k} :
               /\ cache'[j] = cache[j]
               /\ cache[j] \in Buffer => heap'[cache[j]] = heap[cache[j]],
           sending[c] # Idle /\ KeyOf(c, sending[c]) = k => Kept(c)'
    PROVE  KeptForSenders'
<1>1. ASSUME NEW d \in Client
      PROVE  Kept(d)'
  <2>1. CASE sending[d] = Idle
    BY <2>1 DEF Kept
  <2>2. CASE sending[d] # Idle /\ KeyOf(d, sending[d]) = k
    BY <2>2 DEF KeyOf
  <2>3. CASE sending[d] # Idle /\ KeyOf(d, sending[d]) # k
    <3>1. PICK j \in Key \ {k} : j = KeyOf(d, sending[d])
      BY <2>3, KeyType DEF TypeOK
    <3>2. QED
      BY <3>1, KeptOn DEF KeptForSenders
  <2>4. QED
    BY <2>1, <2>2, <2>3
<1>2. QED
  BY <1>1 DEF KeptForSenders

(* A first or an empty request begins anew.  If it is not what its client  *)
(* sends, nothing is known of its entry until the next first block.        *)
LEMMA BeginsProgress ==
    ASSUME TypeOK, Ownership, Progress, NEW c \in Client,
           NEW request \in Arriving(c),
           \/ \E b \in Buffer : FirstBlock(c, request, b)
           \/ EmptyRequest(c, request)
    PROVE  Progress'
<1> USE ConstantsAssumption
<1> DEFINE k == KeyOf(c, request)
           new == cache'[k]
           Anew == /\ \A j \in Key \ {k} : cache'[j] = cache[j]
                   /\ \A a \in Buffer :
                          a # cache[k] /\ a # new => heap'[a] = heap[a]
                   /\ new \in Buffer => heap[new] = Free \/ cache[k] = new
                   /\ Length[request.body] # 0 =>
                          /\ new \in Buffer
                          /\ heap'[new] = Build(Free, request)
<1>1. /\ request \in Request
      /\ k \in Key /\ k[1] = c
      /\ request.block = 1
  <2>1. request \in Request
    BY ArrivingType
  <2>2. k \in Key /\ k[1] = c
    BY <2>1, KeyType DEF KeyOf
  <2>3. QED
    BY <2>1, <2>2 DEF FirstBlock, EmptyRequest
<1>2. /\ reader' # Idle
      /\ reader'.client = c
      /\ reader'.request = request
      /\ reader'.m_bobyData = NoBuffer
      /\ UNCHANGED <<sending, late, handed, lost>>
  BY <1>1, NewReaderType DEF FirstBlock, EmptyRequest
<1>3. IF request = sending[c] THEN disturbed' = disturbed \ {k}
      ELSE disturbed' = disturbed \cup {k}
  BY DEF FirstBlock, EmptyRequest, Begins
<1>4. Anew
  <2>1. DeleteBody(k) \in [Buffer -> Blocks \cup {Free}]
        /\ \A a \in Buffer :
               DeleteBody(k)[a] = IF a = cache[k] THEN Free ELSE heap[a]
    BY <1>1, DeleteBodyType DEF DeleteBody, TypeOK
  <2>2. ASSUME NEW b \in Buffer, FirstBlock(c, request, b)
        PROVE  Anew
    <3>1. /\ DeleteBody(k)[b] = Free
          /\ heap' = [DeleteBody(k) EXCEPT ![b] = Build(Free, request)]
          /\ cache' = [cache EXCEPT ![k] = b]
      BY <2>2 DEF FirstBlock
    <3> HIDE DEF k
    <3>2. new = b /\ \A j \in Key \ {k} : cache'[j] = cache[j]
      BY <1>1, <3>1 DEF TypeOK
    <3>3. /\ heap'[b] = Build(Free, request)
          /\ \A a \in Buffer \ {b} : heap'[a] = DeleteBody(k)[a]
      BY <2>1, <3>1
    <3> HIDE DEF new
    <3>4. QED
      BY <2>1, <3>1, <3>2, <3>3
  <2>3. CASE EmptyRequest(c, request)
    <3>1. /\ Length[request.body] = 0
          /\ heap' = DeleteBody(k)
          /\ cache' = [cache EXCEPT ![k] = NoBuffer]
      BY <2>3 DEF EmptyRequest
    <3> HIDE DEF k
    <3>2. new = NoBuffer /\ \A j \in Key \ {k} : cache'[j] = cache[j]
      BY <1>1, <3>1 DEF TypeOK
    <3> HIDE DEF new
    <3>3. QED
      BY <2>1, <3>1, <3>2
  <2>4. QED
    BY <2>2, <2>3
<1> HIDE DEF k, new
<1>5. \A j \in Key \ {k} :
          cache[j] \in Buffer => heap'[cache[j]] = heap[cache[j]]
  BY <1>1, <1>4, Apart
<1>6. InBody'
  <2>1. InLength(request)
    BY <1>1 DEF InLength
  <2>2. QED
    BY <1>2, <2>1 DEF Progress, InBody, InLength
<1>7. KeptForSenders'
  <2>1. sending[c] # Idle /\ KeyOf(c, sending[c]) = k => Kept(c)'
    <3>1. CASE request = sending[c]
      BY <1>1, <1>2, <3>1 DEF Kept
    <3>2. CASE request # sending[c]
      BY <1>2, <1>3, <3>2 DEF Kept, KeyOf
    <3>3. QED
      BY <3>1, <3>2
  <2>2. QED
    BY <1>1, <1>2, <1>3, <1>4, <1>5, <2>1, OthersKept DEF Progress
<1>8. KeyOf(reader.client, reader.request)' = k
  BY <1>2 DEF KeyOf, k
<1>9. KeptInHandler'
  <2>1. SUFFICES ASSUME IsBlockTransfer(request), k \notin disturbed'
                 PROVE  Stored(k, request.body, request.block)'
    BY <1>2, <1>8 DEF KeptInHandler, IsBlockTransfer, Stored, KeyOf, k
  <2>2. Length[request.body] # 0 /\ 1 \in 1..Length[request.body]
    BY <1>1, <2>1, BodyLength DEF IsBlockTransfer
  <2>3. /\ Build(Free, request) \in
               [1..Length[request.body] -> Body \cup {Unset}]
        /\ Build(Free, request)[1] = request.body
    BY <1>1, <2>2, BuildAnew
  <2>4. /\ cache'[k] \in Buffer
        /\ heap'[cache'[k]] = Build(Free, request)
    BY <1>4, <2>2 DEF new
  <2>5. QED
    BY <1>1, <2>3, <2>4 DEF Stored
<1>10. HandlerInTurn'
  <2>1. CASE request = sending[c]
    BY <1>1, <1>2, <2>1 DEF HandlerInTurn
  <2>2. CASE request # sending[c]
    <3>1. k \in disturbed'
      BY <1>3, <2>2
    <3>2. QED
      BY <1>2, <1>8, <3>1 DEF HandlerInTurn, KeyOf
  <2>3. QED
    BY <2>1, <2>2
<1>11. BodyIsWhole'
  BY <1>1, <1>2, <1>4, Apart DEF Progress, BodyIsWhole
<1>12. QED
  BY <1>6, <1>7, <1>9, <1>10, <1>11 DEF Progress

(* A later block in its turn comes after those that were answered.         *)
LEMMA LaterBlockProgress ==
    ASSUME TypeOK, Ownership, Progress, NEW c \in Client,
           NEW request \in Arriving(c), NEW b \in Buffer,
           LaterBlock(c, request, b)
    PROVE  Progress'
<1> USE ConstantsAssumption
<1> DEFINE k == KeyOf(c, request)
           built == Build(heap[b], request)
<1>1. /\ request \in Request
      /\ k \in Key /\ k[1] = c
  <2>1. request \in Request
    BY ArrivingType
  <2>2. QED
    BY <2>1, KeyType DEF KeyOf
<1>2. /\ b = cache[k] \/ (cache[k] = NoBuffer /\ heap[b] = Free)
      /\ cache[k] # NoEntry
      /\ heap' = [heap EXCEPT ![b] = built]
      /\ cache' = [cache EXCEPT ![k] = b]
      /\ disturbed' = IF InTurn(c, request) THEN disturbed
                      ELSE disturbed \cup {k}
      /\ request.block # 1
      /\ UNCHANGED <<sending, late, handed, lost>>
  BY DEF LaterBlock
<1>3. /\ reader' # Idle
      /\ reader'.client = c
      /\ reader'.request = request
      /\ reader'.m_bobyData = NoBuffer
  BY <1>1, NewReaderType DEF LaterBlock
<1>4. ASSUME k \notin disturbed'
      PROVE  /\ sending[c] # Idle
             /\ sending[c].resource = request.resource
             /\ sending[c].body = request.body
             /\ request.block <= sending[c].block
             /\ request.block \in Nat \ {0, 1}
             /\ sending[c].block \in Nat \ {0, 1}
             /\ b = cache[k]
             /\ Stored(k, request.body, sending[c].block - 1)
  <2>1. InTurn(c, request) /\ k \notin disturbed
    BY <1>2, <1>4
  <2>2. /\ sending[c] # Idle
        /\ sending[c].resource = request.resource
        /\ sending[c].body = request.body
        /\ request.block <= sending[c].block
        /\ cache[k] # NoBuffer
    BY <2>1 DEF InTurn
  <2>3. sending[c] \in Request
    BY <2>2 DEF TypeOK
  <2>4. /\ request.block \in Nat \ {0, 1}
        /\ sending[c].block \in Nat \ {0, 1}
    BY <1>1, <1>2, <2>2, <2>3, BodyLength
  <2>5. KeyOf(c, sending[c]) = k
    BY <2>2 DEF KeyOf
  <2>6. Stored(k, sending[c].body, sending[c].block - 1)
    BY <1>2, <2>1, <2>2, <2>4, <2>5 DEF Progress, KeptForSenders, Kept
  <2>7. QED
    BY <1>2, <2>2, <2>4, <2>6
<1>5. ASSUME k \notin disturbed'
      PROVE  /\ built \in [1..Length[request.body] -> Body \cup {Unset}]
             /\ \A i \in 1..(sending[c].block - 1) : built[i] = request.body
             /\ \A i \in 1..request.block : built[i] = request.body
  <2> DEFINE l == Length[request.body]
  <2>1. /\ heap[b] \in [1..l -> Body \cup {Unset}]
        /\ \A i \in 1..(sending[c].block - 1) : heap[b][i] = request.body
        /\ request.block <= sending[c].block
        /\ request.block \in Nat \ {0, 1}
        /\ sending[c].block \in Nat \ {0, 1}
    BY <1>4, <1>5 DEF Stored
  <2>2. l \in Nat /\ request.body \in Body
    BY <1>1, BodyLength
  <2>3. request.block <= l /\ sending[c].block <= l
    <3>1. InLength(request) /\ InLength(sending[c])
      BY <1>4, <1>5, ArrivingInLength DEF Progress, InBody
    <3>2. QED
      BY <1>4, <1>5, <3>1 DEF InLength
  <2>4. heap[b] \in Blocks /\ DOMAIN heap[b] = 1..l
    BY <2>1, <2>2 DEF Blocks
  <2>5. \A i \in 1..l :
            built[i] = IF i = request.block THEN request.body ELSE heap[b][i]
    BY <1>1, <2>4, BuildOn
  <2>6. built = [i \in 1..l |-> built[i]]
    BY <2>4 DEF Build
  <2> HIDE DEF built, l
  <2>7. built \in [1..l -> Body \cup {Unset}]
    BY <2>1, <2>2, <2>5, <2>6
  <2>8. \A i \in 1..(sending[c].block - 1) : i \in 1..l
    BY <2>1, <2>2, <2>3
  <2>9. \A i \in 1..(sending[c].block - 1) : built[i] = request.body
    BY <2>1, <2>5, <2>8
  <2>10. \A i \in 1..request.block :
             \/ i \in 1..(sending[c].block - 1)
             \/ i = request.block /\ i \in 1..l
    BY <2>1, <2>2, <2>3
  <2>11. \A i \in 1..request.block : built[i] = request.body
    BY <2>5, <2>9, <2>10
  <2>12. QED
    BY <2>7, <2>9, <2>11 DEF l
<1> HIDE DEF k, built
<1>6. /\ heap'[b] = built
      /\ \A a \in Buffer \ {b} : heap'[a] = heap[a]
      /\ cache'[k] = b
      /\ \A j \in Key \ {k} : cache'[j] = cache[j]
  BY <1>1, <1>2 DEF TypeOK
<1>7. \A j \in Key \ {k} :
          cache[j] \in Buffer => heap'[cache[j]] = heap[cache[j]]
  BY <1>1, <1>2, <1>6, Apart
<1>8. InBody'
  <2>1. InLength(request)
    BY ArrivingInLength DEF Progress
  <2>2. QED
    BY <1>2, <1>3, <2>1 DEF Progress, InBody, InLength
<1>9. KeptForSenders'
  <2>1. ASSUME sending[c] # Idle, KeyOf(c, sending[c]) = k
        PROVE  Kept(c)'
    <3>1. SUFFICES ASSUME k \notin disturbed'
                   PROVE  Stored(k, sending[c].body, sending[c].block - 1)'
      BY <1>2, <2>1 DEF Kept, Stored, KeyOf
    <3>2. QED
      BY <1>2, <1>4, <1>5, <1>6, <3>1 DEF Stored
  <2>2. disturbed \ {k} \subseteq disturbed'
    BY <1>2
  <2>3. QED
    BY <1>1, <1>2, <1>6, <1>7, <2>1, <2>2, OthersKept DEF Progress
<1>10. KeyOf(reader.client, reader.request)' = k
  BY <1>3 DEF KeyOf, k
<1>11. KeptInHandler'
  <2>1. SUFFICES ASSUME k \notin disturbed'
                 PROVE  Stored(k, request.body, request.block)'
    BY <1>3, <1>10 DEF KeptInHandler, IsBlockTransfer, Stored, KeyOf, k
  <2>2. QED
    BY <1>5, <1>6, <2>1 DEF Stored
<1>12. HandlerInTurn'
  BY <1>2, <1>3, <1>4, <1>10 DEF HandlerInTurn, KeyOf
<1>13. BodyIsWhole'
  BY <1>1, <1>2, <1>6, Apart DEF Progress, BodyIsWhole
<1>14. QED
  BY <1>8, <1>9, <1>11, <1>12, <1>13 DEF Progress

(* read() takes the body when all its blocks are there.                    *)
LEMMA ReadBodyProgress ==
    ASSUME TypeOK, Ownership, Progress, NEW b \in Buffer, ReadBody(b)
    PROVE  Progress'
<1> USE ConstantsAssumption
<1>0. PICK c \in Client, request \in Request :
          c = reader.client /\ request = reader.request
  BY DEF ReadBody, TypeOK, Reader
<1> DEFINE k == KeyOf(c, request)
           new == [buffer |-> b, body |-> request.body,
                   inTurn |-> IsBlockTransfer(request) => k \notin disturbed]
<1>1. /\ k \in Key /\ k[1] = c
      /\ request.block \in Nat \ {0}
      /\ Length[request.body] \in Nat
      /\ InLength(request)
      /\ reader \in Reader
  <2>1. k \in Key /\ k[1] = c
    BY KeyType DEF KeyOf
  <2>2. InLength(request) /\ reader \in Reader
    BY <1>0 DEF ReadBody, TypeOK, Progress, InBody
  <2>3. QED
    BY <2>1, <2>2, BodyLength
<1>2. /\ reader' = [reader EXCEPT !.m_bobyData = b]
      /\ reader # Idle /\ reader.m_bobyData = NoBuffer
      /\ handed' = handed \cup {new}
      /\ UNCHANGED <<sending, late, lost, disturbed>>
  BY <1>0 DEF ReadBody
<1>3. /\ reader' # Idle /\ reader'.client = c /\ reader'.request = request
      /\ reader'.m_bobyData = b /\ b # NoBuffer
  BY <1>0, <1>1, <1>2 DEF Reader
<1>4. new.buffer = b /\ new.body = request.body
      /\ new.inTurn = (IsBlockTransfer(request) => k \notin disturbed)
  OBVIOUS
<1>5. InBody'
  BY <1>0, <1>2, <1>3 DEF Progress, InBody, InLength
<1>6. HandlerInTurn'
  BY <1>0, <1>2, <1>3 DEF Progress, HandlerInTurn, KeyOf
<1>7. KeyOf(reader.client, reader.request)' = k
  BY <1>3 DEF KeyOf
<1>8. CASE IsBlockTransfer(request)
  <2>1. /\ IsLast(request)
        /\ b = cache[k]
        /\ cache' = [cache EXCEPT ![k] = NoBuffer]
        /\ UNCHANGED heap
    BY <1>0, <1>8 DEF ReadBody, Take, IsBlockTransferComplete, IsLast
  <2>2. /\ request.block = Length[request.body]
        /\ request.block # 1
    BY <1>1, <1>8, <2>1 DEF IsLast, InLength, IsBlockTransfer
  <2>3. k \notin disturbed => Stored(k, request.body, request.block)
    BY <1>0, <1>2, <1>8 DEF Progress, KeptInHandler
  <2>4. k \notin disturbed => heap[b] = Whole(request.body)
    BY <2>1, <2>2, <2>3 DEF Stored, Whole
  <2>5. ASSUME sending[c] # Idle, sending[c].block # 1,
               KeyOf(c, sending[c]) = k, k \notin disturbed
        PROVE  IsLast(sending[c])
    <3>1. sending[c].resource = request.resource
      BY <2>5 DEF KeyOf
    <3>2. /\ sending[c].body = request.body
          /\ request.block <= sending[c].block
      BY <1>0, <1>2, <2>5, <3>1 DEF Progress, HandlerInTurn
    <3>3. sending[c].block \in Nat
      BY <2>5, BodyLength DEF TypeOK
    <3>4. QED
      BY <1>1, <2>2, <3>2, <3>3 DEF IsLast
  <2> HIDE DEF k, new
  <2>6. /\ cache'[k] = NoBuffer
        /\ \A j \in Key \ {k} : cache'[j] = cache[j]
    BY <1>1, <2>1 DEF TypeOK
  <2>7. KeptForSenders'
    <3>1. sending[c] # Idle /\ KeyOf(c, sending[c]) = k => Kept(c)'
      BY <1>2, <2>5, <2>6 DEF Kept, KeyOf, IsLast
    <3>2. QED
      BY <1>1, <1>2, <2>1, <2>6, <3>1, OthersKept DEF Progress
  <2>8. KeptInHandler'
    BY <1>3, <1>7, <2>1, <2>6 DEF KeptInHandler, IsLast, KeyOf
  <2>9. BodyIsWhole'
    BY <1>2, <1>4, <1>8, <2>1, <2>4 DEF Progress, BodyIsWhole
  <2>10. QED
    BY <1>5, <1>6, <2>7, <2>8, <2>9 DEF Progress
<1>9. CASE ~IsBlockTransfer(request)
  <2>1. /\ heap[b] = Free
        /\ heap' = [heap EXCEPT ![b] = Build(Free, request)]
        /\ UNCHANGED cache
    BY <1>0, <1>9 DEF ReadBody, CopyRequest
  <2>2. request.block = 1 /\ Length[request.body] \in {0, 1}
    BY <1>1, <1>9 DEF IsBlockTransfer, InLength
  <2>3. Build(Free, request) = Whole(request.body)
    BY <2>2 DEF Build, Whole
  <2> HIDE DEF k, new
  <2>4. /\ heap'[b] = Whole(request.body)
        /\ \A a \in Buffer \ {b} : heap'[a] = heap[a]
    BY <2>1, <2>3 DEF TypeOK
  <2>5. \A j \in Key :
            cache[j] \in Buffer => heap'[cache[j]] = heap[cache[j]]
    BY <2>1, <2>4, Apart
  <2>6. KeptForSenders'
    <3>1. ASSUME NEW d \in Client
          PROVE  Kept(d)'
      <4>1. PICK j \in Key : sending[d] # Idle => j = KeyOf(d, sending[d])
        BY <1>1, KeyType DEF TypeOK
      <4>2. QED
        BY <1>2, <2>1, <2>5, <4>1, KeptOn DEF Progress, KeptForSenders
    <3>2. QED
      BY <3>1 DEF KeptForSenders
  <2>7. KeptInHandler'
    BY <1>3, <1>9 DEF KeptInHandler, IsBlockTransfer
  <2>8. BodyIsWhole'
    <3>1. \A h \in handed : heap'[h.buffer] = heap[h.buffer]
      BY <2>1, <2>4, Apart
    <3>2. QED
      BY <1>2, <1>4, <2>4, <3>1 DEF Progress, BodyIsWhole
  <2>9. QED
    BY <1>5, <1>6, <2>6, <2>7, <2>8 DEF Progress
<1>10. QED
  BY <1>8, <1>9

(* The answer reaches the client or not: it sends the next block, nothing  *)
(* or the same block again, for which the entry is ready.                  *)
LEMMA AnsweredProgress ==
    ASSUME TypeOK, Progress, Answered \/ AnswerLost
    PROVE  Progress'
<1>0. PICK c \in Client, request \in Request :
          c = reader.client /\ request = reader.request
  BY DEF Answered, AnswerLost, TypeOK, Reader
<1>1. /\ reader # Idle /\ reader' = Idle
      /\ UNCHANGED <<late, memory>>
      /\ request.block \in Nat \ {0}
      /\ Length[request.body] \in Nat
  BY BodyLength DEF Answered, AnswerLost
<1>2. /\ \A d \in Client \ {c} : sending'[d] = sending[d]
      /\ \/ sending'[c] = sending[c]
         \/ sending'[c] = Idle
         \/ /\ sending[c] = request
            /\ ~IsLast(request)
            /\ sending'[c] = NextBlock(request)
  BY <1>0 DEF Answered, AnswerLost, TypeOK
<1>3. /\ NextBlock(request).body = request.body
      /\ NextBlock(request).resource = request.resource
      /\ NextBlock(request).block = request.block + 1
  BY DEF NextBlock, Request
<1>4. ~IsLast(request) => /\ IsBlockTransfer(request)
                          /\ request.block + 1 <= Length[request.body]
  BY <1>1 DEF IsLast, IsBlockTransfer
<1>5. InBody'
  BY <1>1, <1>2, <1>3, <1>4 DEF Progress, InBody, InLength
<1>6. ASSUME NEW d \in Client, sending'[d] = sending[d]
      PROVE  Kept(d)'
  BY <1>1, <1>6 DEF Progress, KeptForSenders, Kept, Stored, KeyOf, memory,
                    IsLast
<1>7. ASSUME sending[c] = request, ~IsLast(request),
             sending'[c] = NextBlock(request)
      PROVE  Kept(c)'
  <2> DEFINE k == KeyOf(c, request)
  <2>1. KeyOf(c, sending[c])' = k
    BY <1>3, <1>7 DEF KeyOf
  <2>2. SUFFICES ASSUME k \notin disturbed
                 PROVE  Stored(k, request.body, request.block)'
    <3>1. sending'[c].body = request.body
          /\ sending'[c].block - 1 = request.block
      BY <1>1, <1>3, <1>7
    <3>2. QED
      BY <1>1, <2>1, <3>1 DEF Kept, Stored, KeyOf, memory
  <2>3. Stored(k, request.body, request.block)
    BY <1>0, <1>1, <1>4, <1>7, <2>2 DEF Progress, KeptInHandler
  <2>4. QED
    BY <1>1, <2>3 DEF Stored, memory, KeyOf
<1>8. sending'[c] = Idle => Kept(c)'
  BY DEF Kept
<1>9. KeptForSenders'
  BY <1>2, <1>6, <1>7, <1>8 DEF KeptForSenders
<1>10. KeptInHandler' /\ HandlerInTurn'
  BY <1>1 DEF KeptInHandler, HandlerInTurn
<1>11. BodyIsWhole'
  BY <1>1 DEF memory, Progress, BodyIsWhole
<1>12. QED
  BY <1>5, <1>9, <1>10, <1>11 DEF Progress

(* What the application frees is in no entry.                              *)
LEMMA ReleaseProgress ==
    ASSUME TypeOK, Ownership, Progress, NEW h \in handed, Release(h)
    PROVE  Progress'
<1> DEFINE b == h.buffer
<1>1. /\ b \in Buffer
      /\ handed' = handed \ {h}
      /\ \A a \in Buffer \ {b} : heap'[a] = heap[a]
      /\ UNCHANGED <<sending, late, reader, cache, lost, disturbed>>
  BY DEF Release, TypeOK, Handed
<1>2. \A k \in Key : cache[k] \in Buffer => heap'[cache[k]] = heap[cache[k]]
  BY <1>1, Apart
<1>3. KeptForSenders'
  <2>1. ASSUME NEW d \in Client
        PROVE  Kept(d)'
    <3>1. CASE sending[d] = Idle
      BY <1>1, <3>1 DEF Kept
    <3>2. CASE sending[d] # Idle
      <4>1. PICK j \in Key : j = KeyOf(d, sending[d])
        BY <3>2, KeyType DEF TypeOK
      <4>2. QED
        BY <1>1, <1>2, <4>1, KeptOn DEF Progress, KeptForSenders
    <3>3. QED
      BY <3>1, <3>2
  <2>2. QED
    BY <2>1 DEF KeptForSenders
<1>4. KeptInHandler'
  <2>1. reader # Idle => KeyOf(reader.client, reader.request) \in Key
    BY KeyType DEF TypeOK, Reader
  <2>2. QED
    BY <1>1, <1>2, <2>1 DEF Progress, KeptInHandler, KeyOf, Stored, IsLast
<1>5. BodyIsWhole'
  BY <1>1, Apart DEF Progress, BodyIsWhole
<1>6. InBody' /\ HandlerInTurn'
  BY <1>1 DEF Progress, InBody, HandlerInTurn, KeyOf
<1>7. QED
  BY <1>3, <1>4, <1>5, <1>6 DEF Progress

(* A session that ends leaves no entry to be wrong.                        *)
LEMMA SessionEndsProgress ==
    ASSUME TypeOK, Progress, NEW c \in Client, SessionEnds(c)
    PROVE  Progress'
<1>1. /\ reader = Idle
      /\ \A k \in Key :
             cache'[k] = IF k[1] = c THEN NoEntry ELSE cache[k]
      /\ UNCHANGED <<sending, late, reader, heap, handed, disturbed>>
  BY DEF SessionEnds
<1>2. KeptForSenders'
  <2>1. ASSUME NEW d \in Client, sending[d] # Idle
        PROVE  Kept(d)'
    <3>1. PICK k \in Key : k = KeyOf(d, sending[d])
      BY <2>1, KeyType DEF TypeOK
    <3>2. CASE k[1] = c
      <4>1. cache'[KeyOf(d, sending[d])'] = NoEntry
        BY <1>1, <3>1, <3>2 DEF KeyOf
      <4>2. QED
        BY <1>1, <4>1 DEF Kept, KeyOf
    <3>3. CASE k[1] # c
      BY <1>1, <3>1, <3>3, KeptOn DEF Progress, KeptForSenders
    <3>4. QED
      BY <3>2, <3>3
  <2>2. QED
    BY <1>1, <2>1 DEF KeptForSenders, Kept
<1>3. QED
  BY <1>1, <1>2
  DEF Progress, InBody, KeptInHandler, HandlerInTurn, BodyIsWhole

(* Every step keeps the clients and the entries in step.                   *)
LEMMA ProgressStep ==
    ASSUME TypeOK, Ownership, Progress, [Next]_vars
    PROVE  Progress'
<1> USE ConstantsAssumption
<1>1. ASSUME NEW c \in Client, UNCHANGED <<reader, memory>>,
             \A d \in Client \ {c} : sending'[d] = sending[d],
             \/ sending'[c] = sending[c]
             \/ sending'[c] = Idle
             \/ sending'[c].block = 1,
             \A p \in late' : InLength(p[2])
      PROVE  Progress'
  <2>1. InBody'
    BY <1>1 DEF Progress, InBody, InLength
  <2>2. ASSUME NEW d \in Client, sending'[d] = sending[d]
        PROVE  Kept(d)'
    BY <1>1, <2>2 DEF Progress, KeptForSenders, Kept, Stored, KeyOf,
                      memory, IsLast
  <2>3. KeptForSenders'
    <3>1. sending'[c] # sending[c] => Kept(c)'
      BY <1>1 DEF Kept
    <3>2. QED
      BY <1>1, <2>2, <3>1 DEF KeptForSenders
  <2>4. KeptInHandler' /\ BodyIsWhole'
    BY <1>1 DEF Progress, KeptInHandler, Stored, KeyOf, IsLast, BodyIsWhole,
                memory
  <2>5. HandlerInTurn'
    <3>1. reader # Idle => reader.client \in Client
      BY DEF TypeOK, Reader
    <3>2. QED
      BY <1>1, <3>1 DEF Progress, HandlerInTurn, KeyOf, memory
  <2>6. QED
    BY <2>1, <2>3, <2>4, <2>5 DEF Progress
<1>2. \A p \in late : InLength(p[2])
  BY DEF Progress, InBody
<1>3. ASSUME NEW c \in Client, NEW r \in Resource, NEW d \in Body,
             Send(c, r, d)
      PROVE  Progress'
  BY <1>1, <1>2, <1>3 DEF Send, TypeOK
<1>4. ASSUME NEW c \in Client, GiveUp(c)
      PROVE  Progress'
  BY <1>1, <1>2, <1>4 DEF GiveUp, TypeOK
<1>5. ASSUME NEW c \in Client, Keep(c)
      PROVE  Progress'
  <2>1. InLength(sending[c])
    BY <1>5 DEF Keep, Progress, InBody
  <2>2. \A p \in late' : InLength(p[2])
    BY <1>2, <1>5, <2>1 DEF Keep
  <2>3. QED
    BY <1>1, <1>5, <2>2 DEF Keep
<1>6. ASSUME NEW p \in late, Drop(p)
      PROVE  Progress'
  BY <1>1, <1>2, <1>6 DEF Drop, TypeOK
<1>7. ASSUME NEW c \in Client, NEW request \in Arriving(c), NEW b \in Buffer,
             FirstBlock(c, request, b) \/ LaterBlock(c, request, b)
      PROVE  Progress'
  BY <1>7, BeginsProgress, LaterBlockProgress
<1>8. ASSUME NEW c \in Client, NEW request \in Arriving(c),
             EmptyRequest(c, request)
      PROVE  Progress'
  BY <1>8, BeginsProgress
<1>9. ASSUME NEW c \in Client, NEW request \in Arriving(c),
             BlockWithoutEntry(c, request)
      PROVE  Progress'
  BY <1>1, <1>2, <1>9 DEF BlockWithoutEntry, TypeOK
<1>10. ASSUME NEW c \in Client, SessionEnds(c)
       PROVE  Progress'
  BY <1>10, SessionEndsProgress
<1>11. ASSUME NEW b \in Buffer, ReadBody(b)
       PROVE  Progress'
  BY <1>11, ReadBodyProgress
<1>12. ASSUME NEW h \in handed, Release(h)
       PROVE  Progress'
  BY <1>12, ReleaseProgress
<1>13. CASE Answered \/ AnswerLost
  BY <1>13, AnsweredProgress
<1>14. CASE UNCHANGED vars
  BY <1>14
  DEF vars, memory, Progress, InBody, KeptForSenders, Kept, Stored,
      KeptInHandler, HandlerInTurn, BodyIsWhole, KeyOf, IsLast
<1>15. QED
  BY <1>3, <1>4, <1>5, <1>6, <1>7, <1>8, <1>9, <1>10, <1>11, <1>12, <1>13,
     <1>14
  DEF Next

(* The entries have the blocks that were answered throughout.              *)
LEMMA ProgressAlways == Spec => []Progress
<1>1. ASSUME Init
      PROVE  Progress
  BY <1>1
  DEF Init, Progress, InBody, KeptForSenders, Kept, KeptInHandler,
      HandlerInTurn, BodyIsWhole
<1>2. QED
  BY <1>1, ProgressStep, TypeCorrect, OwnershipAlways, PTL DEF Spec

(* Every body handed over whose blocks came in turn is the one its client  *)
(* sent, all of it, although the code looks at the last block only: a      *)
(* block is sent after the one before it was answered, and the entry then  *)
(* has that one, unless its session ended in between.                      *)
THEOREM WholeBodies == Spec => []BodyIsWhole
BY ProgressAlways, PTL DEF Progress

(* A block that was answered is in the entry, if none came out of turn.    *)
THEOREM AnswersHold == Spec => []AnsweredIsKept
<1>1. ASSUME TypeOK, Progress
      PROVE  AnsweredIsKept
  <2>1. SUFFICES ASSUME NEW c \in Client, sending[c] # Idle,
                        KeyOf(c, sending[c]) \notin disturbed,
                        cache[KeyOf(c, sending[c])] # NoEntry,
                        ~(/\ cache[KeyOf(c, sending[c])] = NoBuffer
                          /\ IsLast(sending[c])),
                        NEW i \in 1..(sending[c].block - 1)
                 PROVE  LET b == cache[KeyOf(c, sending[c])]
                        IN  /\ b \in Buffer
                            /\ i \in DOMAIN heap[b]
                            /\ heap[b][i] = sending[c].body
    BY DEF AnsweredIsKept, HasAnswered
  <2>2. /\ sending[c] \in Request
        /\ sending[c].block \in Nat \ {0, 1}
        /\ Length[sending[c].body] \in Nat
        /\ sending[c].block <= Length[sending[c].body]
    <3>1. sending[c] \in Request /\ InLength(sending[c])
      BY <1>1, <2>1 DEF TypeOK, Progress, InBody
    <3>2. QED
      BY <2>1, <3>1, BodyLength DEF InLength
  <2>3. Stored(KeyOf(c, sending[c]), sending[c].body, sending[c].block - 1)
    BY <1>1, <2>1, <2>2 DEF Progress, KeptForSenders, Kept
  <2>4. QED
    BY <2>1, <2>2, <2>3 DEF Stored
<1>2. QED
  BY <1>1, ProgressAlways, TypeCorrect, PTL
==============================================================================
