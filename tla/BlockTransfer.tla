---------------------------- MODULE BlockTransfer ----------------------------
(***************************************************************************)
(* BlockTransferReader: a body that arrives in blocks is put together in   *)
(* the application data of a libcoap cache entry, found by session and     *)
(* resource, and handed over by read() when its last block is there.       *)
(*                                                                         *)
(* A client sends a block, waits for the answer, and sends the next one.   *)
(* An answer that is lost makes it send the block again, and the network   *)
(* may deliver a block twice, or after those that were sent later.  The    *)
(* handler makes one reader for each request, in the thread of ioProcess.  *)
(* Lengths and offsets are counted in blocks.                              *)
(***************************************************************************)
EXTENDS Naturals, FiniteSets

CONSTANTS
    Client,      \* one session each
    Resource,
    Body,        \* the bodies clients send
    Length,      \* the number of blocks of each, 0 without a payload
    Buffer,      \* coap_binary_t structures
    Free,        \* the contents of a buffer that is not allocated
    Unset,       \* a block of a buffer that was never written
    NoEntry,     \* no cache entry
    NoBuffer,    \* a null pointer to a buffer
    Idle,        \* a client that sends nothing, or no reader
    MaxLate      \* bound: copies that the network keeps

Request == [resource : Resource, body : Body, block : Nat \ {0}]
Reader == [client : Client, request : Request,
           m_bobyData : Buffer \cup {NoBuffer}]
Blocks == UNION {[1..Length[d] -> Body \cup {Unset}] : d \in Body}
Key == Client \X Resource
Handed == [buffer : Buffer, body : Body, inTurn : BOOLEAN]

ASSUME ConstantsAssumption ==
    /\ Length \in [Body -> Nat]
    /\ Unset \notin Body
    /\ NoEntry \notin Buffer \cup {NoBuffer}
    /\ NoBuffer \notin Buffer
    /\ Free \notin Blocks
    /\ Idle \notin Request \cup Reader
    /\ MaxLate \in Nat

VARIABLES
    sending,   \* what each client sends: the block, until it is answered
    late,      \* copies of what clients sent that may still arrive
    reader,    \* the reader of the request that is being handled
    cache,     \* the application data of the cache entries
    heap,      \* the blocks in each buffer
    handed,    \* what read() gave the application, and if it came in turn
    lost,      \* buffers of entries that went with their session
    disturbed  \* keys where a block came out of turn since the first one

memory == <<cache, heap, handed, lost, disturbed>>
vars == <<sending, late, reader, memory>>

TypeOK ==
    /\ sending \in [Client -> Request \cup {Idle}]
    /\ late \in SUBSET (Client \X Request)
    /\ reader \in Reader \cup {Idle}
    /\ cache \in [Key -> Buffer \cup {NoBuffer, NoEntry}]
    /\ heap \in [Buffer -> Blocks \cup {Free}]
    /\ handed \in SUBSET Handed
    /\ lost \in SUBSET Buffer
    /\ disturbed \in SUBSET Key

Init ==
    /\ sending = [c \in Client |-> Idle]
    /\ late = {}
    /\ reader = Idle
    /\ cache = [k \in Key |-> NoEntry]
    /\ heap = [b \in Buffer |-> Free]
    /\ handed = {}
    /\ lost = {}
    /\ disturbed = {}

------------------------------------------------------------------------------
IsLast(request) == request.block >= Length[request.body]

(* Variant: the entry is found by the resource alone.                      *)
KeyOfResource(c, request) == <<CHOOSE x \in Client : TRUE, request.resource>>

(* coap_cache_get_by_pdu with COAP_CACHE_IS_SESSION_BASED.                 *)
KeyOf(c, request) == <<c, request.resource>>

(* There are data, and size # total.                                       *)
IsBlockTransfer(request) == Length[request.body] > 1

IsBlockTransferComplete(request) == IsLast(request)

(* Variant: the old application data is forgotten.                         *)
ForgetBody(k) == heap

(* getCacheEntry of a first block: the old body is deleted.                *)
DeleteBody(k) ==
    IF cache[k] \in Buffer THEN [heap EXCEPT ![cache[k]] = Free] ELSE heap

(* coap_block_build_body: a buffer of the whole body, grown when a block   *)
(* is beyond its end, of which nothing but the block is written.           *)
Build(blocks, request) ==
    LET old == IF blocks = Free THEN {} ELSE DOMAIN blocks
        all == old \cup 1..Length[request.body]
    IN  [i \in all |-> IF i = request.block THEN request.body
                       ELSE IF i \in old THEN blocks[i] ELSE Unset]

------------------------------------------------------------------------------
(* Clients and the network.                                                *)

Send(c, r, d) ==
    /\ sending[c] = Idle
    /\ sending' = [sending EXCEPT ![c] =
                      [resource |-> r, body |-> d, block |-> 1]]
    /\ UNCHANGED <<late, reader, memory>>

GiveUp(c) ==
    /\ sending[c] # Idle
    /\ sending' = [sending EXCEPT ![c] = Idle]
    /\ UNCHANGED <<late, reader, memory>>

(* A copy of what a client sends stays in the network, which may deliver   *)
(* it at any later time and as often as it likes, ...                      *)
Keep(c) ==
    /\ sending[c] # Idle
    /\ Cardinality(late) < MaxLate
    /\ late' = late \cup {<<c, sending[c]>>}
    /\ UNCHANGED <<sending, reader, memory>>

(* ... until it drops it.                                                  *)
Drop(p) ==
    /\ p \in late
    /\ late' = late \ {p}
    /\ UNCHANGED <<sending, reader, memory>>

(* What may arrive from a client.                                          *)
Arriving(c) ==
    ({sending[c]} \ {Idle}) \cup {p[2] : p \in {q \in late : q[1] = c}}

(* A later block of the body that the client is sending, none that it has  *)
(* not come to, while the application has not taken that body.             *)
InTurn(c, request) ==
    /\ sending[c] # Idle
    /\ request.resource = sending[c].resource
    /\ request.body = sending[c].body
    /\ request.block <= sending[c].block
    /\ cache[KeyOf(c, request)] # NoBuffer

------------------------------------------------------------------------------
(* The handler of a request, which makes a reader and may read.            *)

NewReader(c, request) ==
    /\ reader = Idle
    /\ reader' = [client |-> c, request |-> request, m_bobyData |-> NoBuffer]

(* A first block begins a body; one that the client does not send now      *)
(* begins it out of turn.                                                  *)
Begins(c, request) ==
    LET k == KeyOf(c, request)
    IN  disturbed' = IF request = sending[c] THEN disturbed \ {k}
                     ELSE disturbed \cup {k}

(* handleBlockTransfer of the first block, on a new or an emptied entry.   *)
FirstBlock(c, request, b) ==
    LET k == KeyOf(c, request)
    IN  /\ request.block = 1
        /\ Length[request.body] # 0
        /\ NewReader(c, request)
        /\ LET left == DeleteBody(k)
           IN  /\ left[b] = Free
               /\ heap' = [left EXCEPT ![b] = Build(Free, request)]
        /\ cache' = [cache EXCEPT ![k] = b]
        /\ Begins(c, request)
        /\ UNCHANGED <<sending, late, handed, lost>>

(* A request without a payload leaves its entry without a body.            *)
EmptyRequest(c, request) ==
    LET k == KeyOf(c, request)
    IN  /\ request.block = 1
        /\ Length[request.body] = 0
        /\ NewReader(c, request)
        /\ heap' = DeleteBody(k)
        /\ cache' = [cache EXCEPT ![k] = NoBuffer]
        /\ Begins(c, request)
        /\ UNCHANGED <<sending, late, handed, lost>>

(* Variant: the body is built anew.                                        *)
LaterBlockAnew(c, request, b) ==
    LET k == KeyOf(c, request)
    IN  /\ request.block # 1
        /\ cache[k] # NoEntry
        /\ NewReader(c, request)
        /\ b = cache[k] \/ (cache[k] = NoBuffer /\ heap[b] = Free)
        /\ heap' = [heap EXCEPT ![b] = Build(Free, request)]
        /\ cache' = [cache EXCEPT ![k] = b]
        /\ disturbed' = IF InTurn(c, request) THEN disturbed
                        ELSE disturbed \cup {k}
        /\ UNCHANGED <<sending, late, handed, lost>>

(* Any other block joins the body that is there, or begins one.            *)
LaterBlock(c, request, b) ==
    LET k == KeyOf(c, request)
    IN  /\ request.block # 1
        /\ cache[k] # NoEntry
        /\ NewReader(c, request)
        /\ b = cache[k] \/ (cache[k] = NoBuffer /\ heap[b] = Free)
        /\ heap' = [heap EXCEPT ![b] = Build(@, request)]
        /\ cache' = [cache EXCEPT ![k] = b]
        /\ disturbed' = IF InTurn(c, request) THEN disturbed
                        ELSE disturbed \cup {k}
        /\ UNCHANGED <<sending, late, handed, lost>>

(* Without an entry the constructor throws, and the client is told so.     *)
BlockWithoutEntry(c, request) ==
    /\ request.block # 1
    /\ cache[KeyOf(c, request)] = NoEntry
    /\ reader = Idle
    /\ sending' = [sending EXCEPT ![c] = IF @ = request THEN Idle ELSE @]
    /\ UNCHANGED <<late, reader, memory>>

(* Variant: the entry keeps the body too.                                  *)
TakeAndKeep(b) ==
    /\ b = cache[KeyOf(reader.client, reader.request)]
    /\ UNCHANGED <<cache, heap>>

(* The body leaves the cache entry.                                        *)
Take(b) ==
    LET k == KeyOf(reader.client, reader.request)
    IN  /\ b = cache[k]
        /\ cache' = [cache EXCEPT ![k] = NoBuffer]
        /\ UNCHANGED heap

(* Variant: the copy is one block off.                                     *)
CopyFromZero(b) ==
    LET body == reader.request.body
    IN  /\ heap[b] = Free
        /\ heap' = [heap EXCEPT ![b] = [i \in {Length[body] - 1} |-> body]]
        /\ UNCHANGED cache

(* A request that is not a block of many is copied, and the body stays in  *)
(* the entry.                                                              *)
CopyRequest(b) ==
    /\ heap[b] = Free
    /\ heap' = [heap EXCEPT ![b] = Build(Free, reader.request)]
    /\ UNCHANGED cache

(* read(): later calls give the same buffer, and before the last block it  *)
(* throws.  A first block that is the last one too is not a block transfer.*)
ReadBody(b) ==
    /\ reader # Idle
    /\ reader.m_bobyData = NoBuffer
    /\ IF IsBlockTransfer(reader.request)
       THEN IsBlockTransferComplete(reader.request) /\ Take(b)
       ELSE CopyRequest(b)
    /\ reader' = [reader EXCEPT !.m_bobyData = b]
    /\ LET k == KeyOf(reader.client, reader.request)
       IN  handed' = handed \cup
              {[buffer |-> b, body |-> reader.request.body,
                inTurn |-> IsBlockTransfer(reader.request)
                              => k \notin disturbed]}
    /\ UNCHANGED <<sending, late, lost, disturbed>>

NextBlock(request) == [request EXCEPT !.block = @ + 1]

(* The handler returns.  The client goes on when the answer is to what it  *)
(* sends.                                                                  *)
Answered ==
    /\ reader # Idle
    /\ reader' = Idle
    /\ sending' = [sending EXCEPT ![reader.client] =
                      IF @ # reader.request THEN @
                      ELSE IF IsLast(@) THEN Idle
                      ELSE NextBlock(@)]
    /\ UNCHANGED <<late, memory>>

(* The handler returns, and the client sends the same block again.         *)
AnswerLost ==
    /\ reader # Idle
    /\ reader' = Idle
    /\ UNCHANGED <<sending, late, memory>>

(* "The caller is responsible for freeing the memory."                     *)
Release(h) ==
    /\ h \in handed
    /\ handed' = handed \ {h}
    /\ heap' = [heap EXCEPT ![h.buffer] = Free]
    /\ UNCHANGED <<sending, late, reader, cache, lost, disturbed>>

(* libcoap deletes the session's cache entries; their application data has *)
(* no release function.                                                    *)
SessionEnds(c) ==
    /\ reader = Idle
    /\ \E r \in Resource : cache[<<c, r>>] # NoEntry
    /\ lost' = lost \cup {cache[<<c, r>>] : r \in
                            {q \in Resource : cache[<<c, q>>] \in Buffer}}
    /\ cache' = [k \in Key |-> IF k[1] = c THEN NoEntry ELSE cache[k]]
    /\ UNCHANGED <<sending, late, reader, heap, handed, disturbed>>

Next ==
    \/ \E c \in Client :
          \/ \E r \in Resource, d \in Body : Send(c, r, d)
          \/ GiveUp(c)
          \/ Keep(c)
          \/ \E request \in Arriving(c) :
                \/ \E b \in Buffer : FirstBlock(c, request, b)
                \/ \E b \in Buffer : LaterBlock(c, request, b)
                \/ EmptyRequest(c, request)
                \/ BlockWithoutEntry(c, request)
          \/ SessionEnds(c)
    \/ \E p \in late : Drop(p)
    \/ \E b \in Buffer : ReadBody(b)
    \/ \E h \in handed : Release(h)
    \/ Answered
    \/ AnswerLost

Spec == Init /\ [][Next]_vars

------------------------------------------------------------------------------
(* Properties.                                                             *)

Whole(d) == [i \in 1..Length[d] |-> d]

(* What read() hands over is the body the client sent, every block of it,  *)
(* whatever was given up, repeated or sent by others before                *)
(* (BlockTransferReader.cc:27 looks at the last block only), as long as    *)
(* its blocks came in turn from the first one on.                          *)
BodyIsWhole ==
    \A h \in handed : h.inTurn => heap[h.buffer] = Whole(h.body)

(* Every buffer has one owner: the entry of one key, the application, or   *)
(* nobody when its session ended first.  None is freed twice or used after *)
(* it was freed (BlockTransferReader.cc:72).                               *)
BuffersOwnedOnce ==
    \A b \in Buffer :
        Cardinality({k \in Key : cache[k] = b})
        + Cardinality({h \in handed : h.buffer = b})
        + Cardinality(lost \cap {b})
            = IF heap[b] = Free THEN 0 ELSE 1

(* The blocks before the one a client sends are in its entry.              *)
HasAnswered(c) ==
    LET b == cache[KeyOf(c, sending[c])]
    IN  \A i \in 1..(sending[c].block - 1) :
            /\ b \in Buffer
            /\ i \in DOMAIN heap[b]
            /\ heap[b][i] = sending[c].body

(* Between requests, the blocks a client was told are received are in the  *)
(* entry, unless its session ended, the application has taken the body and *)
(* only the last answer is missing, or a block came out of turn: the       *)
(* answer is no empty promise.                                             *)
AnsweredIsKept ==
    \A c \in Client :
        sending[c] # Idle /\ reader = Idle =>
            LET k == KeyOf(c, sending[c])
            IN  \/ k \in disturbed
                \/ cache[k] = NoEntry
                \/ cache[k] = NoBuffer /\ IsLast(sending[c])
                \/ HasAnswered(c)

------------------------------------------------------------------------------
(* What the code says and does not keep.                                   *)

(* read() throws "if the block transfer is not complete"                   *)
(* (BlockTransferReader.h:46): what it returns is a whole body.  The last  *)
(* block, repeated after read() took the body, begins a body of its own.   *)
EveryBodyIsWhole ==
    \A h \in handed : heap[h.buffer] = Whole(h.body)

(* Offset zero "means that this is a new block transfer request"           *)
(* (BlockTransferReader.cc:61): no body of which blocks were answered is   *)
(* thrown away while its client goes on sending it.                        *)
EveryAnswerIsKept ==
    \A c \in Client :
        sending[c] # Idle /\ reader = Idle =>
            LET k == KeyOf(c, sending[c])
            IN  \/ cache[k] = NoEntry
                \/ cache[k] = NoBuffer /\ IsLast(sending[c])
                \/ HasAnswered(c)
==============================================================================
