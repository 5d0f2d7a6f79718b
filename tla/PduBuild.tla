------------------------------- MODULE PduBuild -------------------------------
(***************************************************************************)
(* Messages under construction: the RequestPdu and ResponsePdu objects     *)
(* around libcoap's pdus, addOptions, setPayload and payload(), and the    *)
(* wrappers that are made anew on a pdu that has been built, received or   *)
(* sent (AckHandler, NackHandler, the request callbacks).                  *)
(*                                                                         *)
(* A raw pdu is its options, one value per number, and its data; options   *)
(* that repeat (paths, queries) are one here.  An Options object is the    *)
(* list of its nodes, which addOptions copies, has libcoap sort and frees. *)
(***************************************************************************)
EXTENDS Naturals, SequencesExt

CONSTANTS
    Pdu,            \* libcoap's pdus
    Request,        \* those a RequestPdu wraps; a ResponsePdu the others
    Built,          \* those the program builds; the others were received
    Number,         \* option numbers
    ContentFormat,  \* the one of the payload's type
    Value,          \* option values, among them the content formats
    NoValue,        \* the option is not there
    Data,           \* the bytes of payloads
    NoData,         \* the pdu has no data
    NoPayload,      \* an empty payload, or an empty m_payload
    Received,       \* bound: what the received pdus may hold
    MaxOptions,     \* bound: nodes of an Options object
    MaxSize         \* bound: places of each pdu; an option or data takes one

Payload == [data : Data, type : Value]
Node == [number : Number, value : Value]
Options == SeqOf(Node, MaxOptions)
Raw == [options : [Number -> Value \cup {NoValue}],
        data : Data \cup {NoData},
        max_size : Nat]

ASSUME ConstantsAssumption ==
    /\ Request \subseteq Pdu
    /\ Built \subseteq Pdu
    /\ ContentFormat \in Number
    /\ IsFiniteSet(Number)
    /\ Number \subseteq Nat
    /\ NoValue \notin Value
    /\ NoData \notin Data
    /\ NoPayload \notin Payload
    /\ Received \subseteq Raw
    /\ MaxOptions \in Nat
    /\ MaxSize \in [Pdu -> Nat]

VARIABLES
    m_rawPdu,   \* each pdu's contents
    wrapped,    \* the pdus that have a wrapper now
    m_payload,  \* that wrapper's m_payload
    spilled,    \* option nodes that no Options object frees
    told,       \* history: the payload setPayload answered true for
    refused     \* history: a setPayload of a first payload answered false

vars == <<m_rawPdu, wrapped, m_payload, spilled, told, refused>>

TypeOK ==
    /\ m_rawPdu \in [Pdu -> Raw]
    /\ wrapped \in SUBSET Pdu
    /\ m_payload \in [Pdu -> Payload \cup {NoPayload}]
    /\ spilled \in SUBSET Node
    /\ told \in [Pdu -> Payload \cup {NoPayload}]
    /\ refused \in SUBSET Pdu

Empty(p) == [options |-> [n \in Number |-> NoValue], data |-> NoData,
             max_size |-> MaxSize[p]]

Init ==
    /\ m_rawPdu \in [Pdu -> Received \cup {Empty(p) : p \in Built}]
    /\ \A p \in Pdu :
          IF p \in Built THEN m_rawPdu[p] = Empty(p)
          ELSE m_rawPdu[p] \in Received
    /\ wrapped = {}
    /\ m_payload = [p \in Pdu |-> NoPayload]
    /\ spilled = {}
    /\ told = [p \in Pdu |-> NoPayload]
    /\ refused = {}

------------------------------------------------------------------------------
(* libcoap's pdu.                                                          *)

HasOption(raw, n) == raw.options[n] # NoValue

Room(raw) ==
    Cardinality({n \in Number : HasOption(raw, n)})
        + (IF raw.data = NoData THEN 0 ELSE 1) < raw.max_size

(* coap_add_optlist_pdu.  Once there is data it fails; an option that is   *)
(* there already, or does not fit, is passed over.                         *)
OptionsFail(raw) == raw.data # NoData

WithOption(raw, n, v) ==
    IF OptionsFail(raw) \/ HasOption(raw, n) \/ ~Room(raw) THEN raw
    ELSE [raw EXCEPT !.options[n] = v]

(* coap_add_data fails when there is data, or no room.                     *)
WithData(raw, d) ==
    IF raw.data # NoData \/ ~Room(raw) THEN raw ELSE [raw EXCEPT !.data = d]

------------------------------------------------------------------------------
(* Wrappers.                                                               *)

(* Variant: init does not look for a payload.                              *)
ReadNothing(raw) == NoPayload

(* Variant: init does not ask whether a content format was found.          *)
ReadUnchecked(raw) ==
    IF raw.data # NoData
    THEN [data |-> raw.data, type |-> raw.options[ContentFormat]]
    ELSE NoPayload

(* init: a payload is read only with its content format.                   *)
Read(raw) ==
    IF raw.data # NoData /\ HasOption(raw, ContentFormat)
    THEN [data |-> raw.data, type |-> raw.options[ContentFormat]]
    ELSE NoPayload

(* The constructor of RequestPdu or ResponsePdu.                           *)
Wrap(p) ==
    /\ p \notin wrapped
    /\ wrapped' = wrapped \cup {p}
    /\ m_payload' = [m_payload EXCEPT ![p] = Read(m_rawPdu[p])]
    /\ UNCHANGED <<m_rawPdu, spilled, told, refused>>

(* The wrapper goes, libcoap's pdu stays.                                  *)
Unwrap(p) ==
    /\ p \in wrapped
    /\ wrapped' = wrapped \ {p}
    /\ m_payload' = [m_payload EXCEPT ![p] = NoPayload]
    /\ UNCHANGED <<m_rawPdu, spilled, told, refused>>

------------------------------------------------------------------------------
(* Options.                                                                *)

(* insert: the node is the list's last, also when its number is there.     *)
Insert(options, node) == Append(options, node)

(* The copy constructor inserts a copy of each node.                       *)
Copied(options) ==
    LET copy[i \in 0..Len(options)] ==
            IF i = 0 THEN <<>> ELSE Insert(copy[i - 1], options[i])
    IN  copy[Len(options)]

(* The sort keeps the order of nodes of one number: this one comes first.  *)
FirstOf(options, n) ==
    options[Min({i \in DOMAIN options : options[i].number = n})]

(* To a pdu without data: sorted by number, options that are not there are *)
(* added while they fit; n does if those there and before it leave room.   *)
WithOptions(raw, options) ==
    LET there == {n \in Number : HasOption(raw, n)}
        offered == {options[i].number : i \in DOMAIN options}
        Before(n) == there \cup {m \in offered : m < n}
    IN  [raw EXCEPT !.options =
            [n \in Number |->
                IF /\ n \in offered \ there
                   /\ Cardinality(Before(n)) < raw.max_size
                THEN FirstOf(options, n).value
                ELSE raw.options[n]]]

(* The sort moves a copy of the head pointer: the object's own one stays   *)
(* where it was, and its destructor frees what comes from there on.        *)
Unreached(options) ==
    {node \in ToSet(options) : node.number < Head(options).number}

(* addOptions takes the Options by value and destroys its copy.            *)
AddOptions(p, options) ==
    /\ p \in wrapped \cap Built
    /\ options # <<>>
    /\ LET own == Copied(options)
       IN  IF OptionsFail(m_rawPdu[p]) THEN UNCHANGED <<m_rawPdu, spilled>>
           ELSE /\ m_rawPdu' = [m_rawPdu EXCEPT ![p] = WithOptions(@, own)]
                /\ spilled' = spilled \cup Unreached(own)
    /\ UNCHANGED <<wrapped, m_payload, told, refused>>

------------------------------------------------------------------------------
(* setPayload.                                                             *)

(* The wrapper has a payload, or the new one is empty: false.              *)
SetPayloadRefused(p, payload) ==
    /\ p \in wrapped \cap Built
    /\ m_payload[p] # NoPayload \/ payload = NoPayload
    /\ UNCHANGED vars

(* Variant: the data is never added.                                       *)
WriteNothing(p, payload, raw) ==
    /\ m_payload' = [m_payload EXCEPT ![p] = payload]
    /\ m_rawPdu' = [m_rawPdu EXCEPT ![p] = raw]
    /\ told' = [told EXCEPT ![p] = payload]
    /\ UNCHANGED <<wrapped, spilled, refused>>

(* Variant: the wrapper does not keep what it wrote.                       *)
WriteUnkept(p, payload, raw) ==
    /\ m_rawPdu' = [m_rawPdu EXCEPT ![p] = WithData(raw, payload.data)]
    /\ told' = [told EXCEPT ![p] = payload]
    /\ UNCHANGED <<wrapped, m_payload, spilled, refused>>

(* m_payload is set, coap_add_data's result is ignored: true.              *)
Write(p, payload, raw) ==
    /\ m_payload' = [m_payload EXCEPT ![p] = payload]
    /\ m_rawPdu' = [m_rawPdu EXCEPT ![p] = WithData(raw, payload.data)]
    /\ told' = [told EXCEPT ![p] = payload]
    /\ UNCHANGED <<wrapped, spilled, refused>>

GiveUp(p, raw) ==
    /\ m_rawPdu' = [m_rawPdu EXCEPT ![p] = raw]
    /\ refused' = refused \cup {p}
    /\ UNCHANGED <<wrapped, m_payload, spilled, told>>

(* Some content format is in the pdu.                                      *)
SetPayload(p, payload) ==
    /\ p \in wrapped \cap Built
    /\ m_payload[p] = NoPayload
    /\ HasOption(m_rawPdu[p], ContentFormat)
    /\ Write(p, payload, m_rawPdu[p])

(* Variant: the content format is looked for and not added.                *)
WithoutFormat(raw, payload) == raw

WithFormat(raw, payload) == WithOption(raw, ContentFormat, payload.type)

(* There is none, and a RequestPdu gives up when it cannot be added.       *)
SetRequestPayload(p, payload) ==
    /\ p \in wrapped \cap Built
    /\ p \in Request
    /\ m_payload[p] = NoPayload
    /\ ~HasOption(m_rawPdu[p], ContentFormat)
    /\ IF OptionsFail(m_rawPdu[p]) THEN GiveUp(p, m_rawPdu[p])
       ELSE Write(p, payload, WithFormat(m_rawPdu[p], payload))

(* There is none, and a ResponsePdu gives up when it has been added.       *)
SetResponsePayload(p, payload) ==
    /\ p \in wrapped \cap Built
    /\ p \notin Request
    /\ m_payload[p] = NoPayload
    /\ ~HasOption(m_rawPdu[p], ContentFormat)
    /\ IF OptionsFail(m_rawPdu[p]) THEN Write(p, payload, m_rawPdu[p])
       ELSE GiveUp(p, WithFormat(m_rawPdu[p], payload))

------------------------------------------------------------------------------
(* The public functions of every wrapper, ...                              *)
PduOperations(p) ==
    \/ Wrap(p)
    \/ Unwrap(p)
    \/ \E options \in Options : AddOptions(p, options)
    \/ \E payload \in Payload \cup {NoPayload} : SetPayloadRefused(p, payload)
    \/ \E payload \in Payload : SetPayload(p, payload)

(* ... and what the two classes do differently.                            *)
RequestPduOperations(p) ==
    \E payload \in Payload : SetRequestPayload(p, payload)

ResponsePduOperations(p) ==
    \E payload \in Payload : SetResponsePayload(p, payload)

Next ==
    \E p \in Pdu :
       \/ PduOperations(p)
       \/ RequestPduOperations(p)
       \/ ResponsePduOperations(p)

Spec == Init /\ [][Next]_vars

------------------------------------------------------------------------------
(* Properties.                                                             *)

(* What setPayload answered true for is the pdu's data, whatever wrappers, *)
(* options and payloads come later; or the pdu was full, as coap_add_data  *)
(* told setPayload in vain (RequestPdu.cc:45).                             *)
PayloadIsWritten ==
    \A p \in Pdu : told[p] # NoPayload =>
        \/ m_rawPdu[p].data = told[p].data
        \/ m_rawPdu[p].data = NoData /\ ~Room(m_rawPdu[p])

(* Once written it is the payload() of every wrapper, and its format is    *)
(* unless the pdu carries another: NackHandler hands the application the   *)
(* request it sent.                                                        *)
PayloadIsReadBack ==
    \A p \in wrapped : told[p] # NoPayload /\ m_rawPdu[p].data # NoData =>
        /\ m_payload[p] # NoPayload
        /\ m_payload[p].data = told[p].data
        /\ m_rawPdu[p].options[ContentFormat] = told[p].type
              => m_payload[p].type = told[p].type

(* setPayload answers true for one payload of a message that has its data, *)
(* not for one of each wrapper (RequestPdu.h:43).                          *)
PayloadOnce ==
    [][\A p \in Pdu : told[p] # NoPayload /\ m_rawPdu[p].data # NoData
          => told'[p] = told[p]]_vars

(* A message is never left with data but no content format: its receiver's *)
(* payload() would not see the data (RequestPdu.cc:38).                    *)
DataHasFormat ==
    \A p \in Built :
        m_rawPdu[p].data # NoData => HasOption(m_rawPdu[p], ContentFormat)

------------------------------------------------------------------------------
(* What the code says and does not keep.                                   *)

(* A payload setPayload answers true for is written (RequestPdu.h:41).     *)
AcceptedIsWritten ==
    \A p \in Pdu :
        told[p] # NoPayload => m_rawPdu[p].data = told[p].data

(* Data that is written has its payload's format (RequestPdu.cc:37).       *)
FormatIsPayloads ==
    \A p \in Pdu : told[p] # NoPayload /\ m_rawPdu[p].data = told[p].data
        => m_rawPdu[p].options[ContentFormat] = told[p].type

(* Every node that was inserted, in whatever order (Pdu.h:120), is freed   *)
(* with its Options: the sort in addOptions cuts off none (Pdu.cc:85).     *)
NothingSpilled == spilled = {}

(* The first payload of a message is accepted (ResponsePdu.h:37, and       *)
(* tst_Pdu.cc:435 for a response without a content format).                *)
FirstPayloadIsAccepted == refused = {}
==============================================================================
