# Verification of libcoap-cpp

libcoap-cpp wraps the C library libcoap in C++ classes: contexts, sessions,
requests with their handlings, and resources with their interfaces. This
directory holds TLA+ models of that wrapper, the TLC configurations that check
them, and proofs checked by TLAPS. Paths below are relative to the repository
(`src/` in them is the library's own source directory).

libcoap itself is outside the repository: the models contain the little of it
the wrapper depends on (which handler it calls when, what it counts), and
`PROJECT.json` marks those definitions external.

## The system

Everything the library does between two calls of the application happens inside
`Context::ioProcess`, on the thread that called it: libcoap reads packets, runs
its timers, and calls the wrapper's static functions, which find the C++ object
through libcoap's app data and call one of the application's virtual functions.
That function may call the library again. There are no locks in these paths
(the log has the only one); the hard behaviours are re-entrance, the order in
which things are destroyed, answers that come late, twice or never, blocks that
are repeated or abandoned, and who owns what.

| Component | State | Operations | Talks to |
|---|---|---|---|
| `SendersManager` | `m_handlings` (token to handling), `m_defaultHandling` | `send`, `removeHandling`, `updateDefaultHandling`, `getHandling`, `createToken`, `createRequest`, destructor | owned by `Session`; calls `coap_send` |
| `AckHandler`, `NackHandler` | none | called by libcoap for a response or a failed request | look a handling up, call `onAck`/`onNAck`, ask `isFinished`, remove |
| `Handling`, `DefaultHandling` | mid, token; the application's own | `onAck`, `onNAck`, `isFinished`, `readyDestroyed` | owned by a `SendersManager` once handed over |
| `Session` | libcoap session, `m_onw`, its manager, app data | construction, destruction, getters and setters | owned by `ContextClient`, or a temporary inside a callback |
| `Resource`, `ResourceInterface` | libcoap resource, interfaces per request code | `registerInterface`, `notifyObserver`, confirmable notifications, four request callbacks | called by libcoap; make a `Session` per request |
| `ResourceManager` | resources per path | `registerResource`, `unregisterResource` | owned by `ContextServer` |
| `Context` | libcoap context, `m_isBusy`, event handling | `ioProcess`, `isioPending`, `registerEventHandling`, destructor that waits | IO thread and owner thread |
| `ContextClient` | sessions per port and protocol, a static handshake function | `addSession`, `removeSession`, `getSession` | `Context`, `Session` |
| `ContextServer`, `EndPoint` | endpoints per port, persistence flag, manager, a static handshake function | `addEndPoint`, `removeEndPoint`, `enablePersist`, destructor that waits | `Context`, `ResourceManager` |
| `EventHandling` | none | dispatch of libcoap's events | `Context`, temporary `Session` |
| `Pdu`, `RequestPdu`, `ResponsePdu`, `OptFilter`, `Options` | raw pdu, payload, a static filter, a list of option nodes | options, payload, code, token | libcoap |
| `BlockTransferReader` | block of one request, body in libcoap's cache | construction stores a block, `read` hands the body over | libcoap's cache |
| `Binary*`, `Address` | raw bytes and ownership | copy, move, compare, convert | everything |
| `Log` | a mutex, a handler | `Logging`, `SetLogHandler`, levels | libcoap's log |

### What makes each part correct

* Senders: a handling has exactly one owner from the moment it is handed over,
  is called only for its own token, one callback at a time, is destroyed exactly
  once and never while it is being called; a finished one is always destroyed; a
  Session being destroyed calls nobody.
* Server: the reference count of a client's session covers its observers and
  unacknowledged notifications; a temporary `Session` leaves no trace; an
  observed resource can answer; a registered resource has one owner.
* Contexts: nothing is freed that the IO thread still uses, a server's resources
  and persistence end before its endpoints, everything owned is freed, and the
  destructor does not wait for itself.
* Messages: what `setPayload` reports is what the pdu holds, and stays; a filter
  selects what it was made with.
* Blocks: a body that is read is the body that was sent, what was answered is
  kept, and every buffer has one owner.
* Bytes: every block of bytes is freed once, by its owner, and the objects are
  values; tokens are totally ordered; integers survive their encoding.
* Log: no handler that `Logging` runs is replaced, and every call comes back.

## Modules

| Module | Models |
|---|---|
| `HandlingLifecycle` | abstract: what a handling may go through, and when it may be called |
| `SendersManager` | one owned client `Session`: its `SendersManager`, the two handlers, and the libcoap session under them; implements `HandlingLifecycle` |
| `SendersManagerProofs` | theorems about `SendersManager` and their proofs |
| `ResourceServer` | one URI path of a server: `ResourceManager`, `Resource`, request callbacks, and the client sessions' reference counts |
| `ResourceServerProofs` | theorems about `ResourceServer` and their proofs |
| `ContextIo` | a `ContextClient` or a `ContextServer` under several threads: `ioProcess` and its busy flag, `isioPending`, sessions or endpoints, persistence, events, and the destructors |
| `ContextIoProofs` | theorems about `ContextIo` and their proofs: events and `coap_io_process` |
| `ContextReleaseProofs` | the same, continued: what the context owns, and the order of its end |
| `PduBuild` | messages: `RequestPdu` and `ResponsePdu` around libcoap's pdus, lists of options, `setPayload`, `payload()` |
| `PduBuildProofs` | theorems about `PduBuild` and their proofs |
| `Bytes` | pure functions of bytes: order and equality of tokens, `toUInt64`, `Encoder`, `Decoder` |
| `BinaryValue` | abstract: a `Binary` or `BinaryConst` is a value, or a name for memory of libcoap's |
| `Binary` | the objects of both classes, their views, and the blocks of bytes they own; uses `Bytes`, implements `BinaryValue` |
| `BinaryProofs` | theorems about `Binary` and their proofs |
| `BlockTransfer` | `BlockTransferReader`, libcoap's cache entries, clients that repeat blocks or give up, and a network that duplicates and delays |
| `BlockTransferProofs` | theorems about `BlockTransfer` and their proofs |
| `LogLock` | `Log`: the mutex, the handler, the level, and messages that do not go through `Log::Logging` |
| `LogLockProofs` | theorems about `LogLock` and their proofs |
| `MC<module>` | the instance of each of the seven detailed modules that TLC checks |

Every detailed module has the members of its classes as variables, under their
own names where they have one, one action per outcome of a public function, and
libcoap's part as separate actions. An action stands for the whole function
unless the application, another thread or libcoap can come in between; then it
is split there, and nowhere else.

### SendersManager

`m_handlings` and `m_defaultHandling` are the members of that name, with
`NoHandling` for a null pointer or an absent key; a token is a value, as the
map's keys are deep copies. `life` says who answers for each handling object:
the application, the manager, or nobody any more. `callback` is the frame of the
handler on the stack: which virtual function, the token it looked up, the
pointer it found and its local `isDefaultHandling`. `app_data` and `session`
follow `Session`. `sendqueue` and `heard` are libcoap: confirmable requests it
retransmits, and tokens a peer may still answer.

`send` is one action for each of its outcomes: `SendUnusable` (no pdu or token:
false), `SendThrows` (tokens differ, or the token is taken), `Send` (true),
`SendFails` (false from `coap_send`) and `SendWithoutHandling` (a null handling).
`AckHandler` and `NackHandler` are split where they enter and leave the virtual
function, because the application may call the manager from there: the first
half is part of the libcoap action that causes it (`Piggybacked`, `Separate`,
`Mismatched`, `GivenUp`, `Unreachable`), the second half is `AckReturns` or
`NackReturns`. Both destructors of a closing Session are actions:
`ReleaseSession` clears app data and releases, `DeleteManager` follows, and
libcoap may call the handlers in between and afterwards.

`CallbackOps` lists what the application does from inside callbacks.
`removeSelf` and `replaceSelf` delete the handling that is being called; the
code does not guard against them: after either, `AckHandler` asks `isFinished()`
of a deleted object (`SendersManagerHandlerWrapper.cc:95`). The runs and
`SafeReentry` in the proofs leave these two out. `isFinished` on a
destroyed object may answer anything.

Three comments of the headers say otherwise than the code that the actions
follow: a `send` that answers false keeps the handling (`SendersManager.h:45`
says it is destroyed; `SendFails`), what `onAck` answers does not reach libcoap
(`Handling.h:52`; `AckReturns`), and the default handling's `isFinished`
removes the handling registered under the token (`SendersManager.h:81` says it
has no effect; `AckReturns`).

Not modelled: `removeSession` from inside a callback of that Session, which
leaves `AckHandler` in a deleted manager, and calls back into the manager from
`readyDestroyed`.

### ResourceServer

One path suffices because resources on different paths share nothing but the
map; `UnregisterResource` is also what `~ResourceManager` does for each path.
`Next` groups the actions by who calls them: `ResourceOperations` and
`ResourceManagerOperations` (the application), `Requests` and `ClientSessions`
(libcoap). `life` is who owns each `Resource`; `m_resourceInterface` the codes it can
answer; `request` the `onRequest` on the stack. `alive`, `ref`, `observers`,
`dirty` and `queued` are libcoap's sessions, reference counts and subscriptions:
a reference for each observer and each confirmable notification waiting for its
ACK, and a session nobody refers to may be reclaimed. `Owning` is the
difference between the four callbacks: `getRequestCallback` builds
`Session(session, false)`, the other three pass the raw pointer, from which an
owning `Session` is converted, whose destructor clears app data and releases.
A client whose session was reclaimed under an observer is not followed any
further. An application that unregisters a resource from that resource's own
`onRequest`, as `ResourceManager.h:55` asks, deletes the interface whose code is
running: the operation is in the model (`"unregister"` in `CallbackOps`),
`DeleteServed` with `ResourceServer_callee.cfg` shows the deletion, and the
other configurations leave it out, so that `RegisteredOnce` is about removals
from elsewhere. The history variable `wrote` remembers which sessions served an
owning callback, so that the exactness of the count can be stated for the others.

### ContextIo

`kind` is the class of the context: what a client does with sessions a server
does with endpoints, so `m_sessions` is `m_sessions` of the one and
`m_endpoints` of the other. Each thread has a stack of frames: the library
calls it is in and the application's event callbacks they led to. `m_isBusy`,
`m_eventHandling`, `m_resourceManager` and `m_persistEnable` are the members of
that name, `app_data` says whether libcoap's context still points at the C++
one, and `persisting` whether libcoap's persistence runs. `sessionLife` and
`handlerLife` follow each `Session` (or `EndPoint`) and `EventHandling` object
from its making to its deletion, so that the order of destruction can be
observed.

There is no lock, so the steps are as small as the code makes visible: in
`ioProcess`, `IoProcess` is the look at `isReady()`, `EnterIo` the write of
`m_isBusy` with the call of `coap_io_process`, `LeaveIo` its return and the
other write. `isioPending` processes I/O too (`coap_io_pending`), and neither
looks at the map nor touches the flag: `IsIoPending` and `PendingReturns`.
`removeSession` and `removeEndPoint` are two steps, as libcoap may
report an event from the delete that precedes the erase. The destructor waits;
a client's goes on at `WaitOver`, a server's deletes its resource manager
(`DeleteResourceManager`) and stops persistence (`StopPersist`). Both delete the
sessions or endpoints one by one (`DeleteSession`, `SessionDeleted`, with events
in between), in the order of the keys: `cursor` is where the loop is, and
callbacks may change the map ahead of it or behind. They then clear the map and libcoap's app data (`FreeContext`) and free the
libcoap context and the event handling (`ContextFreed`). `Event` is
`EventHandling::onEvent`, wherever libcoap runs.

`DestroyDuring` says in which calls other threads may be when one starts the
destructor: in the runs only in `coap_io_process` (a callback included), which
is the part the flag covers. With the step between `isReady()` and the flag
(`context_race`), with `isioPending` (`ContextIo_pending.cfg`), or with a second
thread in `ioProcess`, which shares the one flag (`ContextIo_two_io.cfg`),
`ContextUndisturbed` fails.

`CallbackOps` is what the application does from event callbacks, `LateOps` what
it does from those that the destructor's loop leads to. In the safety run
callbacks add, remove, switch persistence and poll `isioPending`, and those of
the loop remove. One that adds there can do so behind `cursor`, and the object
is never deleted (`ContextIo_late.cfg`, `AllReleased`); polls and switches of
persistence from the loop are not checked. The runs leave out `replaceHandler`
(deletes the object whose function runs), `removeClosing` (a second removal of
what is being removed, by `removeSession` or by the loop), `ioProcess` (nested,
it clears the outer call's flag) and `destroy` (waits for itself); the code
guards against none of them.
`RestartMayFail` is `FALSE` in the runs: when `enablePersist(true)` fails while
persistence runs, the flag is cleared (`ContextServer.cc:45`) and the destructor
does not stop it.

`m_isBusy` is not atomic. A build that never reads it again stays in the wait
for ever, which is a stuttering step here; nothing is claimed about the wait's
end.

### PduBuild

`m_rawPdu` is what libcoap's pdu holds, `wrapped` says which pdus have a wrapper
now and `m_payload` is that wrapper's member. Wrappers come and go while the pdu
stays: the request an application built and sent is wrapped again by
`NackHandler`. libcoap's part is as the repository's tests show it: options are
refused once there is data (`tst_Pdu.cc:230`), an option that is there already is
passed over (`tst_Pdu.cc:193`), data is added once (`tst_Pdu.cc:221`).

An `Options` object is the sequence of its nodes, in the order of insertion.
`AddOptions` takes it by value (`Copied`), has libcoap sort it and write what
the pdu does not hold yet (`WithOptions`), and destroys the copy. Sorting and
writing are one operator, which says of each number whether it is written: the
nodes before it in that order, and the options that are there, decide whether it fits.
`Pdu::addOptions` passes libcoap a copy of the list's head, so that the
destructor frees from where the old head ended up: `spilled` collects the nodes
that sorting put before it (`Unreached`). The note at `Pdu.h:120` says that
options may be added in any order, as `src/examples/client.cc:101` does:
`NothingSpilled` with `PduBuild_options.cfg` shows that nodes are then lost, and
no property that the code keeps is about them.
`Options::insert` keeps both of two nodes of one number
(`Options.h:54` says it replaces the old one), and libcoap writes the first.

`setPayload` is one action for each path: `SetPayloadRefused`, `SetPayload` (the
pdu has a Content-Format), and `SetRequestPayload` and `SetResponsePayload`
(it has none), which take opposite branches on what `addOptions` answers. The
history variables `told` and `refused` remember what `setPayload` answered.

`MaxSize` gives each pdu a number of places; an option or a payload takes one.
`coap_add_data` fails in a full pdu, and `setPayload` says true all the same
(`RequestPdu.cc:45`): `AcceptedIsWritten` with `PduBuild_full.cfg` shows it, and
`PayloadIsWritten` says that there is no other way to lose the payload. Nor does
`setPayload` compare formats: any Content-Format in the message will do
(`FormatIsPayloads` with `PduBuild_format.cfg`), and `DataHasFormat` says that
there is one. A payload is a value here: that `m_payload` refers to the caller's
buffer is not modelled.

### Bytes, BinaryValue and Binary

`object` holds `m_rawData` and `m_owned` of each object of either class, `view`
the pointer of each view, `heap` the bytes of each `coap_binary_t`: those in
`Memory` belong to libcoap, the others are allocated by the library. The two
classes differ in one function: `Binary`'s copy constructor takes the pointer of
a temporary deep copy, which frees the block at the end of the full expression
(`Binary.h:23`), where `BinaryConst` swaps with the copy. `CopyConstructor` has
both; `Copied` names the objects that are copy-constructed, so that one run
checks everything else and another shows what that constructor does.
A block that was freed is allocated again only when nothing refers to it: a
pointer to a free block is thus recognisable as dangling, which a reused
address would hide.

The application keeps what a view refers to (`Unviewed`): the classes of views
are documented as references. `data()` gives both classes' bytes to write to,
which is `Write`. Operations that throw change nothing and are not actions.

`BinaryValue` has no blocks and no owners: an object is its bytes, or an alias
of libcoap's memory, or was moved from. `ValueOf` is the refinement mapping, and
`ValueSpec` says that every operation looks from outside as it would if the
objects shared nothing.

`Bytes` translates `operator<`, `operator==`, `toUInt64`, `Encoder` and
`Decoder` for bytes of any `Radix` and integers of any `Width`; `Binary` applies
them to whatever its objects hold. The shifts of the code are powers of `Radix`,
and everything that the code repeats for each byte is a recursive function whose
domain ends where the width does.

### BlockTransfer

`cache` is the application data of libcoap's cache entries, found by session and
resource; `heap` the blocks in each buffer; `reader` the `BlockTransferReader`
of the request that is handled, one at a time, as requests come from
`ioProcess`. Lengths and offsets count blocks, and a block's content is the body
it belongs to, so that a body put together from two is recognisable. Its
constructor is `FirstBlock`, `LaterBlock`, `EmptyRequest` (no payload: the entry
is left without a body) or `BlockWithoutEntry` (it throws);
`read()` is `ReadBody`, which takes the body from the entry (`Take`) or copies a
request that is not a transfer (`CopyRequest`).

A client sends a block, waits for the answer, and sends the next one; it sends
the block again when the answer is lost, and may give up and send another body.
`handed` is what the application holds until it frees it (`Release`), `lost`
what was in the entries of a session that ended: libcoap frees the entries, and
their application data has no release function
(`BlockTransferReader.cc:104`).

The network may keep copies of what was sent (`late`, at most `MaxLate`) and
deliver them at any later time, as often as it likes. Two things then happen
that `disturbed` remembers for an entry, until the client's own next first
block. A last block that is repeated after `read()` took the body starts a body
of which only that block is written, complete for `isBlockTransferComplete`
(`EveryBodyIsWhole` with `BlockTransfer_repeated.cfg`, where the network keeps
nothing: a lost answer is enough). And a first block that comes late deletes the
blocks that were answered (`EveryAnswerIsKept` with `BlockTransfer_late.cfg`).
`BodyIsWhole` and `AnsweredIsKept` are about bodies whose blocks came in turn
(`InTurn`), repeated or not; `BuffersOwnedOnce` holds whatever arrives.

### LogLock

A thread's stack holds its call of `Log`, and over it the application's handler.
`logMutex` is the thread that holds the mutex. The mutex is held while the
handler runs, and it is not recursive: a handler that calls `Log` waits for
itself, so that `HandlerOps`, what happens in a handler, is `LibcoapLogs` only in
the run. (`Log.h:36` calls the class thread safe and names no exception.)

`LibcoapLogs` is a message that does not go through `Log::Logging`: libcoap's
own, or the wrapper's, which uses libcoap's macros (`coap_log_err` at
`Pdu/ResponsePdu.cc:48`, for one). It reaches the handler without the mutex, in
any thread and at any time, also inside a handler. The assignment of the
`std::function` takes two steps for that reason. Such a handler may be replaced
while it runs: `HandlerIsSet` with `LogLock_race.cfg` shows it.
`HandlerUndisturbed` is what the mutex does achieve, for the handlers that
`Logging` runs (`RunsUnder`), with all those messages around them. The look at
the function and its call (`Log.cc:23-24`) are one step.

## Runs

| Run | Shows | Distinct states |
|---|---|---|
| `senders_safety` | `TypeOK`, `OwnedOnce`, `CalleeAlive`, `NoCallbackWhileClosing`, `FinishedIsForgotten`, `RightHandlingCalled` and the refinement `LifecycleSpec`, with every peer behaviour, both message types, failing sends and safe re-entrance | 182,806 |
| `senders_liveness` | `RequestsEnd`: a one-shot handling of a confirmable request is destroyed in the end | 51,576 |
| `server_safety` | `TypeOK`, `GetKeepsCount`, `AppDataOnlyInRequest`, `ObserversAreServed`, `RegisteredOnce`, through observation, notification, errors and removal of resources | 36,420 |
| `server_owning` | violated: `HoldersHaveSession` fails once a client that observes also PUTs | |
| `context_safety` | `TypeOK`, `ContextUndisturbed`, `HandlerAlive`, `SessionsOwned`, `ServerStopsFirst`, `QuietWhileFreeing`, `AllReleased`, for a client and a server: one thread calls the context, callbacks add and remove sessions or endpoints, switch persistence and poll `isioPending`, and another thread destroys it, possibly during `coap_io_process`, with callbacks of its loop that remove | 40,560 |
| `context_race` | violated: `ContextUndisturbed` fails when the destructor's wait passes between `isReady()` and `m_isBusy = true` (`ContextClient.cc:18` says the wait is there to prevent it) | |
| `pdu_safety` | `TypeOK`, `PayloadIsWritten`, `PayloadIsReadBack`, `DataHasFormat`, `PayloadOnce`, for messages of both kinds and of two sizes built through any wrappers, formats and lists of options | 186,960 |
| `pdu_response` | violated: `FirstPayloadIsAccepted` fails on a response without a Content-Format, whose `setPayload` adds the option, answers false and writes nothing (`ResponsePdu.h:37`) | |
| `binary_safety` | `TypeOK`, `OwnedOnce`, `MemoryIsLibcoaps`, `ViewsAlive`, `TokensAreOrdered`, `IntegersComeBack` and the refinement `ValueSpec`, for objects of both classes and a view, without copy-constructed `Binary` objects | 15,552 |
| `binary_copy` | violated: `OwnedOnce` fails when a `Binary` is copy-constructed | |
| `block_safety` | `TypeOK`, `BodyIsWhole`, `BuffersOwnedOnce`, `AnsweredIsKept`, with two clients that repeat blocks, give up, and lose their sessions, and a network that duplicates and delays | 2,519,517 |
| `log_safety` | `TypeOK`, `HandlerUndisturbed` and, under fairness, `CallsReturn`, with two threads, and messages without the mutex in both | 14,846 |

Ten more configurations end with a counterexample, and show why the properties
above say no more than they do. `PROJECT.json` does not list them; each is run as
`tlc -config <file> MC<module>`.

| Configuration | Violated | Because |
|---|---|---|
| `ResourceServer_callee` | `DeleteServed` | a resource that unregisters itself on a DELETE, as `ResourceManager.h:55` says, is deleted under its `onRequest` |
| `ContextIo_pending` | `ContextUndisturbed` | `isioPending` processes I/O without `m_isBusy` |
| `ContextIo_two_io` | `ContextUndisturbed` | the first of two threads to leave `ioProcess` clears the flag of both |
| `ContextIo_late` | `AllReleased` | what a callback of the destructor's loop adds may be behind the loop (`ContextClient.cc:19`: all session objects are deleted) |
| `PduBuild_full` | `AcceptedIsWritten` | `setPayload` answers true when the payload has no room (`RequestPdu.h:41`) |
| `PduBuild_format` | `FormatIsPayloads` | any Content-Format is taken for the payload's (`RequestPdu.cc:37`) |
| `PduBuild_options` | `NothingSpilled` | `addOptions` loses the nodes sorted before the old head (`Pdu.h:120`) |
| `BlockTransfer_repeated` | `EveryBodyIsWhole` | a last block repeated after `read()` is handed over as a body (`BlockTransferReader.h:46`) |
| `BlockTransfer_late` | `EveryAnswerIsKept` | a first block that comes late deletes blocks that were answered (`BlockTransferReader.cc:61`) |
| `LogLock_race` | `HandlerIsSet` | messages that do not go through `Logging` run the handler while it is replaced (`Log.h:36`) |

Each property of a passing run has a mutant: a variant of one definition with a
plausible mistake (marked "Variant" in the module) under which TLC finds that
property violated.

### Bounds

Senders: two tokens and five handlings. Two handlings share the first token
(duplicates and overtaken registrations), one has the second; the built-in
default and its replacement make defaults meet registered handlings of the same
token. One-shot, repeating and undecided handlings occur, and the second token
is observed, so that answers repeat. `MaxInFlight` is 2 in the safety run, so
that two copies of a request with one token are in libcoap's queue and both are
reported; it is 1 in the liveness run. A handling object is handed over once, as
a `unique_ptr` is, so the number of handlings also bounds the length of a run;
the properties are about at most three handlings at a time (the callee, another
holder of its token, the default).

Server: two clients, two resources that compete for the path, two request codes
(one owning, one not; the other two owning codes are handled by the same text),
one unacknowledged notification per client. libcoap's own counters are not
otherwise bounded: `ref` is at most observers plus notifications.

Context: a client and a server in one run; two threads, of which one calls the
context and the other can only destroy it: what the class is used like, as libcoap's context is not to be
called from two threads. Two keys and three Session objects let a key be used
again; two event handlings let one be replaced. `MaxDepth` 6 allows an event in
a removal in an event in `coap_io_process`, the deepest stack the three
sessions make interesting. In `ContextIo_two_io` two threads call the context.

Messages: a request and a response being built, a received message with any
contents, one option besides the Content-Format, two values and two bodies, and
lists of up to two options in any order. The request has two places, so that it
is full with both options; the response three, which a full message takes. A
wrapper may be dropped and made again at any time.

Binary: two objects of each class, so that each can be assigned, moved and
copied to another one; one view; as many blocks as the objects can own and one
for the copy that an assignment makes first; one structure of libcoap's. The
bytes are `<<>>`, `<<0, 1>>` and `<<1, 0>>`: of different lengths, and of one length,
where `memcmp` decides.
With `Radix` 4 and `Width` 2 every integer (16 of them) is encoded and decoded.

Blocks: two clients of one resource (entries of different resources are as
separate as those of different clients); an empty body, one of one block and one
of three, which has a first, a middle and a last one; two buffers, so that both
entries, or an entry and the application, have one; and one copy at a time in
the network, which delivers it any number of times.

Log: two threads, two handlers, two levels, and
`MaxCalls` 5 calls and messages, which lets every two calls overlap and follow
one another.

Deadlock is not checked by TLC: a context that is gone stops, a closed Session
stops, and so does a server whose clients' sessions were reclaimed under their
observers and whose resources are all deleted; the log stops at `MaxCalls`
(`CallsReturn` shows that it stops in no call), and objects and clients can run
out of blocks and buffers.

### Fairness

`Fairness` in `SendersManager` assumes that a callback of the application
returns (`AckReturns`, `NackReturns`) and that `~Session` runs to its end
(`DeleteManager`): weak fairness, as each is the continuation of a running
function. For each token `Conclude` is strongly fair: the application keeps
calling `ioProcess`, and libcoap counts the retransmissions of each confirmable
request, so that it is answered or given up even if other callbacks, which
disable it while they run, come in between again and again. Nothing is assumed
of peers or of packets arriving, nor of the application's own calls.

`LogLock` has weak fairness for each thread's `Step`: a thread that can go on
does, and the handler returns, as the application's callbacks do elsewhere.
`std::mutex` promises no order; `MaxCalls` bounds how often others can take it
first, so that weak fairness is enough, and `CallsReturn` says that no call
is stuck, not that a thread cannot be overtaken for ever.

`RequestsEnd` holds where answers come on the ACK. With separate responses it
does not: an empty ACK ends libcoap's retransmissions, and when the response
that should follow is lost, no callback ever reports it.

## Proofs

`SendersManagerProofs` proves, for every set of tokens and handlings, and every
peer:

* `TypeCorrect`, `Ownership` and `ClosingIsQuiet`: `TypeOK`, `OwnedOnce` and
  `NoCallbackWhileClosing` are invariants, without any assumption on what
  callbacks do.
* `CalleeSurvives` and `FinishedAreForgotten`: `CalleeAlive` and
  `FinishedIsForgotten` are invariants under `SafeReentry`, which says that
  callbacks neither remove nor replace the handling being called. That is the
  assumption the code leaves to its users.
* `ImplementsLifecycle`: under `SafeReentry`, `SendersManager` implements
  `HandlingLifecycle`.

`OwnedOnce` is inductive together with `TypeOK`: `StepEffect` reduces the
sixteen kinds of steps to what they do to the map, the default and `life`, and
the invariant is proved from those effects. `NoCallbackWhileClosing` needs to
know that libcoap can find a Session exactly while it is open
(`AppDataWhileOpen`). `CalleeAlive` is not inductive: that the callee is managed
survives other calls only because it still is where its lookup found it
(`CalleeWhereFound`, under the token or as the default), which is what
`SafeReentry` protects; from that and `OwnedOnce` it follows. `FinishedIsForgotten`
uses the same fact on return: the token that is removed is the callee's. The
refinement maps a step to the abstract call, return or transfer, or to a
stuttering step.

`NoRequestIsForgotten` is the safety part of `RequestsEnd`: for an application
that keeps to `SafeReentry`, when all requests are confirmable, sends do not fail
and the peers' answers neither come separately nor with another token
(`ReliableRequests`, the assumptions of the run `senders_liveness`), a one-shot
handling that an open session's manager has is being called, or its request is
in libcoap's queue (`NoneForgotten`). Whatever leaves the queue is thus reported
to the handling that waits for it, with any number of requests in flight and
callbacks nested to any depth.

`RightOneCalled` proves the action property `RightHandlingCalled`: it needs
`TypeOK` and `OwnedOnce`, since a managed handling that is not the default is in
the map under its own token exactly because it is owned once.

`ResourceServerProofs` proves, for every set of clients, resources and codes:

* `TypeCorrect` and `Registration`: `TypeOK` and `RegisteredOnce`.
* `ObserversServed`: `ObserversAreServed`, which is inductive with `TypeOK`:
  a resource that loses its registration loses its observers
  in the same step, and interfaces are only added.
* `TemporarySession`: `AppDataOnlyInRequest`, from `AppDataOwned`, which adds
  that the app data belongs to the request on the stack and only if it owns.
* `CountIsExact`: `GetKeepsCount` and `GetKeepsSession`, without a bound on the
  notifications. The inductive invariant is `CountInv`: a client that has not
  served an owning callback has one reference for each observation and each
  queued notification, is alive if it has any, and so is the client whose
  request runs.

`ContextIoProofs` proves, for every set of threads, keys, objects and event
handlings, and any depth of calls:

* `TypeCorrect`: `TypeOK`.
* `Undisturbed` and `QuietInTheEnd`: `ContextUndisturbed` and
  `QuietWhileFreeing`, for a `Disciplined` application: one IO thread, a
  destructor that starts only while that thread is outside the library or in
  `coap_io_process`, and callbacks that neither nest `ioProcess` nor destroy the
  context; they may poll `isioPending`, but not from the destructor's loop.
  `context_race`, `ContextIo_pending` and `ContextIo_two_io` show that the first
  two parts are needed, and why `isioPending` is not in the second.
* `HandlerStays`: `HandlerAlive`, if callbacks moreover do not replace the event
  handling (`KeepsHandler`).

The first lemmas say what `Push`, `Pop` and `Continue` do to a stack. The
inductive invariant is `CalmInv`: the calls of `ioProcess` and of the destructor
are the outermost frames of their stacks (`InPlace`), at most one thread
destroys (`OneDestroys`), a thread between `isReady()` and the flag found the
context open, and one in `coap_io_process` has the flag up (`IoIsBusy`). `isioPending`
raises no flag, but from a callback it is under a call that does: `PollsBefore`
says that nobody who destroys the context is in it. The
wait thus ends with nobody in `coap_io_process`, and nobody can enter it any
more. `HandlerStays` needs that no other thread is in the library at all when
the handling is deleted: `OutsideWhenClosing` says that once the context is
closing the threads in it are the destroying one and those in
`coap_io_process`, and `HandlerInv` that an event reaches the registered object.

`ContextReleaseProofs` goes on from there, for the same sets and an application
that is `Disciplined`:

* `ServerStops`: `ServerStopsFirst`, unless persistence that runs fails to start
  again (`RestartMayFail`) or a callback of the loop switches it. `StopsInOrder`
  follows the destructor through its steps and adds that `persisting` is never true of a server whose
  `m_persistEnable` is not.
* `OneOwner` and `NothingLeft`: `SessionsOwned` and `AllReleased`, unless a
  callback removes what is being removed already, or adds while the destructor's
  loop runs (`DeletesOnce`); `ContextIo_late` shows the second. Callbacks of the
  loop may remove. The inductive invariant is `SessionInv`: besides the parts of
  `SessionsOwned`, an entry whose object is no longer open is being deleted, by
  a frame that removes that key or by the loop, which has come to it; each such
  key is in one frame only, however deep events are nested; the loop
  (`LoopInv`) has deleted what it is past, is at an entry that is there, and no
  removal is behind it; and the destructor that is past its loop leaves an empty
  map.

All three rest on `Quiet`: once the destructor has passed its wait, nobody but
the callbacks of its own loop calls the context.

`BinaryProofs` proves, for every set of objects, views, blocks and strings:

* `TypeCorrect`: `TypeOK`.
* `OneOwner`, `MemoryStays`, `ViewsStayAlive`: `OwnedOnce`, `MemoryIsLibcoaps`
  and `ViewsAlive`, when no `Binary` is copy-constructed (`NoBinaryCopied`; the
  run `binary_copy` shows why). They are inductive together, with
  `RefersToMemory`: an object that does not own its bytes refers to libcoap's.
* `ObjectsAreValues`: under the same assumption, `Binary` implements
  `BinaryValue`. A step that allocates, swaps or frees changes the bytes that
  `ValueOf` reads through one object only because blocks have one owner.
* `TotalOrder`: `TokensAreOrdered`: of two different tokens one is less, and
  `operator<` is transitive (`Transitivity`). Two different strings of one length differ
  first somewhere (`FirstDifference`), by the least number principle.
* `IntegersRoundTrip`: `IntegersComeBack`, for any radix and any width. After
  k bytes have been shifted out the rest is less than the power of the bytes that
  are left (`ShiftedOut`), so `Encoder` writes enough of them, and `Decoder`,
  which reads the most significant byte first, holds after k bytes what the
  integer was before the last n - k of them were shifted out (`DecodeEncode`).
  `toUInt64` adds the same bytes up from the left: its partial sum is `Decoder`'s
  value times the power of the bytes that are missing (`SumIsDecode`).

`BlockTransferProofs` proves, for every set of clients, bodies of any lengths,
and buffers:

* `TypeCorrect`: `TypeOK`.
* `OneOwner`: `BuffersOwnedOnce`: `Ownership` says for each buffer that it is
  free or has one holder.
* `WholeBodies` and `AnswersHold`: `BodyIsWhole` and `AnsweredIsKept`. That a body
  is whole follows from where its client is: `Progress` says that, while no block
  came out of turn, the entry has the blocks that were answered
  (`KeptForSenders`), that in the handler it has the request's block too, and
  that `read()` takes a body at its last block only (`KeptInHandler`), and that
  a block in the handler is none that its client has not come to
  (`HandlerInTurn`), which is where late copies come in.

None of them assumes anything of clients, the network or the application.

`LogLockProofs` proves, for every set of threads, handlers and levels:

* `TypeCorrect`: `TypeOK`, whatever handlers call. `Frames` adds that a handler
  runs over a call of `Logging`, unless libcoap called it, and that only the
  holder of the mutex is past its `Lock`.
* `HandlerStays`: `HandlerUndisturbed`, whatever handlers call and whatever is
  logged without the mutex: a handler that calls `Log` is stuck, not replaced.
  `HandlersSettled` says of each frame what it knows of the handler and the
  level.
* `CallsGoOn`: if the handler calls nothing of `Log` (`HandlerOps` has at most
  `LibcoapLogs`), a thread that is in a call can take a step, or waits for another thread that can
  (`NobodyStuck`): the safety part of `CallsReturn`. The inductive invariant
  `Returnable` says that only handlers are above a call, and that whoever holds
  the mutex does so in the oldest call of its stack, so that it is not waiting.
* `NobodyWakesIt`: why the assumption is needed. A thread that waits for the
  mutex which it holds itself, as a handler that calls `Log` does, keeps waiting
  whatever it and the others do.

`PduBuildProofs` proves, for every set of pdus, numbers, values and payloads,
and lists of any length:

* `TypeCorrect`: `TypeOK`.
* `CopiedIsOptions`: the copy of a list, node by node, is that list.
* `PayloadStays`, `PayloadComesBack`, `FormatComesWithData`, `AcceptedOnce`:
  `PayloadIsWritten`, `PayloadIsReadBack`, `DataHasFormat` and `PayloadOnce`, for
  any sizes and formats. The inductive invariant `Kept` adds
  `DataIsTold`: a pdu that the program builds has data only once `setPayload`
  answered true; otherwise a new wrapper could be around data that it does not
  show, and write a second payload.

Facts that need induction are proved from the well-foundedness of the natural
numbers (`WFMin`), as the library's induction theorems have operators for
parameters. `FirstDifference` and `CopiedIsOptions` look at a least
counterexample: the recursive function of `Copied` exists as the function of the
list's prefixes is one, and a least number of nodes for which it is not the
prefix cannot be. The integers of `Bytes` need more of it, so `Counting` states
induction for sets (a set with 0, and with each number's successor up to N, has
0 to N), and `StepwiseExists` derives from it that a function which is defined by
its first value and a step exists.

The constants' assumptions are named `ConstantsAssumption` (and
`RadixAssumption` in `Bytes`); the runs evaluate them.

The assumptions of the theorems (`SafeReentry`, `Disciplined` and the like) are
about constants that say what the application does, and each passing run's values
satisfy those of the theorems about its properties.

Model-checked only: `RequestsEnd` and `CallsReturn`. Liveness under fairness is
beyond TLAPS; `NoRequestIsForgotten` and `CallsGoOn` prove the parts of them that
are safety properties: the step that is to happen can happen, and fairness has it
taken.

## Plan

The components that keep state of their own are modelled; every invariant and
action property of the passing runs and the refinements are proved for every
value of the constants, and the two liveness properties are proved as far as they
are safety. What the models leave open:

1. The hazards that `PROJECT.json` lists without a property. Each has its
   reason there: the code promises nothing to check (a dropped answer to a
   request that is not confirmable), or libcoap's own state decides (a context
   destroyed in its own callback).
2. `OptFilter` and the static handshake functions would need two contexts, on
   two threads, in one module.

## Not modelled

* Getters and setters that forward to libcoap (session and ACK timeouts,
  retransmission, NSTART, addresses, pdu header fields), names of reasons and
  levels, enumerations (`Information`), exception classes, and the certificate
  and protocol options of libcoap keep no state that a property could be about.
* `Address` owns one structure through copies and moves as `BinaryConst` does.
* `Option` is a copy made in a constructor and never changed.
* `OptFilter` is one static variable that each use fills and reads in one
  expression. Two contexts on two threads race on it inside libcoap's
  structure; the wrapper takes no step there that a model could follow.
* The handshake functions of `ContextClient` and `ContextServer` are static: a
  second context's registration replaces the first one's. Nothing says what two
  contexts may expect, and the models have one.
* A temporary `Session` builds a `SendersManager` of its own, which goes with it;
  a request sent through one in an event callback loses its handling. The models
  have temporary Sessions for what they do to the session they wrap only.
* The parsing of URIs, `Binary::toHexString` and the contents of messages are
  conversions that no property here is about.
* Tests and examples were read for how the classes are used.
