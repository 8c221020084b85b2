# TLA+ specifications of njs-modbus

These modules model njs-modbus, a Modbus master and slave library for Node.js, as it is in
`src/src/`: the request engines of both sides, the function codes, the framing, the timers, the
event emitter and the transports. TLC checks them on small instances and TLAPS proves the main
invariants for every instance. Line numbers refer to the source files; `PROJECT.json` maps every
definition to the lines it models.

## 1. The system

A **master** sends one request per call of a public method, over one connection, and matches
what comes back with what is waiting. A **slave** listens on many connections and answers the
requests of all of them from a set of units (address models). Between the two are a **physical
layer** (TCP, TLS, UDP, serial), one **pipeline** per connection, and a **protocol layer** (TCP,
RTU or ASCII framing) per pipeline. All of it runs in one JavaScript thread: the hard behaviours
come from callbacks that may run either later or before the call that was given them returns.

### 1.1 Components

| component | state | operations | what makes it correct |
|---|---|---|---|
| `ModbusMaster` (`master/master.ts`) | parallel arrays `_queue*`, `_draining`, `_pendingExchanges`, `_transactionId`, `_destroyed` | `_send`, `_processNext`/`_drain`, `_exchange`, `_runExchange`, `onFraming`/`onFrameError` handlers, timer and write callbacks, `open`, `close`, `destroy` | every request is answered exactly once; only one exchange at a time where there are no transaction ids; no wakeup of the queue is lost; the strategies drop only what they say; a response answers its own request |
| `MasterSession` (`master/master-session.ts`) | `_waiters: key -> waiter` | `start`, `stop`, `stopAll`, `handleFrame`, `handleError` | a waiter belongs to exactly the unsettled exchange registered under its key |
| `ModbusSlave` (`slave/slave.ts`) | units, one frame queue (`_queue`), `_unitWriteQueues` (in flight, pending), the flush flags, custom function codes, `_destroyed` | frame enqueue and drain, gates, unit dispatch, broadcast, write lock, `add`/`remove`, `open`/`close`/`destroy` | overlapping writes of a unit never run together; no frame or write is lost; replies leave in the order the concurrency option promises |
| Authorizer (`utils/access-authorizer.ts`) | none | `checkUnit`, `checkAddress` (many ranges), `checkRuntime`, each synchronous or by promise | one verdict per check |
| `TimerHeap` (`utils/timer-heap.ts`) | direct timers, heap arrays, lazy deletions, one `setTimeout` | `add`, `remove`, `destroy`, the tick | a callback runs once, not before its deadline, never after removal |
| `CompactEventEmitter` (`utils/compact-event.ts`) | one listener or a list per event | `on`, `once`, `off`, `emit` | each listener sees each event once |
| ADU fingerprint (`utils/adu-fingerprint.ts`) | none | `generateRequestFingerprint` | equal keys only for equal requests |
| TCP / RTU / ASCII framing (`layers/protocol/*`) | residual bytes, decoding state, timers t1.5 and t3.5, custom function codes | `decode`, `encode`, `flush` | the same frames however the bytes are split |
| Pipeline adapter (`layers/abstract-pipeline-adapter.ts`) | one pipeline, cleanup functions | wiring of `data`, `close`, framing events | after a pipeline ends nothing of it is delivered |
| TCP, TLS, UDP clients and servers (`plugins/*`) | open state, pipelines, per-IP counts, idle timers | `open`, `close`, connection and close handlers | each `open`/`close` is answered once; limits hold; nothing leaks over a reopen |
| Serial (`plugins/serial`) | write queue, draining flag, open state | `write`, drain loop, `open`, `close` | one write and drain at a time, in order |
| Function code handlers | none | parsing and building of PDUs | both sides agree on every PDU |
| Checksums, conversions, IP whitelist, types | none | pure functions | reference definitions |

### 1.2 Interactions

* `master.send*` -> authorizer -> queue -> `pipeline.write`; the pipeline's `data` event ->
  `decode` -> `onFraming` -> `session.handleFrame` -> the request's callback -> `next()` of the
  queue, all on one call stack.
* `TimerHeap` -> the exchange's timeout -> `session.stop` -> callback -> `next()`.
* Slave: `data` -> `decode` -> gates -> frame queue -> handler of the unit or of each unit
  (through the write lock) -> `encode` -> `pipeline.write`.
* `destroy()` and the pipeline's `close` cut all of these at any point between two turns.

### 1.3 What is hard

Callbacks that run before or after the call returns (re-entrancy of `next()`, of the write-lock
flush and of the frame queue); promises of hooks that settle after `destroy()`; late, duplicate
and missing responses; ids that wrap and are still in use; the flush of pending writes while a
handler of another unit completes; counters taken before an asynchronous fan-out (broadcast);
reopening a server while its connections close. The full list, each at its line, is under
`hazards` in `PROJECT.json`.

## 2. Modules

| module | models |
|---|---|
| `MasterContract` | abstract: what a caller and the bus may rely on |
| `ModbusMaster` | master request engine with its session; implements `MasterContract` |
| `RangeLock` | abstract: a write waits, holds, ends; conflicting writes never hold together |
| `SlaveWriteLock` | write-range lock of the slave with its re-entrant flush; implements `RangeLock` |
| `ModbusSlave` | gates, frame queue, dispatch, broadcast and replies of the slave |
| `AccessAuthorizer` | `runCheckAddress` over many ranges, verdicts at once and late |
| `FunctionCodes` | one request through the master's methods and the slave's handlers, byte by byte |
| `DeviceIdentification` | the walk over the identification table, function code 43/14 |
| `Framing` | TCP, RTU and ASCII: encoding and the search for frames in chunks |
| `Timers` | abstract: timers fire once due, in order where they share a native timer |
| `TimerHeap` | direct timers, the heap, the migration; implements `Timers` |
| `CompactEvent` | the event emitter with listeners that call it |
| `Transport` | `open`, `close`, connections, limits and idle timers of the physical layers |
| `SerialPipeline` | write queue and drain cycles of the serial pipeline |
| `MasterProofs`, `SlaveLockProofs`, `SlaveProofs`, `AuthorizerProofs`, `FramingProofs` | theorems about the module they are named for |
| `FunctionCodeProofs` | theorems about `FunctionCodes` and `DeviceIdentification` |
| `TransportProofs` | theorems about `Transport` and `SerialPipeline` |
| `UtilsProofs` | theorems about `CompactEvent` and `TimerHeap` |
| `MCModbusMaster`, `MCModbusSlave`, `MCSlaveWriteLock` | instances for TLC |
| `MCParts` | instance for TLC of the seven parts beside the engines, one moving at a time |

The engines meet the other parts at narrow places, and each side has been modelled with what the
other does there: `ModbusMaster` takes any frame at any time (`Framing` says which come out of a
stream), its timers fire in any order (`TimerHeap` says which order is possible), and its writes
succeed, fail or stay silent (`SerialPipeline`, `Transport`). What is proved of an engine holds
for each of these.

### 2.1 ModbusMaster

**State.** The fields keep their names. The parallel arrays `_queue*` become the set `queue`
with `ticket`, the number of a request's push: a shift takes the smallest ticket, and dropping
entries and compacting the arrays is removing from the set. An exchange is made once per
request, so the request stands for its exchange id. `armed` holds the timers, `writing` the
write callbacks that are due, `sent` what `pipeline.write` took, `runtime` the `checkRuntime`
promises that have not settled. `FifoKey` (0) is `FIFO_KEY`. `calls`, `result` and `seen` are
what the caller saw and when; no guard reads them but `Rest`.

**Steps.** An action is what one callback does up to the next point where the code decides
again; `looping` and `chunk` say what is still on the JavaScript stack, and every event of the
loop waits for `Idle`. `DrainNext` is one round of `next()`; `DecodeNext` is one frame of the
running `decode()`. So a response that completes a request starts the next one before the rest
of the chunk is looked at, as in the code.

| action | code |
|---|---|
| `Send`, `UnitChecked`, `AddressChecked` | public methods and `_send`, with hooks that answer at once, later, or no |
| `Enqueue`, `DrainNext` | strategies, push, `_drain`, `_processNext` |
| `Exchange`, `RuntimeChecked`, `RunExchange`, `WireExchange` | `_exchange`, `_runExchange`: id, timer, waiter, write |
| `Receive`, `DecodeNext` | a `data` event, framing, `handleFrame`, `handleError` |
| `TimerFires`, `WriteDone` | the timer's and the write's callbacks |
| `Destroy` | `destroy()` |

**Abstractions.** Timers may fire in any order and at any time. The transport may take a write,
report an error at once or later, or never call back. A device may answer a request never, late,
or many times, and noise gives framing errors. Frames are the request they answer; what `decode`
does with bytes is module `Framing`. The user reaches the master through promises, so a
request's callback does not itself call the master.

**Not modelled here:** user listeners that call the master from inside `decode()`; hooks that
throw, reject a unit or address check, or never settle (a rejected check leaves the request
unanswered: a hazard in `PROJECT.json`); a change of authorizer or of the custom function codes
while requests run; `open`/`close`, which pass on to the physical layer (2.10).

### 2.2 SlaveWriteLock

With `queueStrategy: 'concurrent'` and `enableWriteRangeLock`, `_processUnitWrite` lets a write
with address ranges start only when no write in flight on its unit overlaps it; the end of a
write removes it from the list and flushes those that wait.

**State.** `inFlight` and `pending` are the two lists of each `_unitWriteQueues[unit]`, `index`
is `WriteRequest.inFlightIndex` counted from 1, `flushUnit` is the unit of the
`_flushPendingWrites` on the stack (`NoUnit` for `_flushingPending = false`), `again` is
`_pendingFlushPending`, `kept` is `writeIdx`. `pending` leaves out the slots the loop has passed
and not rewritten: the element looked at is `pending[kept + 1]`, starting it removes it, and
truncating the array at the end is then no step. `calling` is the write whose handler the loop
is calling. `reach` says whose writes such a handler completes before it returns: its own, any
of its unit (a model that answers the calls it had kept), or any (a model shared by several
units).

| action | code |
|---|---|
| `Arrive` | `_processUnitWrite` of a write with ranges |
| `HandlerDone`, `RuntimeDone` | the handler's callback and the `checkRuntime` promise in `_executeUnitWrite` |
| `Finish` (`Remove`, `Flush`) | `_onLockedUnitWriteDone`: swap removal, the guard of `_flushPendingWrites` |
| `FlushStart`, `FlushKeep`, `HandlerReturns`, `FlushEnd` | the do-while of `_flushPendingWrites`, a write at a time |
| `Destroy` | `destroy()`: lists emptied, handlers still out |

**Abstractions.** A write is its unit and its set of spans, end exclusive; a broadcast is one
write for each unit, as the lock sees it. A handler called from the event loop that calls back
before it returns does what one that calls back in the next turn does, since nothing of the lock
is on the stack below it; only handlers called by the flush loop need `calling`. `onDone` is
absent in the concurrent mode for a request to one unit, and for a broadcast it only counts.
Each write arrives once; reads and writes without ranges do not touch the lock.

### 2.3 ModbusSlave

**State.** `queue` and `processing` are `_queue.frames` and `_queue.processing`, `units` the
keys of `_units`. The list is a set of frames with `ticket`, the number of a frame's push:
`TakeFirst` takes the frame with the smallest, and clearing or filtering the list removes from
the set. `gate` is where `onFrame` has brought a frame (waiting for the `checkUnit` or the
`checkAddress` promise, passed, refused). `looping` says that `next()` is on the stack, `fan` is
the broadcast whose loop over the units is, with `visiting` (units still to visit), `remaining`
(the counter of `onUnitDone`) and `completed` (the local flag of `next()`). `handling` and
`runtime` hold the handlers and the `checkRuntime` promises that have not answered. `fate` and
`replies` say what became of a frame; `arrival` is history.

| action | code |
|---|---|
| `Arrive`, `GateChecked` | `onFrame` with hooks that answer at once, later, or no; the strategies, the push, the start of `next()` |
| `DrainNext` | one round of `next()`: take a frame and `_processFrame`, or lower the flag |
| `VisitNext` | one round of the loop over the units, and the return to `next()` |
| `HandlerDone`, `RuntimeDone` | `_executeUnitWrite`: reply, `onUnitDone`, the callback of `_processFrame` |
| `AddUnit`, `RemoveUnit`, `Destroy` | the public methods |

**Abstractions.** As above, a handler of one unit that calls back before it returns is one that
calls back in the next turn: `next()` goes on with the next frame in both cases and the flag
stays up in between. Inside the loop of a broadcast the difference matters, so handlers may
answer there. The loop is free to visit the units in any order. With `removals` a handler called
by that loop may call `removeUnit()`; the loop then passes the unit by and the counter never
comes down, so the queue stops for good. The documentation says nothing of it: it is a hazard in
`PROJECT.json`, and `QueueServed` and `EveryFrameServed` leave exactly these slaves out.

**Not modelled for the slave:** handlers that call back twice or throw; hooks that reject or
throw; `destroy()` or `addUnit()` called by a handler before it returns; units added during a
broadcast loop; custom function codes or the authorizer changed while frames are pending; errors
of `pipeline.write`, which only emit an event.

### 2.4 AccessAuthorizer

`runCheckAddress` of a custom function code that declares ranges: `count` of them over all
tables, of which `walked` have been asked for. `pendingChecks` and `denied` are the code's
locals, `promises` the unsettled verdicts, `calls` what the callback was told; `atOnce` says
that the hook may answer without a promise. `AskNow` and `AskLater` are rounds of the two loops,
`Return` their end, `Settle` a fulfilled promise; `Complete` is `onCheckComplete`. Only the
number of the ranges matters, not their table or addresses. `ModbusMaster` and `ModbusSlave`
call the hooks with one range, as every standard function code has.

### 2.5 FunctionCodes

**State.** One request and its response: `fcReq` is what the caller asks, `fcSent` the PDU on
the wire, `fcCall` the handler of the unit's model with its arguments (`Refuse` until one is
called), `fcAnswer` what it answered, `fcFrame` the response, `fcOutcome` how the promise
settles. `Method` and `handleFC` dispatch to one operator for each method and each handler,
under the names of the code.

| action | code |
|---|---|
| `Ask` | a method of the master: the PDU; a broadcast settles once it is written |
| `ForeignRequest` | a PDU of another master, as ours, but shortened, extended or with a byte altered |
| `Dispatch` | `_handleFC*`: length, limits, whether the model has the handler |
| `ModelAnswers`, `ModelFails` | the handler's callback, with lists shorter or longer than asked and numbers wider than their place |
| `Answered` | the response, or one that answers another request, and the checks of the method |

**Abstractions.** Numbers are unbounded where JavaScript's are and cut to 16 bits where the code
writes them (`Wire`, `Word`). Texts of errors are left out. A custom function code has words as
payload. `FunctionCodesAssumption` asks of the arguments only that they are natural numbers and
lists of them; the custom function code leaves the bit of an exception alone and is none the
slave dispatches itself, 43 among them.

### 2.6 DeviceIdentification

The caller asks for a category from an object id on, and again from `nextObjectId` while
`moreFollows`. `handleFC43_14` packs objects into 253 bytes, `readDeviceIdentification` reads
them back. An object is its id and length; its text does not matter, because no length is
computed from it after encoding. The master completes an object only by a second byte
(`Parsed`), so an object of one byte or none swallows what follows and the response is rejected:
`WalkCompletes` says so, and asks for lengths of 2 to 244. A table may hold ids or lengths the
slave refuses.

### 2.7 Framing

**State.** A line is laid out from frames and noise; `frFed` bytes of it have come in. A layer
keeps the end of its input, so `frKeep` is a count (`_residualLen`, `_frameLen`), and a frame
found is its first and last position. `frStatus`, `frExpected`, `frMarker` and `frTimer` are
`_status`, `_expectedLen`, `_t15Marker` and whether `_t35Timer` is armed.

| action | code |
|---|---|
| `Chunk` with `decodeTcp`, `decodeAscii`, `decodeRtu` | `decode()` of a layer, whole, with its fast path |
| `Silence` | the t3.5 timer |

`TcpScan`, `AsciiScan` and `RtuScan` are the loops of `decode()`, as functions of the number of
rounds, and `TcpStep`, `AsciiStep` and `RtuStep` one round, which stays where it is once the loop
has ended. `FrameLength` is the length prediction of RTU, with function codes 43 and a registered one.
`flush()` is the state a line begins in. **Abstractions.** The CRC is ideal: what was sent as a
frame passes, nothing else does; the LRC is the real one. The maxima are 12 to 18 bytes and not
260 to 513, so that lines with noise longer than a frame are short. Gaps of t1.5 are seen by
strict lines only. **Known limits**, of which the properties take account: a bad TCP header
loses the rest of its chunk; without `strictTiming` and without a silence, noise whose function
code predicts a length can hide the frame after it; in strict mode only the last gap is
remembered, so behind noise a gap inside a frame may go unseen (`NoGapInside` looks at frames
before the first noise). `FramingAssumption` says what a line is: its parts have at least a byte
and its frames are as their layer sends them. The header of a TCP frame says its length; on an
ASCII line exactly the frames look like frames, so noise does not; and RTU predicts a frame's
length from as many of its bytes as it takes, saying "need more" before that.

### 2.8 Timers and TimerHeap

**State.** `direct` is `_directTimers` in the Map's order, `heap` the parallel arrays
`_deadlines`, `_ids`, `_seqs`, counted from 1, `shared` when `_timer` is due. `job` is what is
on the stack: a tick or the migration in `add()`; `inCallback` says that `onFire` runs inside
it.

| action | code |
|---|---|
| `Add`, `Migrate` | `add()`, and one round of its migration loop |
| `Take`, `Clear` | `remove()`, `clear()` |
| `DirectFires`, `SharedFires`, `TickFires`, `TickEnds` | the native timers, `_onTick` |
| `CallbackReturns` | the end of `onFire` |

`SiftUp`, `SiftDown`, `Pop`, `TakeOut` are the array operations; a sift moves an entry along the
way of places the loop would go (`WayUp`, `WayDown`), of which the others move one up or down.
`TimerHeap` implements `Timers`
with `own <- direct`, `queue <- heap` as a set: that sifting keeps the order is then what the
refinement says, since `Timers` fires the earliest by definition. `last` tells which timer
fired, so that the refinement does not take one that fires for one removed. **Abstractions.**
Whole milliseconds, so that rounding up what remains of a delay (lines 104 and 251) changes
nothing; native timers fire when due or later, never earlier. Delays are below 2^31 ms: from
there on `_refresh` truncates before it clamps and arms the native timer for the next
millisecond again and again, and a direct timer fires at once, a hazard listed without a
property. A callback may throw in a tick, not inside `add()`, and `remove()` of a timer which
the migration has not reached yet finds nothing in the heap and answers false.

### 2.9 CompactEvent

`listeners` is the list of one event, `walk` the loop of `emit()` or `emitLazy()` with its index
and, for `emit()`, its length. A listener may call `on`, `once`, `off` and `removeAllListeners`
(`Subscribe`, `Unsubscribe`, `RemoveAllListeners`); `dropped` says that the registry has given
up the list the loop still goes through. Not modelled: an `emit` of the same event from its own
listener.

### 2.10 Transport

The physical layers of TCP, TLS, UDP and serial have one life cycle, `_state` with two lists of
pending callbacks, and one kind of bookkeeping of pipelines. `phKind` chooses the layer. TCP,
TLS and UDP clients differ in their sockets only and are one kind; a serial port is a client
whose close may fail; TCP, TLS and UDP servers accept connections under limits, TLS with a
handshake, UDP with pipelines that have no socket of their own.

| action | code |
|---|---|
| `AskOpen`, `AskClose`, `AskDestroy` | `open()`, `close()`, `destroy()` of a pipeline, in each state |
| `Opened`, `OpenFails`, `ServerClosed` | what the socket, server or port tells; callbacks run, and one may call again |
| `Connect`, `Datagram`, `HandshakeStarts`, `HandshakeEnds`, `HandshakeFails` | the handlers of connections and peers, with `Accept` |
| `PipelineCloses`, `PortCloseFails`, `PeerEnds` | `'close'` and `'end'` of a socket or port |
| `DataThenDestroy`, `IdleFires` | a `'data'` listener that destroys, the idle timer |

`answers` counts how often the callback of each call has run. **Abstractions.** Only one
callback of an event makes a further call. Addresses are the constants `SameIp` and `Blocked`;
options do not change. `endpoint` and `conn` are what Node's sockets do. **Known limits**, each
kept apart by a variable of its own: `lost`, an `open()` called by the callback of a failed one
is emptied away with the list; `unclosable`, a handshake that ends, or a `close()` called in the
callback of `open()`, leaves a pipeline nobody destroys, as does a serial port that fails to
close; `outlived`, a connection that closes after its server keeps its place in the set of the
pipelines, and after a reopen counts against the limits.

### 2.11 SerialPipeline

`writeQueue` is `_writeDataQueue` with its callbacks, `cycles` the writes and drains that the
port has not called back. `Write`, `WriteTaken`, `Drained`, `WriteFails`, `DrainFails`,
`Destroy`, `PortClosed` are `write()` and the callbacks; in each the caller's own callback may
write again (`n`). **Known limit**, kept apart by `refilled`: the callback of a failed write
runs before the flag falls, and a write it makes starts a cycle whose flag then falls; the next
write shares the port with it.

## 3. Runs

| run | instance | shows |
|---|---|---|
| `master_safety` | 3 requests, one of them a broadcast, two with one fingerprint, 3 ids, 2 arrivals, all strategies, TCP and RTU | the invariants below, order of service, and that the master implements `MasterContract` |
| `master_liveness` | 3 requests to 2 ids, so ids are reused and run out; concurrent and deduplicate | `NoCrossTalk`; every request is answered under fairness |
| `master_destroy` | 1 violation | a write after `destroy()` |
| `master_stale_frame` | 1 violation | a frame received before a request is sent answers it |
| `slave_lock` | 6 writes to 2 units: 4 to one with equal, disjoint, overlapping and double ranges, 2 to the other; all three values of `reach`; symmetry of the writes with equal ranges | the invariants below, order, and that the lock implements `RangeLock` |
| `slave_lock_stranded` | 1 violation | a write that waits for nothing |
| `slave_queue` | 2 requests to one unit with one fingerprint, a broadcast, 2 units, all strategies, with and without `removals` | the invariants below, order of service, every frame served |
| `slave_last_arrived` | 1 violation | drop-stale keeps the frame that arrived first |
| `authorizer_ranges` | 0 to 4 ranges, hooks with and without promises | one verdict, unanimous, never forgotten |
| `authorizer_rejected` | 1 violation | a request is let through before a later range is rejected |
| `beside_the_engines` | the modules of 2.5 to 2.11, of which `part` says which one moves; about 260 000 states | what each part promises the engines |
| `emitter_skips` | 1 violation | a `once` listener makes `emit()` skip the next and throw |

**Properties of the master.** `Accounted`: past the gates a request is in exactly one of the
queue, the runtime check and the exchanges, or answered once. `SingleFlight`: with a queue only
one request is past it. `WaitersMatch`: session and exchanges agree. `QueueServed`: the draining
flag is up exactly while a loop runs or a request is active, so no wakeup is lost and no second
loop starts. `NoCrossTalk` and `OwnResponse`: responses reach their own request, or one whose
rightful owner is over when ids had to be reused (`OwnResponse` is about finitely many requests,
with an id for each). `DroppedForNewer`, `ServedInOrder`: the strategies.
`EveryRequestAnswered`: liveness.

**Properties of the slave.** `Exclusive`: writes with an address in common never run together,
from the call of the handler to the verdict of `checkRuntime`. `InFlightSound`, `PendingSound`:
swap removal and in-place compaction lose and repeat nothing. `PendingIsBlocked`: between two
turns a write waits only for one it overlaps, unless handlers complete writes of other units
inside the flush. `SameRangeInOrder`: writes to the same ranges run in the order they arrived
in, though an arrival does not look at the writes that wait; it is claimed only for handlers
that complete their own write, because with `reach = "unit"` three waiting writes can change
places. Writes whose ranges overlap without being equal may overtake each other; no document
promises otherwise. `OneAtATime`, `QueueServed`, `ServedInOrder`, `EveryFrameServed`,
`Accounted` are what the master's properties of like names say, for frames.

**Properties of the authorizer.** `OneVerdict`, `GrantedWhenAllAllowed`: the counter is right
when all checks are counted before the first verdict, that is with one range or with hooks that
return promises only (`Counted`); `EveryCheckAnswered` holds for all hooks that settle.

**Properties of the parts.** `HandlerGetsRequest`: a handler is called within the protocol's
limits whatever arrives, and for a request of this master with exactly its arguments.
`ResolvesWithAnswer`: the promise gives the model's answer (as many coils or registers as were
asked for, each a bit or 16 bits, zero where the model gave none) or the slave's exception, and
is rejected by a response that does not fit the request. `WalkCompletes`: a walk over the
identification table ends, with each object once and in order. `FramesAsSent`,
`CleanAfterSilence`, `NoGapInside`: what was sent comes out, however chunks are cut, and noise
costs what 2.7 says. `ImplementsTimers`, `EveryTimerFires`: no timer early, late in its order,
twice, after removal, or lost in a migration or by a throwing callback. `HeapOrdered`: between
two steps each element of the heap comes after its parent. `ListenersServed`: an `emit` calls
all listeners unless single ones are removed under it. `ConnectionsAccounted`: over any number
of opens and closes the connections that are not gone are in the set `close()` goes through and
within both limits; what is gone holds no timer. `CallbacksAnswered`: every `open`, `close` and
`destroy` is answered once. `OneCycleAtATime`: one write and drain at a time, every write
settled once.

**Bounds.** `MaxTid` stands for 65535: with as many ids as requests the wrap is reached (the
option `opts.transactionId` lets the counter start anywhere), with fewer ids than requests reuse
and exhaustion are. Three requests give one in flight, one queued and one arriving, of which any
may be a broadcast or share a fingerprint: every queue operation compares the arriving request
with the queue only, and every session operation touches one key. `MaxChunk` = 2 lets a frame
follow the one that starts the next request; `MaxArrivals` bounds the line's input. A
`violation` run stops at the first trace.

Four writes on one unit give two in flight together (so the swap removal moves one), one kept by
the flush loop and one it starts behind it; the loop looks at one write at a time and compares
it with those in flight only. The second unit is there because the flush guard is common to all.
Four ranges allow two open promises between a settled and a denied one. Two requests and a
broadcast give the queue a frame that is served, one that waits and one that arrives, of which
any may be the broadcast.

Parts: requests lie within, at and beyond each limit of the protocol and above 16 bits; tables
have one to several fragments; every line is cut at every byte; the model answers lists of 0, 8,
124 and 2001 numbers, some wider than 16 bits. Six timers with two direct ones: the last of the
heap fills the place of one taken out of the middle, and `HeapOrdered` sees whether it goes the
right way. Four listeners let one be removed before, one after and one added while another runs.
Four connections, two of one address, with two allowed and one for an address: each limit
refuses a connection that the other would admit. None is blocked there; the theorem about the
limits is for every `Blocked`. Three calls of `open`, `close`, `destroy` are a reopen, or two
that wait for the same event and one that follows. Five writes: one or two in the port, two that
wait, one made by a callback. The parts share no variable, so moving one at a time leaves out
nothing.

**Deadlock** is checked for the master, the lock and the authorizer, where `Rest` (nothing is
due) and, of the master, `Hang` (the endless search for an id) are the only ways to stop.

**Fairness.** Weak fairness of `DrainNext` and `DecodeNext` (code on the stack goes on), of
`TimerFires` (an expired timer is run by the event loop) and of the hooks' promises (the model
has the hooks that settle). Nothing is assumed of the device, the write callback or the user, so
the timer alone must answer what nothing else does. For the parts `ThFairness` (time passes,
native timers fire, what is on the stack goes on) and `TrFairness` (an endpoint opens or fails,
a handshake ends or fails, a destroyed socket closes, a server without connections closes; a
port that has failed to close need not), each one condition on the disjunction of its steps. A
part that does not move has none of these enabled. Nothing is assumed of the callers. The parts
stop when their bounds are reached, so their run checks no deadlock. In the slave the code on
the stack goes on (`DrainNext`, `VisitNext`) and hooks and handlers answer, two conditions in
all, which is less than one for each actor: each says only that some step of its kind is taken
while any is due. All the same, a handler that never calls back does stop the queue, since the
slave has no timer. `slave_queue` does not check deadlock: a slave that was destroyed, or has
seen all frames, stops.

**Findings.** `SilentAfterDestroy` and `NoStaleResponse` state what comments in `master.ts` say
and are violated: `checkRuntime`'s continuation (line 649) does not look at `_destroyed`, and
`flush()` before a write (line 679) does not drop what the running `decode()` still holds.
`NoStrandedWrite` states what a test of `slave.test.ts` says and is violated: the guard of
`_flushPendingWrites` (line 1591) is one for all units, so the end of a write of another unit
inside a flush repeats the flush of the wrong unit. `LastArrivedWins` states what `types.ts`
says of `'drop-stale'` and is violated: the queue is cleared when a frame has passed its hooks
(line 322), so a frame whose hook was slow clears one that arrived after it.
`DeniesWhenAnyRejected` is the title of a test in `access-authorizer.test.ts` and is violated by
a hook that answers at once: the counter is back at zero after each range (line 135), so the
callback is told success for the first range before the second is looked at.
`AllListenersInvoked` states the comment of `emit()` for emissions in which nothing but `once()`
takes a listener off (`OnlyOnceLeft`), and is violated by a `once` listener: the loop of line 185
keeps the length of a list that the wrapper shortens, so the listener behind it is skipped and
the call past the end throws. `emitLazy()`, which promises nothing of the kind, is left out.

## 4. Proofs

`MasterProofs` proves for every set of requests, any number of ids and any bound, from
`MasterAssumption` alone:

* `TypeCorrect`, `RequestsAccounted`, `OneInFlight`, `SessionMatchesExchanges`,
  `DrainLoopSound`: `Spec => []Inv` for the invariants above;
* `MasterKeepsContract`: `Spec` implements `MasterContract` under the mapping of `Status`.

The inductive invariant is `TypeOK /\ Configured /\ Accounted /\ SingleFlight /\ WaitersMatch /\
QueueServed /\ SentKeyed`. None of its parts is inductive alone: a timer settles a request once
(`Accounted`) only because a waiter belongs to an unsettled exchange (`WaitersMatch`); start()
overwrites no waiter only because one request is active (`SingleFlight`), which holds because a
loop runs only when none is (`QueueServed`). `Configured` says that a master without a queue has
transaction ids and `SentKeyed` that what was sent has a key of its protocol. Each action has
its own lemma, and the actions share lemmas for their last common part (`Settle`, `Exchange`,
`WireExchange`, `Enqueue`).

`SlaveLockProofs` proves for every set of writes, units and spans, from `LockAssumption` alone:

* `LockTypeCorrect`, `WritesExclude`, `InFlightListSound`, `PendingListSound`,
  `NoWriteStranded`, `SameRangeOrdered`: `Spec => []Inv` (an action property for the last) for
  `TypeOK`, `Exclusive`, `InFlightSound`, `PendingSound`, `PendingIsBlocked` and
  `SameRangeInOrder`;
* `LockImplemented`: `Spec` implements `RangeLock` under the mapping of `Phase`.

`LockInv` is `TypeOK /\ InFlightSound /\ PendingSound /\ Exclusive /\ Emptied`: a write that
starts excludes those that hold the lock because the list it was compared with holds exactly
those (`InFlightSound`), and a write starts once because it is in one list once
(`PendingSound`); `Emptied` says that after `destroy()` the lists stay empty, so a late
`_onLockedUnitWriteDone` removes and starts nothing. Two more invariants carry the other
theorems. `Served` says what a waiting write waits for in the middle of a flush: a write of
another unit is blocked; one the pass has kept is blocked by a write that the handler on the
stack cannot complete, or (`reach = "unit"`) is blocked or another pass has been asked for; at
the end of the flush it becomes `NoStrandedWrite`. `InTurn` says that the waiting writes of a
unit stand in the order of their tickets and that no ticket exceeds the arrivals so far: with
`Served`, no later write to the same ranges finds the way free while an earlier one waits.

`SlaveProofs` proves for every set of frames and finite set of units, from `SlaveAssumption`:
`SlaveTypeCorrect`, `SlaveOneAtATime`, `SlaveQueueServed`, `SlaveFramesAccounted` and
`SlaveServedInOrder`. `SlaveInv` says for each frame (`Sound`) which units owe it an answer,
that the counter of a broadcast covers them (`Counted`), and what has been replied where
(`Placed`); `Driven` says that with a frame queue the flag is up while anything is begun and
that the loop stops only when nothing is queued; handlers and `checkRuntime` never wait for the
same unit. `OneAtATime` needs `Driven`, because a frame begins only when the flag lets the loop
run, and `Driven` needs `Counted`, because the callback that lowers the flag is that of the last
unit. Order is a second invariant: what is begun has a smaller ticket than what is queued.

`MasterProofs` adds `MasterServedInOrder`, `DropsForNewer` and `ResponsesApart`
(`NoCrossTalk`) on the invariant above. `Ordered` says that
tickets grow from what was sent over what waits for `checkRuntime` to what is queued; the other
parts are the properties themselves with the gates a dropped request has passed.

It also proves `ResponsesOwn` (`OwnResponse`) and `SearchEnds`: with an id for each request the
search for a free id never goes round for ever. The invariant is `IdInv`. `HandedOut` says that
the ids requests have taken are among those that a walk round the circle has handed out so far,
at most one for each request that is past the queue and `checkRuntime`, so the next id is free
for the request that is not; `KeysApart` says that no two requests have had the same id, so a
frame that carries an id can only be the answer to the request that took it, however late or
often it comes.

`TransportProofs` proves `TransportTypeCorrect` and `TransportAccounted`
(`ConnectionsAccounted`) for every set of connections, addresses and both limits, from
`TransportAssumption`: `TrInv` says that what the layer listens to or times is alive, that what
it does not listen to has outlived its server (`Covered`), and that it is the tracked
connections, not only the live ones, that stay within the limits (`WithinLimits`).

`TransportProofs` also proves `SerialTypeCorrect` and `SerialOneCycle` (`OneCycleAtATime`) for
any number of writes, from `SerialAssumption`: each write waits once, is in the port or is
settled (`WritesPlaced`), and while no failed write's callback has written, the flag is up
exactly while one cycle runs (`OneCycle`).

`UtilsProofs` proves `EmitterServes` (`ListenersServed`) for any number of listeners,
emissions and calls that listeners make, from `EmitterAssumption`. `InStep` says what holds in the middle of an `emit`:
while nothing was removed under the loop, it has called as many of the listeners it owes as its
index says, and the others still stand in the list it goes through, at the same places;
`emitLazy` finds those and no more, `emit` keeps to the length it began with.

`UtilsProofs` also proves of `TimerHeap`, for any number of timers, any delays and any threshold,
from `TimerHeapAssumption`: `TimersSound` (`TimersInv`), `TimersOrdered` (`HeapOrdered`) and
`TimersImplemented` (`ImplementsTimers`: nothing fires early, after its removal or out of the
order of what shares its native timer). `TimersInv` says that the heap is in order and numbered
below the next number, that a timer is in one place only, directly, in the heap or in the
migration, and what is on the stack fits them. That a sift puts a heap in order again is where
the work is: what the recursion returns is a way (`IsWayUp`, `IsWayDown`) of parents or of least
children; moving the entries along it gives back a heap in order (`SiftUpOrders`,
`SiftDownOrders`) with the same entries, each once (`SiftUpRearranges`, `SiftDownRearranges`). What the recursive
functions compute is shown by the least number for which it would not hold (`LeastNatural`), and
that the first of a heap is the earliest by the same argument on places.

`FunctionCodeProofs` proves `HandlersGetRequests` (`HandlerGetsRequest`) and `PromisesResolve`
(`ResolvesWithAnswer`) from `FunctionCodesAssumption`, for arguments and answers of any size.
The way out is one lemma for each group of function codes (`ReadsMeant`, `SinglesMeant`,
`CoilsMeant`, `RegistersMeant`, `WriteReadMeant`, `OthersMeant`): what the slave reads back from
the master's bytes is what was meant (`Faithful`), in the limits of the protocol or refused.
They rest on what the conversions do: a number read from two bytes is its low 16 bits
(`WordFacts`), lists of words and packed coils come back as they were (`WordsBack`,
`CoilsBack`). The way back: what the slave answers passes the checks of the method
(`AnswersFit`) and decodes to what was owed (`BitsReturn`, `WordsReturn`, `IdReturns`), and a
response with a byte more, less or changed no longer counts its bytes or is no echo
(`ForgedRejected`, by `SpoiltCounts` and `SpoiltDiffers`). `CalledWithinLimits` looks only at
the handlers, so it holds for the bytes of any other master. `FcInv` carries these facts from
step to step: the PDU is the master's own unless somebody else sent it, the handler called is
the one found for it, and the response is a refusal, a failure or the answer.

`AuthorizerProofs` proves `AuthTypeCorrect`, `VerdictGivenOnce` and `GrantIsUnanimous` for any
number of ranges from `AuthorizerAssumption`. `AuthInv` adds to the types that the counter is
never below the number of open promises, and under `Counted` that it is exactly that number
until a denial (`CounterExact`) and that a denial was told once and nothing after it
(`DenialTold`).

`FunctionCodeProofs` also proves `WalksComplete` (`WalkCompletes`) for all tables, lengths, codes and
first objects, from `IdentificationAssumption` (they are natural numbers). `WalkInv` says that
what was received is the first part of what is sought and that the next request asks for the
object after it (`AsksOn`). It is kept because what the slave wants for that request is the rest
of the order (`WantedNext`, `AscendingRest`: from a member on, a set has the order it had),
because a fragment has at least one object and no more than a PDU holds (`FittingIs`), and
because the master takes in as many objects as it is told only if it takes in all (`ParsedIs`).
A request is rejected only for a reason `WalkCompletes` names (`HandlerRefuses`, `NotTaken`).

`FramingProofs` proves `FramesSent` (`FramesAsSent`), `SilenceCleans` (`CleanAfterSilence`) and
`GapsDrop` (`NoGapInside`) for all lines, frames, noise, maxima and ways to cut a line into
chunks, from `FramingAssumption`. A line is tiled by its frames and its noise (`Tiled`, by
`LaidTiled`). `FrInv` says that each layer is in step with its line: wherever its input is kept
from, the scan stands at the first byte of the next frame due or past all that it owes
(`Track`), and what it has passed was emitted, in order (`InOrder`).

* TCP owes the frames that follow one another since `frSync`, and the frame at which the scan
  stands is not whole (`TcpInv`).
* ASCII owes every frame; status and length say how much of a frame has been read (`ReadSoFar`)
  and that a frame that has begun goes on (`GoesOn`).
* RTU owes those since the last silence. For the one that is due, the expected length, if one is
  set, is the end of that very frame, and a gap is inside it exactly if the marker is past its
  first byte (`RtuDue`): this is what moving `_expectedLen` and `_t15Marker` with the residual
  has to keep (`RtuSettled`), also when the residual is cut to `MAX_FRAME_LENGTH`.

A loop is followed round by round (`TcpOne`, `AsciiOne`, `RtuOne`): if each round leads from the
states reached after the one before to those reached after it, the function over rounds exists
(`RoundsExist`) and stays among them; its induction is on the least round for which it would not
hold (`Least`, `Inducted`). No layer needs noise to be short: a scan that looks at noise
skips it or waits at it, and owes nothing beyond it.

**Only model-checked:** the liveness properties (`EveryRequestAnswered`, `EveryFrameServed`,
`EveryCheckAnswered`, `EveryTimerFires`, `CallbacksAnswered`) and the fairness they need, which
are out of the prover's reach.

## 5. Not modelled

* Checksums and conversions (`utils/crc.ts`, `lrc.ts`, `bits-to-ms.ts`): arithmetic without
  state. The layers' own use of them is in `Framing`, with an ideal CRC.
* The matching of addresses against a whitelist: string matching without state; its verdict is
  the constant `Blocked`.
* Error codes, types and constants; benchmarks, examples and test helpers.
* Function codes and authorizers changed while requests run; hooks that reject, throw or never
  settle; handlers that throw or call back twice. Their hazards are listed without a property.
* The pipeline adapter's wiring of events, which only forwards, and the bytes of the ADU
  fingerprints: to the strategies only whether two keys are equal matters.

## 6. What is left

* Hooks that reject and handlers that call back twice, as fault models of both engines.
* The concurrent strategy of `ModbusSlave` together with `SlaveWriteLock`: a broadcast whose
  writes wait for the locks of several units.
* Delays of 2^31 ms and more in `TimerHeap`.
