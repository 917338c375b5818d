# Verification of the xypi hub

TLA+ models of the xypi hub (`src/`), TLC runs over small instances of them, and
theorems that TLAPS proves for every instance.

## 1. The system

The hub connects MIDI ports, an OSC peer (UDP), an Arduino (SPI) and web socket
clients. Its parts run on different threads and share queues; each queue has
one consumer.

| Part | State | Operations | Threads and neighbours |
|---|---|---|---|
| `locked::queue` (`locked/queue.h`) | list, mutex, condition variable, `isBlocking`, `isRunning` | `push`, `push_front`, `front`, `remove`, `find_qorder`, `foreach`, `enable`, `enableWait`, `disableWait` | shared by a worker, its producers and its controllers |
| `locked::map` (`locked/map.h`) | unordered map, mutex | `insert`, `fetch`, `foreach` | shared by the sessions and `WSApiWorker` |
| `OSCWorker`, `MidiWorker` | `isRunning`, `myThread` | `run`, `stop`, `runner` | own thread; take from a queue, send to `OSCServer` or RtMidi |
| `MidiWorker` callback | - | copies a MIDI message into `oscInQ` and `spiInQ` | RtMidi's thread |
| `WSApiWorker` | `isRunning`, `myThread` | `run`, `stop`, `runner` | own thread; from `cmdQ` to the results map |
| `WSApiHandler` | static `cmdid` | `process`, `getCmd`, `listCmd` | io threads, one call per session; pushes to `cmdQ`, reads the map |
| `OSCServer` | socket, signal waiter | `start`, `recv_handler`, `send_message` | io threads, and the worker that sends |
| `oscapi::Processor` | - | `pack`, `parse`, `handlePacket` | called by `OSCServer` |
| `WSServer` | acceptor, signal waiter | `start`, `accept`, `accept_handler` | io threads |
| `WSSessionHandler` | web socket, `i_buffer`, `o_buffer` | `onRun`, `onAccept`, `onRead`, `onWrite` | io threads; calls `WSApiHandler` |
| `PiSpi` | `spi_in_state` and the other members of the decoder, transfer buffer | `start`, `stop`, `spiRunner` | own thread; `spiInQ`, Arduino |
| `XypiHub` | all of the above, the `io_context` | constructor, `run`, `stop` | main thread, and whoever calls `stop` |

What is hard, and what must be true of each part:

- **Queue and worker.** The worker reads the head under one lock, handles it
  without one and removes it under another, while producers push and
  controllers stop and restart the worker. The message that is removed must be
  the one that was handled, nothing may be lost, repeated or reordered, no
  wakeup may be missed, and `stop()` must wait for the thread and return.
- **Web socket api.** A job is in the queue, then in both queue and map, then in
  the map, and `get` and `list` look into the two one after the other. No job may
  be lost, done twice or delivered twice, and no answer may overlook one.
- **Receive loop.** Several io threads run one loop in which every branch must
  start the next receive, once and not too early. A cancellation may come at any
  point of it, and `XypiHub::run()` must return.
- **Conversions.** Byte tables and addresses must agree in both directions.
- **Arduino link.** As many bytes come in as go out, so that frames are cut into
  transfers anywhere and `stop()` may come between any two bytes. The decoder
  must stay in step, lose no message unnoticed and hand on no half-written tempo.
- **Hub.** `XypiHub::run()` and `stop()` shut the same worker down from two
  threads while the receive loop ends. Both must return, and leave no thread.
- **Sessions.** A session must answer, and end with its client, whichever of
  its operations is pending; the accept loop should survive errors (as it is
  written it never begins, section 5).

`PROJECT.json` lists these hazards with their lines and the properties that
are about them.

## 2. Modules

| Module | Models |
|---|---|
| `LockedQueue`, `LockedMap` | the operations of the two containers, as operators that other modules compose |
| `QueueWorker` | a queue, its worker thread, the producers and the threads that call `run()` and `stop()` |
| `FifoChannel` | abstract: what a queue with its worker promises |
| `WsApi` | sessions in `process`, the command queue, the results map and the loop of `WSApiWorker` |
| `JobBoard` | abstract: what the api promises about jobs |
| `OscServer` | the io threads, `OSCServer`, the signal waits and `XypiHub::run()` and `stop()` |
| `MidiCodec` | a message on its way: callback, `sendMIDI`, `pack`, the peers that pass it on, `handlePacket` |
| `WsSession` | `WSServer` and the sessions with their clients |
| `Hub` | `XypiHub::run()` and `stop()`: `OscServer` and `QueueWorker` composed |
| `SpiLink` | `PiSpi`: a `QueueWorker` whose runner exchanges bytes with the Arduino |
| `LockedQueueLemmas` | lemmas about the list operations of `LockedQueue`, for the proofs of the modules that extend it |
| `QueueWorkerProofs`, `WsApiProofs`, `OscServerProofs`, `MidiCodecProofs`, `WsSessionProofs`, `SpiLinkProofs`, `HubProofs` | theorems about the module they are named after |
| `MCQueueWorker` | `QueueWorker` for TLC, with a check that `Without` is `SelectSeq` |
| `MCSpiLink` | the messages and frames of `SpiLink` for TLC |

`QueueWorker` and `WsApi` extend `LockedQueue`; `WsApi` extends `LockedMap` too.
`Hub` and `SpiLink` take their steps from instances of `QueueWorker`, `Hub` also from
one of `OscServer`. The other modules meet at the calls they abstract: `ParseThrows` is a packet that `MidiCodec`
leaves out, and `WsSession` knows of `WSApiHandler::process` only whether it
answers or throws.

### LockedQueue, LockedMap

A method that holds the mutex is one operator. `enable` and `enableWait` write
their flag without it and are single writes, to be overtaken by anything. The
condition variable is the set `waiters`: a thread in it goes on only after a
`notify_all` (which empties the set) or a spurious wakeup, so a notification that
is forgotten keeps its thread asleep. `Without` is `std::list::remove`, written
without recursion so that it can be proved about. The reads `waitEnabled` and
`empty` only choose a sleep and are left out; `front(timeout)` names a member
that does not exist and cannot be instantiated.

### QueueWorker

`wpc` follows `runner()`: `enable`, `enableWait`, `loop` (the test of
`isRunning`), `front`, `handle`, `remove`, `done`. `cpc[c]` follows a controller
through `run()` (exchange, launch) and `stop()` (exchange, `disableWait`,
`disable`, `join`). `joinable` says that `myThread` holds a thread; assigning to
it then is `std::terminate`. Messages are numbered in the order they are made,
and `handled` records those given to `send_message`, `sendMIDI` or `process`.
Constants: the controllers, the values the uninitialised `isRunning` may hold,
whether the worker enables its queue (`WSApiWorker` does not). The constructor
gives `isRunning` no value (`osc_worker.h:22`, and the build is C++17), so that the runs
and the theorems let it start as either.

### WsApi

`spc[s]` follows a session's `process()`: the id (`Submit`), the first `process()`
of the command (`FirstProcess`, or an exception), the push or the store; for
`get` the map, then the queue; for `list` the queue, then the map. `wpc` follows
the worker: `front`, `process`, `store`, `remove`. Exceptions on either side are
actions. The only command with a work queue factory, ping, is commented out in
the api table (`wsapi_handler.cpp:29`): the module is about the code that
serves such commands. `CmdqEnabled = TRUE` stands for a worker that enables its
queue as the two others do, `FALSE` for the code as it is; the theorems hold of both.
`dropped` remembers the jobs that a disabled queue did not take in: a client that was told
the id of one is owed nothing in the model. That the code so drops every such job is told in section 5.
`IdLimit` is the number of values of `cmd_id` (2^32 in the code).

### OscServer

`ready` is the ready queue of the `io_context`. `Work` counts what the context
counts as outstanding; a handler that ends with none left stops it
(`HandlerEnds`). The receive handler has three steps (`parse`, `answer`,
`receive`) that other threads may come between; other handlers are one step. An
exception from `parse` leaves the io thread and terminates the process. The
worker may send at any time, also when `run()` has returned: nothing in
`OSCServer::send_message` depends on it. The initial state is the one after the three calls that start the servers.

### MidiCodec

A message that RtMidi's callback makes goes to `oscInQ` (and to `spiInQ`, which is
`SpiLink`'s) and on to an OSC packet. What `sendMIDI` is given comes from `midiOutQ`, to
which nothing in the repository pushes: its producer is external, and is taken
to push any of the messages that `oscInQ` gets, or a MIDI message in the form in which the callback
makes them. A MIDI command is its status byte, with the values of `xymidi::cmd`. An OSC
address is `/midi` and the characters that follow it. `sent` holds the packet as it
was packed and as each peer bundled it after that. The recursion of `handlePacket`
over nested bundles is the sequence `toRead` of the packets it has still to
read: a bundle puts its packets in front of what follows it. A `/midi` message without a
MIDI argument decodes to nothing, since `handlePacket` catches what the library throws. The binary encoding
of OSC belongs to the library and is not modelled.

### WsSession

A completion handler is a step, `pc[s]` the operation a session waits for. A
session is kept alive only by the handler of that operation, so a handler that
starts none is its end. `i_buffer` holds the requests whose bytes it holds.
`AcceptStarts = TRUE` stands for a server that starts its accepts, because without
them no session exists. The code does not: `async_accept` is commented out
(`ws_server.cpp:83-86`), and it could not just be put back, because
`shared_from_this()` throws `bad_weak_ptr` on a `WSServer` that a `unique_ptr` holds
(`xypi_hub.h:37`, `xypi_hub.cpp:38`). What the module says of sessions is about
`WSSessionHandler` with a server that has been repaired.

### Hub

The variables are those of `OscServer` and `QueueWorker`; `terminated` is shared,
since an exception on an io thread ends the worker's thread too. The controllers
are `main`, in `XypiHub::run()`, and `stopper`, in `XypiHub::stop()`. Their calls of the
worker come where the hub makes them: `RunStartsWorker` before the io threads,
`RunStopsWorker` after they have been joined, `StopStopsWorker` after
`ioService.stop()` in a call of `XypiHub::stop()` (`stopCalled`), of which there is one at
most. `WorkerSends` is one step of both modules: the worker hands its
message to `OSCServer::send_message`. In `WorkerSendsNothing` it does so in vain, because `pack()`
refuses the message (`osc_server.cpp:104`) or the send throws (`osc_worker.cpp:69`). Neither
asks whether `run()` has returned: a worker that is left behind goes on. `isRunning` may start out true; `run()` then
starts no worker and must return all the same.

### SpiLink

`wpc = "handle"` is a transfer: `buf` holds its bytes and `pos` counts those that
are exchanged. `ExchangeByte` sends one byte, receives one and decodes it;
`wiringPiSPIDataRW` and the loop after it touch only the thread's own buffer, so
the bytes of a transfer need not be exchanged before the first is decoded.
`ComposeHead` encodes the head of the queue, `ComposePing` follows a `front(timeout)`
that found nothing. The message is not removed, as in the code. `spi` is the
decoder with its 8-bit count, and `deviceMidiOut`, which somebody else empties. `deviceMidiOut`
and `dropped_midi_in` (`pi_spi.cpp:98-99`) are declared nowhere in the repository: that the
first is a buffer of bounded room (`Room`), whose `addToBuf` returns false when it is full, is an
assumption of the module.

`pi_spi.cpp` does not compile as it stands (`spiRunner` as a function at line 40,
`front(timeout)` at 133, the buffer and a `void` decoder at 216 and `pi_spi.h:50`), and
the hub creates no `PiSpi`; the module takes these lines for what they are meant
to do. The Arduino's program and `xyspi.h` are not in the repository. The Arduino
is taken to frame what it sends as the hub does and to send idle bytes in
between. `IncomingAssumption` says what that is: MIDI frames of 1 to 127 messages (one
without any makes the count wrap, line 101), tempos of four bytes, and commands
of a single byte, which is all the decoder knows how to read. A `diag_message` is therefore
one byte, although `pi_spi.h:16-17` names states for its length and data: the decoder never
enters them. `done` and `arrived` are
histories of the frames and of the MIDI messages that the Arduino has sent.

## 3. Runs

Runs that pass:

| Run | Instance | Shows |
|---|---|---|
| `worker` | 2 controllers, 4 messages, `isRunning` starting as either | order and no repetition (`InOrderOnce`), the message in flight stays the head (`InFlightIsHead`), the refinement of `FifoChannel`, no push or `stop()` leaves the worker asleep (`NoWakeupMissed`, `ToldToStopIsWoken`), every `stop()` returns unless a `run()` starts the worker again meanwhile (`StopReturns`), and queued messages drain, however the worker is controlled; while one thread makes all the calls, `stop()` waits and `run()`, but for the first, launches (`CallsKeepTheirWord`), a served queue accepts (`ServingAccepts`) and nothing terminates |
| `api` | 2 sessions, 2 jobs, an enabled queue, fairness | refinement of `JobBoard`; a job that is owed is always in the queue or the map (`OwedIsHeld`), and `list` misses none; the job in process stays queued although urgent ones overtake it, urgent ones go first, all jobs finish, and "enqueued" is said only of a job that has not finished or is just being removed (`EnqueuedIsUnfinished`) |
| `hub` | 1 io thread, 1 packet, 1 message, `isRunning` starting as either | `run()` returns after an abort and after `stop()`, whatever the worker is doing and without anybody being obliged to call `stop()` (`ShutdownEnds`), and leaves no worker thread if nobody else stopped it; the whole implements `OscServer` (`OscServerSpec`) and, until the process ends, `QueueWorker` (`QueueWorkerSpec`) |
| `osc_server` | 2 io threads, 2 packets, 1 message sent | exactly one receive at any time (`OneReceive`), packets parsed one at a time and in order, `run()` returns after an abort and after `stop()` |
| `midi_codec` | all status bytes, 3 data values, ports 0, 1, 9, 10, 208, 255, 2 peers | a MIDI message on `midiOutQ` goes out whole (`SendsWholeMessages`); packing and reading agree, whatever the peers bundle the packet with (`OscRoundTrip`) |
| `ws_session` | 2 sessions, 2 requests each, accepts started | first requests are answered, sessions end with their clients |
| `spi_link` | 1 message pushed, 2 frames received, room for 2 MIDI messages | the decoder stays in step across transfers and restarts (`InStep`), MIDI is passed on once and in order or its loss is told (`MidiPassedOn`), `set_tempo` vouches for whole tempos only (`TempoIsWhole`), what the Arduino sends comes in (`LineMoves`), `stop()` returns |

Runs that TLC refutes, each a place where the code does not do what the
repository says of it:

| Run | What happens |
|---|---|
| `hub_two_stops` | `XypiHub::stop()` stops the io_context, which makes `XypiHub::run()` go on to its own `stop()` of the worker. The one that comes second sees the flag cleared and returns while the thread is still running, although `osc_worker.cpp:42` says "wait until it completes". When it is the one in `run()`, the hub may be destroyed under the thread. |
| `worker_enable_race` | `stop()` comes right after `run()`; the new thread then executes its `enable()`. The queue stays enabled with no worker, contrary to `locked/queue.h:136`. |
| `api_get_miss` | A `get` looks into the map before and into the queue after the worker has moved the job, and answers "neither queued or completed". |
| `osc_lost_cancel` | `socket.cancel()` runs while a received packet is queued or handled. It aborts nothing, the handler starts the next receive and `run()` never returns. |
| `ws_session_buffer` | `onWrite` consumes `o_buffer` and nobody consumes `i_buffer`: the second request is handed on with the first in front of it, and the session ends. |

### Bounds

- `MaxMsgs = 4`: one message in flight, one waiting and more pushed behind them, so
  that a wrong head, a wrong removal and a wrong order are all possible. Order
  and refinement are also proved for every bound.
- `MaxJobs = 2` with two sessions: each job's submission, fetch and listing
  interleave with the other's, and an urgent job is pushed in front of the one
  in process. It is below `IdLimit`, so that ids do not wrap.
- Two io threads, two packets: one packet in the handler while the next
  arrives. The worker's one message is a pending send that a cancellation meets.
- Two requests per session: the second is the first that can go wrong. Two
  sessions: one waits for an accept while the other has it.
- Two controllers are what the hub has: its `run()` and one caller of `stop()`.
- `hub` has one io thread, one packet and one message: what it adds to `osc_server`
  and `worker` is the order of their shutdowns. `XypiHub::stop()` is called once at most: a second
  call stops a stopped context and finds `isRunning` false.
- Two peers in `midi_codec`, each with up to one packet on either side (`MaxHops`,
  `MaxBeside`): a bundle within a bundle, with packets to read before and after. Both
  properties are also proved for all bounds.
- Two frames in `spi_link`: the second meets what the first left in the decoder. The
  data bytes repeat the codes of commands, tempo bytes have the MIDI bit set, one
  frame holds two MIDI messages, and three MIDI messages exceed the room for two.
  Transfers have one, four and five bytes, so that frames are cut everywhere.

`CHECK_DEADLOCK FALSE` is set where the system may stop: no message need be
pushed, no client need ask, a message ends where it was sent or read, the process may end.

### Fairness

Weak fairness is given to the steps of threads that have something to do: the
worker thread, a started `run()` or `stop()` (in `Hub` a `XypiHub::stop()` that has stopped the
context), an io thread with a ready handler,
the joining main thread. The kernel completes sends on a datagram socket and
reads of data that has arrived, and a client that answers no pings is lost
(`ws_session_handler.cpp:62` sets the suggested timeouts). A waiting connection
is not held up by failing accepts for ever. `process()` of a command returns or
throws. A transfer over SPI completes, and `front(timeout)` returns. Nothing else is assumed: no push, packet, signal, request, `run()`,
`stop()` or spurious wakeup has to happen.

## 4. Proofs

`QueueWorkerProofs` proves for every set of controllers, every bound and every
initial `isRunning`:

- `TypeCorrect`, `InFlightStaysHead`, `HandledInOrderOnce`: the invariants
  `TypeOK`, `InFlightIsHead` and `InOrderOnce`;
- `ImplementsFifoChannel`: the refinement of `FifoChannel`, with `Pending` as the
  channel.

They follow from `Inductive`, `Spec => []IInv`, with
`IInv == TypeOK /\ ThreadInv /\ InFlightIsHead /\ OrderInv`. `InOrderOnce` alone
is not inductive: it speaks of `handled \o Pending`, and the step that removes
the message changes `Pending` only as intended if the message at the head is
the one in flight. That is `InFlightIsHead`, which in turn holds because only the
worker removes and because at most one worker thread exists while the process
lives (`ThreadInv`: a thread is there if and only if `myThread` is joinable, and
a launch over a joinable one terminates). `OrderInv` adds that every message is
at most `allocated`, so that a push keeps the order. The lemma `WithoutHead`
(`LockedQueueLemmas`) says that removing the head of a sequence without
repetitions gives its tail; it is where `std::list::remove` by value meets
removal of the front.

The module also proves, for every set of controllers, every bound and every
initial `isRunning`, that `run()` and `stop()` keep their promises to a thread that makes all the
calls (`Alone`): `OneControllerNeverTerminates`, `OneControllerCalls`
(`CallsKeepTheirWord`). The invariant `ControlInv` relates such a thread's place
in its calls to `isRunning`, `joinable` and the place of the worker thread. What it can not
promise is that the first `run()` launches: where the uninitialised `isRunning` happens to
be true it does not, and `CallsKeepTheirWord` excepts that call.
`OneControllerServingAccepts` adds, for a worker that enables its queue
(`EnablesQueue`), that the queue accepts while it is served: `ServeInv` extends
`ServingAccepts` back to the worker's own `enable()`, and `ControlInv` says that
`stop()` disables the queue only after `isRunning` is false. `Alone` is needed: `hub_two_stops`
shows what a second caller of `stop()` does.

Sleep and wakeup are proved for controllers that are not alone.
`NoWakeupIsMissed` (`NoWakeupMissed`) follows from `WakeInv`: the worker is among the waiters
only inside `front()`, and as long as what it found there holds, because whatever changes it
notifies. `SleeperIsWoken` (`ToldToStopIsWoken`) is about a
thread that is slow to start and turns waiting on after `stop()` has turned it off: while
`isRunning` is false it is asleep only if some `stop()` is still to call `disableWait()`. `WokenInv`
says the same of a worker that is inside `front()` with waiting turned on, asleep or not: it came
there by a loop test that found `isRunning` true, so that whoever has cleared it since has not
called `disableWait()` yet. A `stop()` may
join a sleeping thread all the same when another `run()` has set `isRunning` meanwhile, which is why
`StopReturns` excepts a worker that is started again; what is left of it for TLC is that the
thread that has been woken gets to its end.

`OscServerProofs` proves for every set of io threads, every number of packets and every
number of messages sent: `TypeCorrect`, `ReceiveLoopIsOne` (`OneReceive`) and
`SharedParserIsSafe` (`ParsedInOrder`). The receive loop is treated as a token
that is a pending receive, a received packet's handler in `ready`, or an io
thread inside that handler. `OneReceive` says that there is one; to be inductive
it needs `LoopInv`, that the three places exclude each other and that an abort
takes the token away for good. `OrderInv` says which packet the token carries, the newest one, and that
nothing as new has been parsed: from this the order follows although `ready` is
served by any number of threads. `SendInv` bounds the sends in flight by what was received
and handed over, counting the answer the token owes; the bound in `TypeOK` is not
inductive without it. All of it holds until an exception ends the process.

`WsApiProofs` proves for every set of sessions and every number of jobs:

- `TypeCorrect`, `WorkInProcessStaysQueued` (`InProcessStillQueued`) and
  `UrgentOvertakes` (`UrgentFirst`), without further assumptions, so also when ids
  wrap. `QInv` adds to them that
  a job is in the hands of one session or in the queue, never both, and has been
  numbered before (`HeldInv`, `QueueInv`), and that urgent ones stand in front of all
  others (`UrgentInFront`): that is how an urgent job overtakes, and why the removal of
  the job in process takes out exactly that one wherever the sessions have
  pushed it.
- `ImplementsJobBoard` (`JobBoardSpec`), if `NoWrap`: fewer jobs than ids. `JInv` gives each job one fate, a
  stored result, a delivered one or none (`FateInv`), and says that a job in
  the queue has a fate only between the worker's store and remove (`PendingInv`).
  Every action is then a step of the board or a stutter. `NoWrap` is needed: with a
  repeated id the second result overwrites the first. The code allows 2^32 jobs in the life of
  the process.
- `OwedStaysHeld` (`OwedIsHeld`) and `ListsAreComplete` (`ListComplete`), if `NoWrap`, whether or
  not the queue is enabled. `KeptInv` says that a job that is owed (its id given out, and not
  dropped, failed or fetched) is in the queue or in the map, and that a `list` between
  its two looks has found what it must or will find it in the map.
- `EnqueuedIsYetToFinish` (`EnqueuedIsUnfinished`), if `NoWrap`, from `PendingInv`: a `get` finds in the
  queue a job that has a fate already only between the worker's store and remove.
- `NoWakeupIsMissed`, without further assumptions: the worker sleeps only on an empty queue, whichever end
  the sessions push at.

`MidiCodecProofs` proves for all data bytes and ports, any number of peers and any bundles
around the packet: `MidiSendsWholeMessages` (`SendsWholeMessages`) and `OscReadsWhatWasPacked` (`OscRoundTrip`).
The first is a matter of cases over the status bytes (`ArrivedInv`). The second rests
on `SentInv`, that every packet of `sent` after the first is a bundle with the packet before
it among fillers, and on `ReadInv`: while `handlePacket` reads, either nothing of the message has been
decoded and one of the packets of `sent` stands in `toRead` among fillers, or all of it has been and only
fillers are left. Opening a bundle takes `toRead` to the packet before it in `sent`, which is the
descent of the recursion; no induction over the depth of bundles is needed, for which
the prover has no rule.

`WsSessionProofs` proves for every set of connections and every number of requests:
`TypeCorrect` and `SecondIsNotAnswered`, that no session ever answers more
than one request. The last is the general form of what `ws_session_buffer` shows, and follows
from `SessionInv`: `o_buffer` is filled only by a read that found `i_buffer` empty
before, and `i_buffer` never becomes empty again.

`SpiLinkProofs` proves for every set of messages and of frames, lists of any
length, any room and all bounds: `TypeCorrect`, `DecoderStaysInStep` (`InStep`),
`TempoIsVouchedFor` (`TempoIsWhole`) and `MidiIsPassedOn` (`MidiPassedOn`). `InStep` only speaks of the ends of a
frame; the invariant `FrameInv` gives the decoder's state and count as a function of
how many bytes of the frame have been sent, in a MIDI frame (`InMidiFrame`), in a tempo
(`InTempoFrame`, with the bytes already stored) and otherwise. `MessageInv` says which bytes
of the current MIDI message wait in `cmd_in` and `val1_in`. Nothing in it refers to the
transfer, which is why the cuts between transfers, a `stop()` and a `start()` do not
matter. The theorems rest on `IncomingAssumption`.

`HubProofs` proves for every set of io threads, all bounds and every initial
`isRunning`: `RunLeavesNoWorker` (`LeavesNoWorker`), `ServerIsOscServer` (`OscServerSpec`) and
`WorkerIsQueueWorker` (`QueueWorkerSpec`). The
invariant `OnlyRunControls` says that until `stop()` comes to the worker,
`isRunning` holds from `run()`'s start of the worker to `run()`'s stop, so that this stop is the one
that joins; and `main` is about to launch only when there is no thread to
replace, so that nothing but a packet ends the process. By `ServerIsOscServer` the
theorems of `OscServerProofs` hold of the hub as well, and by `WorkerIsQueueWorker` those of
`QueueWorkerProofs`, each under its own assumptions, hold of the hub's worker and of the two threads as its
callers. The refinement mapping gives `QueueWorker` a `terminated` that stays false: a step
of the worker and its callers is the same step of `QueueWorker`, a launch is one that finds
no thread to replace, and all else, the end of the process included, leaves the worker as it is.

The inductive invariants have been checked by TLC on the instances of the runs before they were
proved, those of `QueueWorkerProofs` also with three controllers.

Only model-checked is liveness (`StopReturns`, `Drains`, `JobsFinish`, `AbortReturns`, `ShutdownEnds`,
`LineMoves`, those of `WsSession`), which is beyond the prover. Every invariant and every
other action property or refinement of the runs that pass is stated by a theorem, with
the assumptions named above.

## 5. Seen while modelling

Plain readings of the code, which need no exploration of states:

- `XypiHub` never runs `MidiWorker` and `WSApiWorker`, so that `midiOutQ` and `cmdQ`
  have no consumer, and nothing ever enables `cmdQ` (`wsapi_worker.cpp:54` lacks
  the `enable()` of `osc_worker.cpp:58`): every scheduled command would be dropped
  after its id was given out, although `wsapi_handler.cpp:92` calls such an id "the id of a
  previously queued request". The run `api` is about a queue that is enabled, and hides this.
- `isRunning` of the OSC worker is not initialised (`osc_worker.h:22`): where it happens to be true, the
  first `run()` launches no thread, although `osc_worker.cpp:30` says it does. Models and
  theorems allow for it.
- Nothing pushes to `midiOutQ`: the callback pushes to `oscInQ` and `spiInQ` only
  (`midi_worker.cpp:92-93`).
- `WSServer::accept` starts no accept (`ws_server.cpp:83-86`), although lines 75-76 say "unless we're
  specifically cancelled, we relaunch", and `shared_from_this()` in the commented-out call would throw `bad_weak_ptr`, since a `unique_ptr` holds the
  server (`xypi_hub.h:37`).
- `handlePacket` leaves what it decoded in a local variable
  (`osc_handler.cpp:132`), while `osc_handler.h:14` says it is queued.
- `pack` reports success for types it does not know, and a buffer of 1024 zeros is
  sent (`osc_handler.cpp:56`).
- `MidiWorker::runner` tests for the same type twice (`midi_worker.cpp:213`): lists
  are never sent.
- `onAccept` and `onWrite` throw out of a completion handler, and so does a packet
  that `parse` cannot read: the exception leaves `ioService.run()`.
- The exception handlers of `process` return a json object where a pair is
  expected (`wsapi_handler.cpp:78`), which throws again.
- Handler and worker are given references to two different temporary results
  maps (`xypi_hub.cpp:37` and `39`); `WsApi` models the one that is meant.
- `PiSpi` reports that it skips a list of more than 127 messages (`pi_spi.cpp:151`), but
  the list stays at the head of the queue and every further transfer is empty.
- `CmdMsg` has the type of a tempo message and drops its argument (`message.h:86`), so
  that a `duino_cmd` is never sent.
- `set_tempo`, `tempo_requested` and `incoming_tempo` have no initialisers (`pi_spi.h:36`), and
  the static decoder keeps the `this` of the first `PiSpi` (`pi_spi.cpp:62`).
- `scanPorts` counts and names output ports through `midiIn`, which may be null
  (`midi_worker.cpp:60`), and `openPorts` opens virtual ports where there are none.
- The queues of the hub are destroyed before `midiWorker`, whose callback pushes to
  them (`xypi_hub.h:39-42`).
- The constructor gives `make_address` a string that is no address
  (`xypi_hub.cpp:35`); the models begin after it.

## 6. Not modelled

- A `PiSpi` whose device could not be opened (its `start()` does nothing), the Arduino
  and the header it shares with the hub, of which only the commands' names are known.
- Construction and destruction of the hub, its object lifetimes, option parsing.
- `ws_server_coro`, `ws_session_handler_coro`: not in the CMake build, and not reached by any
  source that is.
- `scanPorts`, `openPorts`, logging, json formatting, `set_current_destination`.

## 7. Plan

Done: `LockedQueue`, `LockedMap`, `QueueWorker` with `FifoChannel`, `WsApi` with
`JobBoard`, `OscServer`, `MidiCodec`, `WsSession`, `SpiLink`, `Hub`, and the proofs of section 4.

To come: `WsApi` past the wrap of `cmdid`, where `NoWrap` does not hold and a result may
be given for the command of another client.
