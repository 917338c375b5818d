------------------------------ MODULE SpiLink ------------------------------
(***************************************************************************)
(* PiSpi (pi_spi.cpp): the thread that exchanges bytes with the Arduino,   *)
(* its encoder of queued messages and its decoder of the bytes that come   *)
(* back.  Starting and stopping it, and the queue it reads, are those of   *)
(* QueueWorker, whose steps are used here.                                 *)
(*                                                                         *)
(* The link is full duplex: as many bytes come in as go out, so that what  *)
(* the Arduino sends is cut into transfers whose lengths depend on what    *)
(* the hub has to say.  A byte is exchanged and decoded in one step: the   *)
(* transfer only touches the thread's own buffer.                          *)
(*                                                                         *)
(* The Arduino's program and the header that both sides share are not part *)
(* of the repository.  What the Arduino sends is taken to be framed as the *)
(* hub frames what it sends itself, with idle bytes in between.            *)
(* deviceMidiOut and dropped_midi_in (pi_spi.cpp:98-99) are declared       *)
(* nowhere in the repository either: the first is taken to be a buffer of  *)
(* bounded room whose addToBuf returns false when it is full.              *)
(***************************************************************************)
EXTENDS Integers, Sequences

CONSTANTS
  Callers,    \* threads that call start() and stop()
  MaxMsgs,    \* bound: messages pushed in a behaviour
  Outgoing,   \* the messages that may be pushed
  Incoming,   \* the frames that the Arduino may send
  MaxFrames,  \* bound: frames the Arduino sends in a behaviour
  Room        \* MIDI messages that deviceMidiOut holds

Byte == 0..255
Triple == Byte \X Byte \X Byte
Count == 0..127

Messages ==
  [type : {"midi", "null", "ping", "pong", "tempo", "send_tempo", "diag_message",
           "cfg_button", "cfg_pedal", "cfg_xlrm8"},
   midi : Seq(Triple), data : Seq(Byte)]

ASSUME OutgoingAssumption ==
  \A m \in Outgoing : m \in Messages /\ Len(m.data) \in Byte

(* The decoder knows the lengths of two kinds of frames, all others are a  *)
(* single byte to it: it never enters the states that pi_spi.h:16-17 names *)
(* for the length and the data of a diag_message.  A MIDI frame without a  *)
(* message would make its 8-bit counter wrap, and the next 256 triples be  *)
(* taken for MIDI (line 101).                                              *)
ASSUME IncomingAssumption ==
  \A f \in Incoming :
    /\ f \in Messages
    /\ f.type \notin {"cfg_button", "cfg_pedal", "cfg_xlrm8"}
    /\ Len(f.midi) \in (IF f.type = "midi" THEN Count \ {0} ELSE {0})
    /\ Len(f.data) = (IF f.type = "tempo" THEN 4 ELSE 0)
ASSUME MaxMsgsAssumption == MaxMsgs \in Nat
ASSUME MaxFramesAssumption == MaxFrames \in Nat
ASSUME RoomAssumption == Room \in Nat

VARIABLES
  iqueue, isBlocking, qIsRunning, waiters, isRunning, joinable, wpc, cur,
  cpc, terminated, allocated, handled,  \* those of QueueWorker
  made,       \* per message number, the message
  buf,        \* the bytes of the transfer: the first msgLen bytes of buf
  pos,        \* bytes of it exchanged
  spi,        \* the decoder: the members of PiSpi, and deviceMidiOut
  line,       \* frames the Arduino has yet to finish sending
  at,         \* bytes of the first of them that are sent
  done,       \* history: frames sent
  arrived     \* history: MIDI messages sent, of those frames and of the next

W == INSTANCE QueueWorker
       WITH InitialIsRunning <- {FALSE}, EnablesQueue <- TRUE

queueVars == <<iqueue, isBlocking, qIsRunning, waiters>>
workerVars == <<queueVars, isRunning, joinable, wpc, cur, cpc, terminated,
                allocated, handled>>
linkVars == <<made, buf, pos, spi, line, at, done, arrived>>
vars == <<workerVars, linkVars>>

-----------------------------------------------------------------------------
(* Messages and frames have a type, MIDI messages and other data.          *)

midi == 128

(* xyspi::cmd_t, apart from midi.                                          *)
Code == [null |-> 0, ping |-> 1, pong |-> 2, tempo |-> 3, send_tempo |-> 4,
         diag_message |-> 5, cfg_button |-> 6, cfg_pedal |-> 7, cfg_xlrm8 |-> 8]

Triples(ms) == [i \in 1..(3 * Len(ms)) |-> ms[(i + 2) \div 3][1 + ((i + 2) % 3)]]

(* The switch in spiRunner.  A MidiMsg is sent as a list of one.  A list   *)
(* that is too long gives an empty transfer; a config message is its code, *)
(* the index of a button or pedal (here 0), its size and its bytes.        *)
Encode(m) ==
  CASE m.type = "midi" /\ Len(m.midi) \in Count -> <<midi + Len(m.midi)>> \o Triples(m.midi)
    [] m.type = "midi" /\ Len(m.midi) \notin Count -> <<>>
    [] m.type \in {"cfg_button", "cfg_pedal", "cfg_xlrm8"} ->
         <<Code[m.type], 0, Len(m.data)>> \o m.data
    [] m.type \in DOMAIN Code \ {"cfg_button", "cfg_pedal", "cfg_xlrm8"} ->
         <<Code[m.type]>> \o m.data

-----------------------------------------------------------------------------
(* processNextSpiByte.                                                     *)

Decoder ==
  [state : {"command_byte", "midi_data", "midi_data_1", "midi_data_2",
            "tempo_data", "tempo_data_1", "tempo_data_2", "tempo_data_3"},
   n : Byte, cmd : Byte, val1 : Byte, tempo : [1..4 -> Byte],
   set_tempo : BOOLEAN, requested : BOOLEAN,
   midiOut : Seq(Triple), room : 0..Room, dropped : BOOLEAN]

(* The state after a data byte.                                            *)
After == [midi_data |-> "midi_data_1", midi_data_1 |-> "midi_data_2",
          tempo_data |-> "tempo_data_1", tempo_data_1 |-> "tempo_data_2",
          tempo_data_2 |-> "tempo_data_3", tempo_data_3 |-> "command_byte"]
TempoByte == [tempo_data |-> 1, tempo_data_1 |-> 2, tempo_data_2 |-> 3,
              tempo_data_3 |-> 4]

\* Mutant of CommandByte: set_tempo is left as it is.
CommandByteKeepsSet(d, b) ==
  CASE b >= midi -> [d EXCEPT !.state = "midi_data", !.n = b % midi]
    [] b = Code.send_tempo -> [d EXCEPT !.requested = TRUE]
    [] b = Code.tempo -> [d EXCEPT !.state = "tempo_data"]
    [] OTHER -> d

CommandByte(d, b) ==
  CASE b >= midi -> [d EXCEPT !.state = "midi_data", !.n = b % midi]
    [] b = Code.send_tempo -> [d EXCEPT !.requested = TRUE]
    [] b = Code.tempo -> [d EXCEPT !.state = "tempo_data", !.set_tempo = FALSE]
    [] OTHER -> d

\* Mutant of AddToBuf: dropped_midi_in is not set.
AddToBufSilently(d, m) ==
  IF d.room > 0 THEN [d EXCEPT !.midiOut = Append(@, m), !.room = @ - 1] ELSE d

(* deviceMidiOut.addToBuf, as it is taken to be.                           *)
AddToBuf(d, m) ==
  IF d.room > 0 THEN [d EXCEPT !.midiOut = Append(@, m), !.room = @ - 1]
                ELSE [d EXCEPT !.dropped = TRUE]

(* --n_midi_cmd_incoming > 0, on a uint8                                   *)
LastByte(d, b) ==
  LET n == (d.n - 1) % 256
  IN  [AddToBuf(d, <<d.cmd, d.val1, b>>) EXCEPT
         !.n = n, !.state = IF n > 0 THEN "midi_data" ELSE "command_byte"]

NextByte(d, b) ==
  CASE d.state = "command_byte" -> CommandByte(d, b)
    [] d.state = "midi_data" -> [d EXCEPT !.state = After[@], !.cmd = b]
    [] d.state = "midi_data_1" -> [d EXCEPT !.state = After[@], !.val1 = b]
    [] d.state = "midi_data_2" -> LastByte(d, b)
    [] d.state \in DOMAIN TempoByte ->
         [d EXCEPT !.state = After[@], !.tempo[TempoByte[d.state]] = b,
                   !.set_tempo = @ \/ d.state = "tempo_data_3"]

-----------------------------------------------------------------------------

TypeOK ==
  /\ W!TypeOK
  /\ made \in Seq(Outgoing) /\ Len(made) = allocated
  /\ buf \in Seq(Byte) /\ pos \in 0..Len(buf)
  /\ spi \in Decoder
  /\ line \in Seq(Incoming) /\ done \in Seq(Incoming) /\ arrived \in Seq(Triple)
  /\ at \in Nat

(* incoming_tempo, set_tempo and tempo_requested are not initialised; the  *)
(* first is read only where the second says so.                            *)
Init ==
  /\ W!Init
  /\ made = <<>> /\ buf = <<>> /\ pos = 0
  /\ spi \in [state : {"command_byte"}, n : {0}, cmd : {0}, val1 : {0},
              tempo : {[i \in 1..4 |-> 0]}, set_tempo : BOOLEAN,
              requested : BOOLEAN, midiOut : {<<>>}, room : {Room},
              dropped : {FALSE}]
  /\ line = <<>> /\ at = 0 /\ done = <<>> /\ arrived = <<>>

-----------------------------------------------------------------------------
(* The controllers, the producers and the Arduino.                         *)

Caller(c) ==
  /\ W!RunExchange(c) \/ W!StopExchange(c) \/ W!CallerStep(c)
  /\ UNCHANGED linkVars

PushMsg ==
  /\ W!PushMsg
  /\ \E m \in Outgoing : made' = Append(made, m)
  /\ UNCHANGED <<buf, pos, spi, line, at, done, arrived>>

ArduinoSends ==
  /\ Len(line) + Len(done) < MaxFrames
  /\ \E f \in Incoming : line' = Append(line, f)
  /\ UNCHANGED <<workerVars, made, buf, pos, spi, at, done, arrived>>

(* Whoever plays deviceMidiOut empties it.                                 *)
DevicePlays ==
  /\ spi.room < Room
  /\ spi' = [spi EXCEPT !.room = Room]
  /\ UNCHANGED <<workerVars, made, buf, pos, line, at, done, arrived>>

-----------------------------------------------------------------------------
(* spiRunner.                                                              *)

RunnerStarts ==
  /\ W!RunnerEnable \/ W!RunnerEnableWait \/ W!RunnerLoop
  /\ UNCHANGED linkVars

Fills(bytes) ==
  /\ buf' = bytes /\ pos' = 0
  /\ UNCHANGED <<made, spi, line, at, done, arrived>>

(* front(timeout) has the head, which nobody removes ...                   *)
ComposeHead ==
  /\ W!RunnerTakesHead
  /\ Fills(Encode(made[cur']))

\* Mutant of ComposePing: nothing is sent on a timeout.
ComposeNothing ==
  /\ W!WorkerMoves("front", "handle")
  /\ iqueue = <<>>
  /\ Fills(<<>>)
  /\ UNCHANGED <<queueVars, cur, handled>>

(* ... or nothing, after the timeout or at once when waits are disabled.   *)
ComposePing ==
  /\ W!WorkerMoves("front", "handle")
  /\ iqueue = <<>>
  /\ Fills(<<Code.ping>>)
  /\ UNCHANGED <<queueVars, cur, handled>>

(* The byte that comes in for one that goes out: the next of a frame, or   *)
(* an idle one.                                                            *)
NextBytes ==
  IF line = <<>> THEN {Code.null, Code.pong} ELSE {Encode(Head(line))[at + 1]}

LineAdvances ==
  /\ IF line # <<>> /\ at + 1 = Len(Encode(Head(line)))
     THEN line' = Tail(line) /\ at' = 0 /\ done' = Append(done, Head(line))
     ELSE at' = (IF line = <<>> THEN 0 ELSE at + 1) /\ UNCHANGED <<line, done>>
  /\ arrived' = IF at > 0 /\ at % 3 = 0 /\ Head(line).type = "midi"
                THEN Append(arrived, Head(line).midi[at \div 3]) ELSE arrived

\* Mutant of Decodes: the state is a local variable of the loop.
DecodesAfresh(b) ==
  spi' = NextByte(IF pos = 0 THEN [spi EXCEPT !.state = "command_byte"] ELSE spi, b)

Decodes(b) == spi' = NextByte(spi, b)

\* Mutant of ExchangeByte: i <= msgLen.
ExchangeOneMore ==
  /\ W!WorkerMoves("handle", "handle")
  /\ pos <= Len(buf)
  /\ pos' = pos + 1
  /\ \E b \in NextBytes : Decodes(b)
  /\ LineAdvances
  /\ UNCHANGED <<queueVars, cur, handled, made, buf>>

ExchangeByte ==
  /\ W!WorkerMoves("handle", "handle")
  /\ pos < Len(buf)
  /\ pos' = pos + 1
  /\ \E b \in NextBytes : Decodes(b)
  /\ LineAdvances
  /\ UNCHANGED <<queueVars, cur, handled, made, buf>>

\* Mutant of TransferEnds: isRunning is not read again.
TransferRepeats ==
  /\ W!WorkerMoves("handle", "front")
  /\ pos = Len(buf)
  /\ buf' = <<>> /\ pos' = 0 /\ cur' = 0
  /\ UNCHANGED <<queueVars, handled, made, spi, line, at, done, arrived>>

(* A pong only chooses whether to sleep.                                   *)
TransferEnds ==
  /\ W!WorkerMoves("handle", "loop")
  /\ pos = Len(buf)
  /\ buf' = <<>> /\ pos' = 0 /\ cur' = 0
  /\ UNCHANGED <<queueVars, handled, made, spi, line, at, done, arrived>>

RunnerStep ==
  RunnerStarts \/ ComposeHead \/ ComposePing \/ ExchangeByte \/ TransferEnds

-----------------------------------------------------------------------------

Next ==
  \/ \E c \in Callers : Caller(c)
  \/ PushMsg
  \/ ArduinoSends
  \/ DevicePlays
  \/ RunnerStep

Spec == Init /\ [][Next]_vars

(* The thread keeps being scheduled, so does a call that has begun.        *)
FairSpec ==
  /\ Spec
  /\ WF_vars(RunnerStep)
  /\ \A c \in Callers : WF_vars(W!CallerStep(c) /\ UNCHANGED linkVars)

-----------------------------------------------------------------------------
(* The decoder looks for a command exactly where the Arduino sends one:    *)
(* however frames are cut into transfers, and across a stop() and start()  *)
(* in the middle of one (pi_spi.cpp:63-118).                               *)
InStep == spi.state = "command_byte" <=> at = 0

(* The MIDI messages that arrive are passed on, each once and in order; if *)
(* one is missing, dropped_midi_in says so, and only then                  *)
(* (pi_spi.cpp:96-101).                                                    *)
MidiPassedOn ==
  IF spi.dropped THEN Len(spi.midiOut) < Len(arrived) ELSE spi.midiOut = arrived

(* set_tempo vouches for incoming_tempo: once a tempo has begun to come    *)
(* in, it is set exactly when the four bytes are those of the last one     *)
(* that has come in whole (pi_spi.cpp:79-118).                             *)
LastTempo(i) ==
  /\ done[i].type = "tempo"
  /\ \A j \in DOMAIN done : j > i => done[j].type # "tempo"
TempoBegun == at > 0 /\ Head(line).type = "tempo"

TempoIsWhole ==
  IF TempoBegun THEN ~spi.set_tempo
  ELSE \A i \in DOMAIN done :
         LastTempo(i) => spi.set_tempo /\ spi.tempo = done[i].data

(* What the Arduino sends comes in while the thread is running, although   *)
(* the hub may have nothing to say or the same thing for ever.  It needs   *)
(* that no message is too long to be sent: one at the head of the queue,   *)
(* which is never removed, stops all transfers (pi_spi.cpp:150).           *)
LineMoves == line # <<>> /\ isRunning ~> line = <<>> \/ ~isRunning

(* Every stop() returns, whatever transfer it finds the thread in.         *)
StopReturns == W!StopReturns
=============================================================================
