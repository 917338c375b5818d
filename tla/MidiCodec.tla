----------------------------- MODULE MidiCodec -----------------------------
(***************************************************************************)
(* The conversions between MIDI bytes, xymsg messages and OSC packets: the *)
(* RtMidi callback, runner() and sendMIDI of MidiWorker (midi_worker.cpp), *)
(* oscapi::Processor (osc_handler.cpp) and the calls OSCServer makes of it *)
(* (osc_server.cpp).                                                       *)
(*                                                                         *)
(* The conversions are operators.  A behaviour follows one message through *)
(* them.  MIDI bytes that arrive, or a message that is pushed to oscInQ,   *)
(* become what an OSCWorker sends and a Processor such as this one reads.  *)
(* A message that is pushed to midiOutQ becomes what a MidiWorker sends;   *)
(* nothing in the repository pushes to that queue, so that its messages    *)
(* are the environment's.                                                  *)
(*                                                                         *)
(* A packet is a bundle of packets, a message with an address and its      *)
(* arguments, or a buffer that nothing was written to.  Reading and        *)
(* writing the binary form of OSC is the library's part.                   *)
(*                                                                         *)
(* handlePacket calls itself for the packets of a bundle; here it is the   *)
(* steps of reading the packets that are still to be read, in the order in *)
(* which those calls come.                                                 *)
(***************************************************************************)
EXTENDS Integers, Sequences

CONSTANTS
  Data,      \* the data bytes of the messages, some of 0..127
  Ports,     \* the ports of the messages, some of 0..255
  MaxHops,   \* bound: the peers that put the packet into a bundle
  MaxBeside  \* bound: the packets that a peer puts on either side of it

ASSUME DataAssumption == Data \subseteq 0..127
ASSUME PortsAssumption == Ports \subseteq 0..255
ASSUME BoundsAssumption == MaxHops \in Nat /\ MaxBeside \in Nat

VARIABLES
  pc,       \* where the message is
  bytes,    \* the MIDI message that msg is made of, <<>> when of none
  msg,      \* the xymsg message
  sent,     \* the OSC packet that carries it, as each one sent it in turn
  toRead,   \* packets that handlePacket has still to read, next one first
  decoded,  \* the MIDI messages that handlePacket found in the packet
  out       \* MIDI messages given to RtMidi, oldest first

vars == <<pc, bytes, msg, sent, toRead, decoded, out>>

-----------------------------------------------------------------------------
(* xymidi::cmd and the types of xymsg::msg_t.                              *)
Cmd == [noteOff |-> 128, noteOn |-> 144, keyPress |-> 160, ctrl |-> 176,
        prog |-> 192, chanPress |-> 208, bend |-> 224, sysxStart |-> 240,
        timeCode |-> 241, songPos |-> 242, songSel |-> 243, tuneReq |-> 246,
        sysxEnd |-> 247, clock |-> 248, start |-> 250, cont |-> 251,
        stop |-> 252, sensing |-> 254, sysReset |-> 255]

Midi(cmd, val1, val2, port) ==
  [cmd |-> cmd, val1 |-> val1, val2 |-> val2, port |-> port]

MidiMsg(m) == [type |-> "midi", midi |-> <<m>>]
MidiListMsg(ms) == [type |-> "midi_list", midi |-> ms]
OtherMsg == [type |-> "tempo", midi |-> <<>>]

-----------------------------------------------------------------------------
(* The callback that openPorts gives to RtMidi: messages of up to three    *)
(* bytes, the missing ones zero, without a port.                           *)
FromMidi(b) ==
  MidiMsg(Midi(b[1], IF Len(b) > 1 THEN b[2] ELSE 0,
                     IF Len(b) > 2 THEN b[3] ELSE 0, 0))

(* sendMIDI: how many bytes of a message it sends, none for a command it   *)
(* does not know.                                                          *)
ChanCmd(cmd) == cmd - (cmd % 16)

\* Mutant of SentLength: channel pressure is taken for a message with a key.
SentLengthOfPressure(cmd) ==
  CASE cmd = Cmd.songPos -> 3
    [] cmd \in {Cmd.timeCode, Cmd.songSel} -> 2
    [] cmd \in {Cmd.clock, Cmd.start, Cmd.cont, Cmd.stop, Cmd.sensing, Cmd.tuneReq} -> 1
    [] ChanCmd(cmd) \in {Cmd.noteOn, Cmd.noteOff, Cmd.keyPress, Cmd.ctrl, Cmd.bend, Cmd.chanPress} -> 3
    [] ChanCmd(cmd) \in {Cmd.prog} -> 2
    [] OTHER -> 0

SentLength(cmd) ==
  CASE cmd = Cmd.songPos -> 3
    [] cmd \in {Cmd.timeCode, Cmd.songSel} -> 2
    [] cmd \in {Cmd.clock, Cmd.start, Cmd.cont, Cmd.stop, Cmd.sensing, Cmd.tuneReq} -> 1
    [] ChanCmd(cmd) \in {Cmd.noteOn, Cmd.noteOff, Cmd.keyPress, Cmd.ctrl, Cmd.bend} -> 3
    [] ChanCmd(cmd) \in {Cmd.prog, Cmd.chanPress} -> 2
    [] OTHER -> 0

ToMidi(m) == SubSeq(<<m.cmd, m.val1, m.val2>>, 1, SentLength(m.cmd))

-----------------------------------------------------------------------------
(* Processor::pack: the address is /midi, followed by one character for a  *)
(* port that is not 0.  The suffix holds that character's code; the        *)
(* character NUL ends the address before it.                               *)
MidiAddress(port) ==
  LET char == (48 + port) % 256 IN
  [base |-> "/midi", suffix |-> IF port = 0 \/ char = 0 THEN <<>> ELSE <<char>>]

Message(address, args) ==
  [kind |-> "message", address |-> address, args |-> args]
Bundle(packets) == [kind |-> "bundle", packets |-> packets]
Zeroed == [kind |-> "zeroed"]

(* Any type other than midi leaves the buffer zeroed and its length 1024,  *)
(* and is sent all the same.                                               *)
Pack(m) ==
  IF m.type = "midi"
  THEN Message(MidiAddress(m.midi[1].port), m.midi)
  ELSE Zeroed

(* The packet of the fixed answer, send_message("/viskas/gerai", {...}).   *)
AnswerPacket == Message([base |-> "/viskas/gerai", suffix |-> <<>>], <<>>)

(* osc_re: /midi and at most one digit.                                    *)
MatchesMidi(address) ==
  /\ address.base = "/midi"
  /\ Len(address.suffix) <= 1
  /\ \A i \in DOMAIN address.suffix : address.suffix[i] \in 48..57

(* What handlePacket takes from a message: its first argument, when the    *)
(* address matches.  Without one the library throws, and handlePacket      *)
(* catches it and goes on.                                                 *)
MidiIn(m) ==
  IF MatchesMidi(m.address) /\ m.args # <<>> THEN <<m.args[1]>> ELSE <<>>

(* What a peer may put beside a packet: the fixed answer of a hub, a       *)
(* bundle of it, a bundle of nothing, and a /midi message without a MIDI   *)
(* argument.                                                               *)
Filler == {AnswerPacket, Bundle(<<AnswerPacket>>), Bundle(<<>>),
           Message(MidiAddress(0), <<>>)}

Beside == UNION {[1..n -> Filler] : n \in 0..MaxBeside}

-----------------------------------------------------------------------------
(* The MIDI messages that arrive: RtMidi delivers whole messages, and      *)
(* openPorts has it ignore none.                                           *)
StandardLength(status) ==
  IF status < 240 THEN IF status \in 192..223 THEN 2 ELSE 3
  ELSE CASE status = 241 \/ status = 243 -> 2
         [] status = 242 -> 3
         [] OTHER -> 1

Statuses(length) ==
  {s \in (128..255) \ {Cmd.sysxStart} : StandardLength(s) = length}

Arriving ==
  {<<s>> : s \in Statuses(1)}
    \cup (Statuses(2) \X Data)
    \cup (Statuses(3) \X Data \X Data)
    \cup {<<Cmd.sysxStart, Cmd.sysxEnd>>}
    \cup ({Cmd.sysxStart} \X Data \X {Cmd.sysxEnd})
    \cup ({Cmd.sysxStart} \X Data \X Data \X {Cmd.sysxEnd})

(* Messages that others push: single ones, a list, one of another type ... *)
Made ==
  {MidiMsg(m) : m \in [cmd : {Cmd.noteOn, Cmd.songSel, Cmd.sensing},
                       val1 : Data, val2 : {0}, port : Ports]}
    \cup {MidiListMsg(<<Midi(Cmd.noteOn, d, d, 0), Midi(Cmd.noteOff, d, 0, 0)>>) : d \in Data}
    \cup {OtherMsg}

(* ... and, to midiOutQ, MIDI messages in the form that the callback gives *)
(* them.                                                                   *)
Outgoing == {b \in Arriving : Len(b) <= 3}

Init ==
  /\ \/ pc = "arrived" /\ bytes \in Arriving /\ msg = OtherMsg
     \/ pc = "queued" /\ bytes = <<>> /\ msg \in Made
     \/ pc = "midiQueued" /\ bytes = <<>> /\ msg \in Made
     \/ pc = "midiQueued" /\ bytes \in Outgoing /\ msg = FromMidi(bytes)
  /\ sent = <<>> /\ toRead = <<>>
  /\ decoded = <<>> /\ out = <<>>

(* The message is pushed to oscInQ, and to spiInQ, which is SpiLink's.     *)
Callback ==
  /\ pc = "arrived"
  /\ \/ /\ Len(bytes) <= 3
        /\ pc' = "queued"
        /\ msg' = FromMidi(bytes)
     \/ /\ Len(bytes) > 3
        /\ pc' = "dropped"
        /\ UNCHANGED msg
  /\ UNCHANGED <<bytes, sent, toRead, decoded, out>>

(* OSCServer::send_message(msg).                                           *)
SendOsc ==
  /\ pc = "queued"
  /\ pc' = "packed"
  /\ sent' = <<Pack(msg)>>
  /\ UNCHANGED <<bytes, msg, toRead, decoded, out>>

(* The packet on its way.                                                  *)
packet == sent[Len(sent)]

(* A peer passes the packet on in a bundle of its own.                     *)
PeerForwards ==
  /\ pc = "packed" /\ packet # Zeroed
  /\ Len(sent) <= MaxHops
  /\ \E before, after \in Beside :
       sent' = Append(sent, Bundle(before \o <<packet>> \o after))
  /\ UNCHANGED <<pc, bytes, msg, toRead, decoded, out>>

(* Processor::parse.                                                       *)
Parse ==
  /\ pc = "packed" /\ packet # Zeroed
  /\ pc' = "parsing"
  /\ toRead' = <<packet>>
  /\ UNCHANGED <<bytes, msg, sent, decoded, out>>

(* handlePacket, on packets the library can read.  A bundle's packets are  *)
(* read before anything that follows the bundle.                           *)
HandleBundle ==
  /\ pc = "parsing" /\ toRead # <<>> /\ Head(toRead).kind = "bundle"
  /\ toRead' = Head(toRead).packets \o Tail(toRead)
  /\ UNCHANGED <<pc, bytes, msg, sent, decoded, out>>

\* Mutant of HandleMessage: the first message of the packet is all it reads.
HandleOneMessage ==
  /\ pc = "parsing" /\ toRead # <<>> /\ Head(toRead).kind = "message"
  /\ toRead' = <<>>
  /\ decoded' = decoded \o MidiIn(Head(toRead))
  /\ UNCHANGED <<pc, bytes, msg, sent, out>>

(* A message whose address matches has its MIDI argument taken.  It stays  *)
(* in a local variable: the queue that the Processor was given is never    *)
(* pushed to.                                                              *)
HandleMessage ==
  /\ pc = "parsing" /\ toRead # <<>> /\ Head(toRead).kind = "message"
  /\ toRead' = Tail(toRead)
  /\ decoded' = decoded \o MidiIn(Head(toRead))
  /\ UNCHANGED <<pc, bytes, msg, sent, out>>

ParseReturns ==
  /\ pc = "parsing" /\ toRead = <<>>
  /\ pc' = "parsed"
  /\ UNCHANGED <<bytes, msg, sent, toRead, decoded, out>>

(* MidiWorker::runner: its second test repeats the first, so that only a   *)
(* single MIDI message is ever sent.                                       *)
SendMidi ==
  /\ pc = "midiQueued"
  /\ pc' = "sent"
  /\ out' = IF msg.type = "midi" /\ SentLength(msg.midi[1].cmd) > 0
            THEN <<ToMidi(msg.midi[1])>> ELSE <<>>
  /\ UNCHANGED <<bytes, msg, sent, toRead, decoded>>

Next ==
  \/ Callback \/ SendMidi
  \/ SendOsc \/ PeerForwards
  \/ Parse \/ HandleBundle \/ HandleMessage \/ ParseReturns

Spec == Init /\ [][Next]_vars

-----------------------------------------------------------------------------
(* A MIDI message on midiOutQ, in the form in which the callback queues    *)
(* them, goes out with all its bytes and no more, or not at all: sendMIDI  *)
(* knows the length of every command (midi_worker.cpp:149-194).  Only      *)
(* commands without a use here are left out.                               *)
Refused == {Cmd.sysxStart, Cmd.sysxEnd, Cmd.sysReset, 244, 245, 249, 253}

SendsWholeMessages ==
  pc = "sent" /\ bytes # <<>> =>
    out = IF bytes[1] \in Refused THEN <<>> ELSE <<bytes>>

(* What one hub packs, another reads back unchanged, however the peers     *)
(* bundle it, for every port that its address has a digit for.             *)
OscRoundTrip ==
  pc = "parsed" /\ msg.midi[1].port \in 0..9 => decoded = msg.midi
=============================================================================
