--------------------------- MODULE SpiLinkProofs ---------------------------
(***************************************************************************)
(* Theorems about SpiLink for every set of messages pushed and of frames   *)
(* received, every length of the lists in them, every room for MIDI        *)
(* messages and all bounds.                                                *)
(*                                                                         *)
(* The decoder's state and count are a function of how far the Arduino is  *)
(* in its frame: FrameInv says which one, for a MIDI frame (InMidiFrame),  *)
(* a tempo (InTempoFrame) and everything else.  MidiInv adds which bytes   *)
(* of a MIDI message the decoder holds, TempoInv which bytes of a tempo.   *)
(* The bytes that the hub sends only matter in that they are bytes         *)
(* (WorkerInv, TransferInv): nothing the decoder does depends on them, nor *)
(* on where a transfer ends.                                               *)
(***************************************************************************)
EXTENDS SpiLink, TLAPS

-----------------------------------------------------------------------------
(* The encoder: a message is bytes, of which a frame's first tells what    *)
(* the rest are.                                                           *)

LEMMA TriplesBytes ==
  ASSUME NEW ms \in Seq(Triple)
  PROVE  Triples(ms) \in Seq(Byte) /\ Len(Triples(ms)) = 3 * Len(ms)
<1>1. \A m \in Triple, k \in 1..3 : m[k] \in Byte
  BY DEF Triple
<1>2. ASSUME NEW i \in 1..(3 * Len(ms))
      PROVE  ms[(i + 2) \div 3][1 + ((i + 2) % 3)] \in Byte
  <2>1. (i + 2) \div 3 \in 1..Len(ms) /\ 1 + ((i + 2) % 3) \in 1..3
    OBVIOUS
  <2>2. ms[(i + 2) \div 3] \in Triple
    BY <2>1
  <2>3. QED
    BY <1>1, <2>1, <2>2
<1>3. 3 * Len(ms) \in Nat
  OBVIOUS
<1>4. Triples(ms) \in [1..(3 * Len(ms)) -> Byte]
  BY <1>2 DEF Triples
<1>5. QED
  BY <1>3, <1>4

Config == {"cfg_button", "cfg_pedal", "cfg_xlrm8"}
Bare == {"null", "ping", "pong", "tempo", "send_tempo", "diag_message"}

LEMMA Codes == DOMAIN Code = Bare \cup Config /\ \A t \in DOMAIN Code : Code[t] \in 0..8
  BY DEF Code, Bare, Config

LEMMA OneByteMore ==
  ASSUME NEW x \in Byte, NEW q \in Seq(Byte)
  PROVE  /\ <<x>> \o q \in Seq(Byte) /\ Len(<<x>> \o q) = 1 + Len(q)
         /\ (<<x>> \o q)[1] = x
OBVIOUS

LEMMA EncodeMidi ==
  ASSUME NEW m \in Messages, m.type = "midi", Len(m.midi) \in Count
  PROVE  /\ Encode(m) = <<midi + Len(m.midi)>> \o Triples(m.midi)
         /\ Encode(m) \in Seq(Byte)
         /\ Len(Encode(m)) = 1 + 3 * Len(m.midi)
         /\ Encode(m)[1] = midi + Len(m.midi)
<1>1. Encode(m) = <<midi + Len(m.midi)>> \o Triples(m.midi)
  BY Codes DEF Encode, Bare, Config
<1>2. Triples(m.midi) \in Seq(Byte) /\ Len(Triples(m.midi)) = 3 * Len(m.midi)
  BY TriplesBytes DEF Messages
<1>3. midi + Len(m.midi) \in Byte
  <2>1. \A n \in Count : midi + n \in Byte
    BY DEF Count, midi, Byte
  <2>2. Len(m.midi) \in Count
    OBVIOUS
  <2>3. QED
    BY <2>1, <2>2
<1>4. Encode(m) \in Seq(Byte) /\ Len(Encode(m)) = 1 + Len(Triples(m.midi))
      /\ Encode(m)[1] = midi + Len(m.midi)
  <2> DEFINE x == midi + Len(m.midi)
             q == Triples(m.midi)
  <2>1. x \in Byte /\ q \in Seq(Byte) /\ Encode(m) = <<x>> \o q
    BY <1>1, <1>2, <1>3
  <2> HIDE DEF x, q
  <2>2. <<x>> \o q \in Seq(Byte) /\ Len(<<x>> \o q) = 1 + Len(q)
        /\ (<<x>> \o q)[1] = x
    BY <2>1, OneByteMore
  <2>3. Encode(m) \in Seq(Byte) /\ Len(Encode(m)) = 1 + Len(q) /\ Encode(m)[1] = x
    BY <2>1, <2>2
  <2>4. QED
    BY <2>3 DEF x, q
<1>5. QED
  BY <1>1, <1>2, <1>4

LEMMA EncodeBare ==
  ASSUME NEW m \in Messages, m.type \in Bare
  PROVE  /\ Encode(m) = <<Code[m.type]>> \o m.data
         /\ Code[m.type] \in Byte
         /\ Encode(m) \in Seq(Byte)
         /\ Len(Encode(m)) = 1 + Len(m.data)
         /\ Encode(m)[1] = Code[m.type]
<1>1. Encode(m) = <<Code[m.type]>> \o m.data
  BY Codes DEF Encode, Bare, Config
<1>2. m.data \in Seq(Byte)
  BY DEF Messages
<1>3. Code[m.type] \in Byte
  BY Codes DEF Byte
<1> DEFINE x == Code[m.type]
           q == m.data
<1>4. x \in Byte /\ q \in Seq(Byte) /\ Encode(m) = <<x>> \o q
  BY <1>1, <1>2, <1>3
<1> HIDE DEF x, q
<1>5. <<x>> \o q \in Seq(Byte) /\ Len(<<x>> \o q) = 1 + Len(q)
      /\ (<<x>> \o q)[1] = x
  BY <1>4, OneByteMore
<1>6. Encode(m) \in Seq(Byte) /\ Len(Encode(m)) = 1 + Len(q) /\ Encode(m)[1] = x
  BY <1>4, <1>5
<1>7. QED
  BY <1>4, <1>6 DEF x, q

LEMMA EncodeBytes ==
  ASSUME NEW m \in Messages, Len(m.data) \in Byte
  PROVE  Encode(m) \in Seq(Byte)
<1>1. CASE m.type = "midi" /\ Len(m.midi) \in Count
  BY <1>1, EncodeMidi
<1>2. CASE m.type = "midi" /\ Len(m.midi) \notin Count
  BY <1>2, Codes DEF Encode, Bare, Config
<1>3. CASE m.type \in Bare
  BY <1>3, EncodeBare
<1>4. CASE m.type \in Config
  <2>1. Encode(m) = <<Code[m.type], 0, Len(m.data)>> \o m.data
    BY <1>4, Codes DEF Encode, Bare, Config
  <2>2. Code[m.type] \in Byte /\ 0 \in Byte /\ m.data \in Seq(Byte)
    BY <1>4, Codes DEF Byte, Messages
  <2>3. ASSUME NEW x \in Byte, NEW y \in Byte, NEW q \in Seq(Byte)
        PROVE  <<x, 0, y>> \o q \in Seq(Byte)
    BY <2>2
  <2>4. QED
    BY <2>1, <2>2, <2>3, Zenon
<1>5. m.type \in {"midi"} \cup Bare \cup Config
  BY DEF Messages, Bare, Config
<1>6. QED
  BY <1>1, <1>2, <1>3, <1>4, <1>5

-----------------------------------------------------------------------------
(* The decoder.                                                            *)

MidiStates == {"midi_data", "midi_data_1", "midi_data_2"}
TempoStates == {"tempo_data", "tempo_data_1", "tempo_data_2", "tempo_data_3"}

LEMMA TempoByteDomain == DOMAIN TempoByte = TempoStates
  BY DEF TempoByte, TempoStates

(* What a command byte does: one with the MIDI bit announces a list, that  *)
(* of a tempo four bytes, and all others stand by themselves.              *)
Commanded(d, b, e) ==
  /\ e \in Decoder /\ e.tempo = d.tempo
  /\ b >= midi => /\ e.state = "midi_data" /\ e.n = b % midi
                  /\ e.set_tempo = d.set_tempo
  /\ b = Code.tempo => e.state = "tempo_data" /\ e.set_tempo = FALSE
  /\ b < midi /\ b # Code.tempo => /\ e.state = "command_byte"
                                   /\ e.set_tempo = d.set_tempo

LEMMA AtCommand ==
  ASSUME NEW d \in Decoder, d.state = "command_byte", NEW b \in Byte,
         NEW e, e = NextByte(d, b)
  PROVE  Commanded(d, b, e)
<1> USE DEF Commanded
<1>1. e = CommandByte(d, b)
  BY TempoByteDomain DEF NextByte, TempoStates
<1>2. Code.tempo = 3 /\ Code.send_tempo = 4 /\ midi = 128
  BY DEF Code, midi
<1>3. b \in Int /\ b >= 0 /\ b <= 255
  BY DEF Byte
<1>4. CASE b >= midi
  <2>1. e = [d EXCEPT !.state = "midi_data", !.n = b % midi]
    BY <1>1, <1>2, <1>3, <1>4 DEF CommandByte
  <2>2. b % midi \in Byte
    BY <1>2, <1>3 DEF Byte
  <2>3. e \in Decoder
    BY <2>1, <2>2 DEF Decoder
  <2>4. e.tempo = d.tempo /\ e.state = "midi_data" /\ e.n = b % midi /\ e.set_tempo = d.set_tempo
    BY <2>1 DEF Decoder
  <2>5. QED
    BY <1>2, <1>3, <1>4, <2>3, <2>4
<1>5. CASE b = Code.tempo
  <2>1. e = [d EXCEPT !.state = "tempo_data", !.set_tempo = FALSE]
    BY <1>1, <1>2, <1>5 DEF CommandByte
  <2>2. e \in Decoder
    BY <2>1 DEF Decoder
  <2>3. e.tempo = d.tempo /\ e.state = "tempo_data" /\ e.set_tempo = FALSE
    BY <2>1 DEF Decoder
  <2>4. QED
    BY <1>2, <1>5, <2>2, <2>3
<1>6. CASE b < midi /\ b # Code.tempo
  <2>1. e = d \/ e = [d EXCEPT !.requested = TRUE]
    BY <1>1, <1>2, <1>3, <1>6 DEF CommandByte
  <2>2. e \in Decoder
    BY <2>1 DEF Decoder
  <2>3. e.tempo = d.tempo /\ e.state = d.state /\ e.set_tempo = d.set_tempo
    BY <2>1 DEF Decoder
  <2>4. QED
    BY <1>2, <1>3, <1>6, <2>2, <2>3
<1>7. b >= midi \/ b = Code.tempo \/ (b < midi /\ b # Code.tempo)
  BY <1>2, <1>3
<1>8. QED
  BY <1>4, <1>5, <1>6, <1>7

(* The third byte of a MIDI message counts down the messages to come.      *)
LEMMA InMidi ==
  ASSUME NEW d \in Decoder, d.state \in MidiStates, NEW b \in Byte,
         NEW e, e = NextByte(d, b)
  PROVE  /\ e \in Decoder /\ e.tempo = d.tempo /\ e.set_tempo = d.set_tempo
         /\ d.state = "midi_data" => e.state = "midi_data_1" /\ e.n = d.n
         /\ d.state = "midi_data_1" => e.state = "midi_data_2" /\ e.n = d.n
         /\ d.state = "midi_data_2" =>
              /\ d.n > 1 => e.n = d.n - 1 /\ e.state = "midi_data"
              /\ d.n = 1 => e.state = "command_byte"
<1>1. CASE d.state = "midi_data"
  <2>1. e = [d EXCEPT !.state = "midi_data_1", !.cmd = b]
    BY <1>1, TempoByteDomain DEF NextByte, After, TempoStates
  <2>2. e \in Decoder
    BY <2>1 DEF Decoder
  <2>3. QED
    BY <1>1, <2>1, <2>2 DEF Decoder
<1>2. CASE d.state = "midi_data_1"
  <2>1. e = [d EXCEPT !.state = "midi_data_2", !.val1 = b]
    BY <1>2, TempoByteDomain DEF NextByte, After, TempoStates
  <2>2. e \in Decoder
    BY <2>1 DEF Decoder
  <2>3. QED
    BY <1>2, <2>1, <2>2 DEF Decoder
<1>3. CASE d.state = "midi_data_2"
  <2> DEFINE m == <<d.cmd, d.val1, b>>
             a == AddToBuf(d, m)
             n == (d.n - 1) % 256
             s == IF n > 0 THEN "midi_data" ELSE "command_byte"
  <2>1. m \in Triple
    BY DEF Decoder, Triple
  <2>2. a \in Decoder /\ a.tempo = d.tempo /\ a.set_tempo = d.set_tempo
    <3>1. CASE d.room > 0
      <4>1. a = [d EXCEPT !.midiOut = Append(@, m), !.room = @ - 1]
        BY <3>1 DEF AddToBuf
      <4>2. d.room - 1 \in 0..Room /\ Append(d.midiOut, m) \in Seq(Triple)
        BY <2>1, <3>1, RoomAssumption DEF Decoder
      <4> HIDE DEF m, a
      <4>3. QED
        BY <4>1, <4>2 DEF Decoder
    <3>2. CASE ~(d.room > 0)
      <4>1. a = [d EXCEPT !.dropped = TRUE]
        BY <3>2 DEF AddToBuf
      <4> HIDE DEF m, a
      <4>2. QED
        BY <4>1 DEF Decoder
    <3>3. QED
      BY <3>1, <3>2
  <2>3. e = [a EXCEPT !.n = n, !.state = s]
    BY <1>3, TempoByteDomain DEF NextByte, LastByte, TempoStates
  <2>4. d.n \in 0..255
    BY DEF Decoder, Byte
  <2>5. n \in Byte /\ (d.n > 1 => n = d.n - 1 /\ n > 0) /\ (d.n = 1 => n = 0)
    BY <2>4 DEF Byte
  <2> HIDE DEF m, a, n
  <2>6. e \in Decoder
    BY <2>2, <2>3, <2>5 DEF Decoder
  <2>7. e.tempo = a.tempo /\ e.set_tempo = a.set_tempo /\ e.n = n /\ e.state = s
    BY <2>2, <2>3 DEF Decoder
  <2>8. QED
    BY <1>3, <2>2, <2>5, <2>6, <2>7
<1>4. QED
  BY <1>1, <1>2, <1>3 DEF MidiStates

LEMMA InTempo ==
  ASSUME NEW d \in Decoder, d.state \in TempoStates, NEW b \in Byte
  PROVE  LET e == NextByte(d, b)
         IN  /\ e \in Decoder
             /\ e.state = After[d.state]
             /\ e.tempo = [d.tempo EXCEPT ![TempoByte[d.state]] = b]
             /\ d.state = "tempo_data_3" => e.set_tempo = TRUE
             /\ d.state # "tempo_data_3" => e.set_tempo = d.set_tempo
<1> DEFINE e == NextByte(d, b)
<1>1. e = [d EXCEPT !.state = After[@], !.tempo[TempoByte[d.state]] = b,
                    !.set_tempo = @ \/ d.state = "tempo_data_3"]
  BY TempoByteDomain DEF NextByte, TempoStates
<1> HIDE DEF e
<1>2. After[d.state] \in TempoStates \cup {"command_byte"}
  BY DEF After, TempoStates
<1>3. TempoByte[d.state] \in 1..4
  BY DEF TempoByte, TempoStates
<1>4. [d.tempo EXCEPT ![TempoByte[d.state]] = b] \in [1..4 -> Byte]
  BY <1>3 DEF Decoder
<1>5. (d.set_tempo \/ d.state = "tempo_data_3") \in BOOLEAN
  OBVIOUS
<1>6. e = [d EXCEPT !.state = After[d.state],
                    !.tempo = [d.tempo EXCEPT ![TempoByte[d.state]] = b],
                    !.set_tempo = (d.set_tempo \/ d.state = "tempo_data_3")]
  BY <1>1 DEF Decoder
<1>7. ASSUME NEW s \in TempoStates \cup {"command_byte"},
             NEW q \in [1..4 -> Byte], NEW v \in BOOLEAN,
             e = [d EXCEPT !.state = s, !.tempo = q, !.set_tempo = v]
      PROVE  e \in Decoder /\ e.state = s /\ e.tempo = q /\ e.set_tempo = v
  BY <1>7 DEF Decoder, TempoStates
<1>8. /\ e \in Decoder /\ e.state = After[d.state]
      /\ e.tempo = [d.tempo EXCEPT ![TempoByte[d.state]] = b]
      /\ e.set_tempo = (d.set_tempo \/ d.state = "tempo_data_3")
  BY <1>2, <1>4, <1>5, <1>6, <1>7
<1>9. d.tempo \in [1..4 -> Byte] /\ d.set_tempo \in BOOLEAN
  BY DEF Decoder
<1>10. QED
  BY <1>8, <1>9 DEF e
-----------------------------------------------------------------------------
(* The inductive invariant.                                                *)

(* In the middle of a MIDI frame n counts the messages of which the last   *)
(* byte has yet to come, and the state says which byte of one is next.     *)
InMidiFrame(f) ==
  /\ f.type = "midi"
  /\ spi.n \in 1..Len(f.midi)
  /\ \/ spi.state = "midi_data" /\ at = 3 * (Len(f.midi) - spi.n) + 1
     \/ spi.state = "midi_data_1" /\ at = 3 * (Len(f.midi) - spi.n) + 2
     \/ spi.state = "midi_data_2" /\ at = 3 * (Len(f.midi) - spi.n) + 3

(* In the middle of a tempo the bytes that have come are in their places,  *)
(* and nothing vouches for them.                                           *)
InTempoFrame(f) ==
  /\ f.type = "tempo"
  /\ spi.set_tempo = FALSE
  /\ \/ spi.state = "tempo_data" /\ at = 1
     \/ spi.state = "tempo_data_1" /\ at = 2
     \/ spi.state = "tempo_data_2" /\ at = 3
     \/ spi.state = "tempo_data_3" /\ at = 4
  /\ \A i \in 1..4 : i < at => spi.tempo[i] = f.data[i]

FrameInv ==
  \/ spi.state = "command_byte" /\ at = 0
  \/ line # <<>> /\ (InMidiFrame(Head(line)) \/ InTempoFrame(Head(line)))

(* Outside a tempo the last one that has come in whole is vouched for.     *)
TempoInv ==
  ~TempoBegun =>
    \A i \in DOMAIN done :
      LastTempo(i) => spi.set_tempo = TRUE /\ spi.tempo = done[i].data

LineTypes ==
  spi \in Decoder /\ line \in Seq(Incoming) /\ done \in Seq(Incoming) /\ at \in Nat

LinkInv == LineTypes /\ FrameInv /\ TempoInv

-----------------------------------------------------------------------------
(* Exchanging a byte.                                                      *)

LEMMA FrameLength ==
  ASSUME NEW f \in Incoming
  PROVE  /\ f.type = "midi" => /\ Len(f.midi) \in 1..127
                               /\ Encode(f) \in Seq(Byte)
                               /\ Len(Encode(f)) = 1 + 3 * Len(f.midi)
                               /\ Encode(f)[1] = midi + Len(f.midi)
         /\ f.type = "tempo" => /\ Encode(f) \in Seq(Byte)
                                /\ Len(Encode(f)) = 5
                                /\ Encode(f)[1] = Code.tempo
                                /\ \A i \in 1..4 : Encode(f)[i + 1] = f.data[i]
                                /\ f.data \in [1..4 -> Byte]
         /\ f.type \notin {"midi", "tempo"} =>
               /\ Encode(f) \in Seq(Byte)
               /\ Len(Encode(f)) = 1
               /\ Encode(f)[1] < midi /\ Encode(f)[1] # Code.tempo
<1>1. f \in Messages /\ f.midi \in Seq(Triple) /\ f.data \in Seq(Byte)
  BY IncomingAssumption DEF Messages
<1>2. f.type \in Bare \cup {"midi"}
  BY <1>1, IncomingAssumption DEF Messages, Bare
<1>3. CASE f.type = "midi"
  <2>1. Len(f.midi) \in Count \ {0}
    BY <1>3, IncomingAssumption
  <2>2. \A n \in Count \ {0} : n \in 1..127
    BY DEF Count
  <2>3. QED
    BY <1>1, <1>3, <2>1, <2>2, EncodeMidi
<1>4. CASE f.type = "tempo"
  <2>1. Len(f.data) = 4
    BY <1>4, IncomingAssumption
  <2>2. /\ Encode(f) = <<Code[f.type]>> \o f.data /\ Encode(f) \in Seq(Byte)
        /\ Len(Encode(f)) = 1 + Len(f.data) /\ Encode(f)[1] = Code[f.type]
    BY <1>1, <1>4, EncodeBare DEF Bare
  <2>3. Code[f.type] = Code.tempo
    BY <1>4 DEF Code
  <2>4. ASSUME NEW c, NEW q \in Seq(Byte), Len(q) = 4
        PROVE  (\A i \in 1..4 : (<<c>> \o q)[i + 1] = q[i]) /\ q \in [1..4 -> Byte]
    BY <2>4
  <2>5. f.data \in Seq(Byte)
    BY <1>1
  <2>6. (\A i \in 1..4 : Encode(f)[i + 1] = f.data[i]) /\ f.data \in [1..4 -> Byte]
    BY <2>1, <2>2, <2>4, <2>5
  <2>7. QED
    BY <1>4, <2>1, <2>2, <2>3, <2>6
<1>5. CASE f.type \notin {"midi", "tempo"}
  <2>1. Len(f.data) = 0
    <3>1. Len(f.data) = IF f.type = "tempo" THEN 4 ELSE 0
      BY IncomingAssumption
    <3>2. QED
      BY <1>5, <3>1
  <2>2. f.type \in Bare \ {"tempo"}
    BY <1>2, <1>5 DEF Bare
  <2>3. /\ Encode(f) \in Seq(Byte)
        /\ Len(Encode(f)) = 1 + Len(f.data) /\ Encode(f)[1] = Code[f.type]
    BY <1>1, <2>2, EncodeBare
  <2>4. Code[f.type] < midi /\ Code[f.type] # Code.tempo
    BY <2>2 DEF Code, midi, Bare
  <2>5. QED
    BY <1>5, <2>1, <2>3, <2>4
<1>6. QED
  BY <1>3, <1>4, <1>5

(* The history of what has come in grows by a frame at a time.             *)
LEMMA LastTempoOfLonger ==
  ASSUME done \in Seq(Incoming), NEW f \in Incoming, done' = Append(done, f)
  PROVE  \A i \in DOMAIN done' : LastTempo(i)' =>
           IF f.type = "tempo" THEN done'[i] = f
           ELSE i \in DOMAIN done /\ LastTempo(i) /\ done'[i] = done[i]
<1> SUFFICES ASSUME NEW i \in DOMAIN done', LastTempo(i)'
             PROVE  IF f.type = "tempo" THEN done'[i] = f
                    ELSE i \in DOMAIN done /\ LastTempo(i) /\ done'[i] = done[i]
  OBVIOUS
<1> DEFINE n == Len(done)
<1>1. /\ n \in Nat /\ DOMAIN done = 1..n /\ DOMAIN done' = 1..(n + 1)
      /\ done'[n + 1] = f /\ \A j \in 1..n : done'[j] = done[j]
  OBVIOUS
<1>2. done'[i].type = "tempo" /\ \A j \in DOMAIN done' : j > i => done'[j].type # "tempo"
  BY DEF LastTempo
<1> HIDE DEF n
<1>3. CASE i = n + 1
  BY <1>1, <1>2, <1>3
<1>4. CASE i # n + 1
  <2>1. i \in 1..n /\ n + 1 > i
    BY <1>1, <1>4
  <2>2. f.type # "tempo"
    BY <1>1, <1>2, <2>1
  <2>3. LastTempo(i)
    BY <1>1, <1>2, <2>1 DEF LastTempo
  <2>4. QED
    BY <1>1, <2>1, <2>2, <2>3
<1>5. QED
  BY <1>3, <1>4

(* The byte before the last of a frame leaves it to be finished; with the  *)
(* last, the next frame is at the head of the line.                        *)
LEMMA Advances ==
  ASSUME LineTypes, line # <<>>, LineAdvances
  PROVE  LET f == Head(line)
         IN  /\ f \in Incoming
             /\ at + 1 # Len(Encode(f)) => at' = at + 1 /\ UNCHANGED <<line, done>>
             /\ at + 1 = Len(Encode(f)) =>
                  at' = 0 /\ line' = Tail(line) /\ done' = Append(done, f)
BY DEF LineTypes, LineAdvances

LEMMA FinishedFrame ==
  ASSUME LineTypes, line # <<>>, NEW f \in Incoming, f.type # "tempo",
         at' = 0, done' = Append(done, f), line' = Tail(line),
         spi' \in Decoder, spi'.state = "command_byte",
         spi'.tempo = spi.tempo, spi'.set_tempo = spi.set_tempo,
         TempoInv, ~TempoBegun
  PROVE  LinkInv'
<1>1. LineTypes'
  BY DEF LineTypes
<1>2. FrameInv'
  BY DEF FrameInv
<1>3. \A i \in DOMAIN done' : LastTempo(i)' =>
        i \in DOMAIN done /\ LastTempo(i) /\ done'[i] = done[i]
  BY LastTempoOfLonger DEF LineTypes
<1>4. TempoInv'
  BY <1>3 DEF TempoInv
<1>5. QED
  BY <1>1, <1>2, <1>4 DEF LinkInv

(* No frame is under way.                                                  *)
LEMMA FirstByte ==
  ASSUME LinkInv, at = 0, spi.state = "command_byte",
         NEW b \in NextBytes, Decodes(b), LineAdvances
  PROVE  LinkInv'
<1> USE DEF LinkInv
<1>1. ~TempoBegun /\ spi \in Decoder /\ spi' = NextByte(spi, b)
  BY DEF TempoBegun, Decodes, LineTypes
<1>2. b \in Byte =>
         /\ spi' \in Decoder /\ spi'.tempo = spi.tempo
         /\ b >= midi => spi'.state = "midi_data" /\ spi'.n = b % midi /\ spi'.set_tempo = spi.set_tempo
         /\ b = Code.tempo => spi'.state = "tempo_data" /\ spi'.set_tempo = FALSE
         /\ b < midi /\ b # Code.tempo => spi'.state = "command_byte" /\ spi'.set_tempo = spi.set_tempo
  <2>1. b \in Byte => Commanded(spi, b, spi')
    BY <1>1, AtCommand
  <2>2. QED
    BY <2>1 DEF Commanded
<1>3. CASE line = <<>>
  <2>1. b \in {0, 2} /\ b \in Byte /\ b < midi /\ b # Code.tempo
    BY <1>3 DEF NextBytes, Code, midi, Byte
  <2>2. spi' \in Decoder /\ spi'.state = "command_byte"
        /\ spi'.tempo = spi.tempo /\ spi'.set_tempo = spi.set_tempo
    BY <1>2, <2>1
  <2>3. at' = 0 /\ UNCHANGED <<line, done>>
    BY <1>3 DEF LineAdvances
  <2>4. TempoInv'
    BY <1>1, <2>2, <2>3 DEF TempoInv, LastTempo
  <2>5. QED
    BY <2>2, <2>3, <2>4 DEF LineTypes, FrameInv
<1>4. CASE line # <<>>
  <2> DEFINE f == Head(line)
  <2>1. f \in Incoming /\ b = Encode(f)[1]
    BY <1>4 DEF NextBytes, LineTypes
  <2>2. /\ at + 1 # Len(Encode(f)) => at' = 1 /\ UNCHANGED <<line, done>>
        /\ at + 1 = Len(Encode(f)) =>
             at' = 0 /\ line' = Tail(line) /\ done' = Append(done, f)
    BY <1>4, Advances
  <2>3. line' = line => Head(line') = f
    OBVIOUS
  <2> HIDE DEF f
  <2>4. Code.tempo = 3 /\ midi = 128
    BY DEF Code, midi
  <2>5. CASE f.type = "midi"
    <3>1. Len(f.midi) \in 1..127 /\ b = midi + Len(f.midi)
          /\ Len(Encode(f)) = 1 + 3 * Len(f.midi)
      BY <2>1, <2>5, FrameLength
    <3>2. b \in Byte /\ b >= midi /\ b % midi = Len(f.midi)
      <4>1. \A n \in 1..127 : 128 + n \in 0..255 /\ (128 + n) % 128 = n
        OBVIOUS
      <4>2. b = 128 + Len(f.midi) /\ b >= 128
        BY <2>4, <3>1
      <4>3. PICK n \in 1..127 : n = Len(f.midi)
        BY <3>1
      <4>4. b = 128 + n /\ 128 + n \in 0..255 /\ (128 + n) % 128 = n
        BY <4>1, <4>2, <4>3
      <4>5. b \in Byte /\ b % midi = n
        BY <2>4, <4>4 DEF Byte
      <4>6. QED
        BY <2>4, <4>2, <4>3, <4>5
    <3>3. spi' \in Decoder /\ spi'.state = "midi_data" /\ spi'.n = Len(f.midi)
          /\ spi'.tempo = spi.tempo /\ spi'.set_tempo = spi.set_tempo
      <4>1. b \in Byte /\ b >= midi
        BY <3>2
      <4>2. /\ spi' \in Decoder /\ spi'.tempo = spi.tempo /\ spi'.state = "midi_data"
            /\ spi'.n = b % midi /\ spi'.set_tempo = spi.set_tempo
        BY <1>2, <4>1, Zenon
      <4>3. spi'.n = Len(f.midi)
        BY <3>2, <4>2, Zenon
      <4>4. QED
        BY <4>2, <4>3, Zenon
    <3>4. at' = 1 /\ UNCHANGED <<line, done>>
      <4>1. \A n \in 1..127 : 0 + 1 # 1 + 3 * n
        OBVIOUS
      <4>2. at + 1 # Len(Encode(f))
        BY <3>1, <4>1
      <4>3. QED
        BY <2>2, <4>2
    <3>5. FrameInv'
      <4>1. spi'.n \in 1..Len(f.midi) /\ at' = 3 * (Len(f.midi) - spi'.n) + 1
        <5>1. \A n \in 1..127 : n \in 1..n /\ 1 = 3 * (n - n) + 1
          OBVIOUS
        <5>2. QED
          BY <3>1, <3>3, <3>4, <5>1
      <4>2. InMidiFrame(f)'
        BY <2>3, <2>5, <3>3, <3>4, <4>1 DEF InMidiFrame, f
      <4>3. QED
        BY <1>4, <3>4, <4>2 DEF FrameInv, f
    <3>6. TempoInv'
      BY <1>1, <3>3, <3>4 DEF TempoInv, LastTempo
    <3>7. QED
      BY <3>3, <3>4, <3>5, <3>6 DEF LineTypes
  <2>6. CASE f.type = "tempo"
    <3>1. b = Code.tempo /\ Len(Encode(f)) = 5
      BY <2>1, <2>6, FrameLength
    <3>2. spi' \in Decoder /\ spi'.state = "tempo_data" /\ spi'.set_tempo = FALSE
      <4>1. b \in Byte
        BY <2>4, <3>1 DEF Byte
      <4>2. QED
        BY <1>2, <3>1, <4>1
    <3>3. at' = 1 /\ UNCHANGED <<line, done>>
      BY <2>2, <3>1
    <3>4. FrameInv'
      BY <1>4, <2>6, <3>2, <3>3 DEF FrameInv, InTempoFrame, f
    <3>5. TempoInv'
      BY <2>6, <3>3 DEF TempoInv, TempoBegun, f
    <3>6. QED
      BY <3>2, <3>3, <3>4, <3>5 DEF LineTypes
  <2>7. CASE f.type \notin {"midi", "tempo"}
    <3>1. Len(Encode(f)) = 1 /\ b < midi /\ b # Code.tempo /\ b \in Byte
      BY <2>1, <2>7, FrameLength
    <3>2. spi' \in Decoder /\ spi'.state = "command_byte"
          /\ spi'.tempo = spi.tempo /\ spi'.set_tempo = spi.set_tempo
      BY <1>2, <3>1
    <3>3. at' = 0 /\ line' = Tail(line) /\ done' = Append(done, f)
      BY <2>2, <3>1
    <3>4. QED
      BY <1>1, <1>4, <2>1, <2>7, <3>2, <3>3, FinishedFrame
  <2>8. QED
    BY <2>5, <2>6, <2>7
<1>5. QED
  BY <1>3, <1>4

LEMMA MidiByte ==
  ASSUME LinkInv, line # <<>>, InMidiFrame(Head(line)),
         NEW b \in NextBytes, Decodes(b), LineAdvances
  PROVE  LinkInv'
<1> USE DEF LinkInv
<1> DEFINE f == Head(line)
<1>1. f \in Incoming /\ b = Encode(f)[at + 1]
  BY DEF NextBytes, LineTypes
<1>2. /\ at + 1 # Len(Encode(f)) => at' = at + 1 /\ UNCHANGED <<line, done>>
      /\ at + 1 = Len(Encode(f)) =>
           at' = 0 /\ line' = Tail(line) /\ done' = Append(done, f)
  BY Advances
<1>3. f.type = "midi" /\ ~TempoBegun
  BY DEF InMidiFrame, TempoBegun
<1>4. /\ Len(f.midi) \in 1..127 /\ Encode(f) \in Seq(Byte)
      /\ Len(Encode(f)) = 1 + 3 * Len(f.midi)
  BY <1>1, <1>3, FrameLength
<1>5. spi.n \in 1..Len(f.midi)
  BY DEF InMidiFrame
<1>6. at \in 1..(3 * Len(f.midi))
  <2>1. \A l \in 1..127 : \A n \in 1..l : \A i \in 1..3 : 3 * (l - n) + i \in 1..(3 * l)
    OBVIOUS
  <2>2. \E i \in 1..3 : at = 3 * (Len(f.midi) - spi.n) + i
    BY DEF InMidiFrame
  <2>3. QED
    BY <1>4, <1>5, <2>1, <2>2
<1>7. b \in Byte
  BY <1>1, <1>4, <1>6
<1>8. spi.state \in MidiStates
  BY DEF InMidiFrame, MidiStates
<1>9. /\ spi' \in Decoder /\ spi'.tempo = spi.tempo /\ spi'.set_tempo = spi.set_tempo
      /\ spi.state = "midi_data" => spi'.state = "midi_data_1" /\ spi'.n = spi.n
      /\ spi.state = "midi_data_1" => spi'.state = "midi_data_2" /\ spi'.n = spi.n
      /\ spi.state = "midi_data_2" =>
              /\ spi.n > 1 => spi'.n = spi.n - 1 /\ spi'.state = "midi_data"
              /\ spi.n = 1 => spi'.state = "command_byte"
  BY <1>7, <1>8, InMidi DEF Decodes, LineTypes
<1>10. ASSUME at' = at + 1, UNCHANGED <<line, done>>, InMidiFrame(f)'
       PROVE  LinkInv'
  <2>1. TempoInv'
    BY <1>3, <1>9, <1>10 DEF TempoInv, LastTempo
  <2>2. FrameInv' /\ LineTypes'
    BY <1>9, <1>10 DEF FrameInv, LineTypes
  <2>3. QED
    BY <2>1, <2>2
<1> HIDE DEF f
<1>11. CASE spi.state = "midi_data" \/ spi.state = "midi_data_1"
  <2>1. at + 1 # Len(Encode(f))
    BY <1>4, <1>5, <1>11 DEF InMidiFrame, f
  <2>2. at' = at + 1 /\ UNCHANGED <<line, done>>
    BY <1>2, <2>1
  <2>3. InMidiFrame(f)'
    BY <1>3, <1>4, <1>5, <1>9, <1>11, <2>2 DEF InMidiFrame, f
  <2>4. QED
    BY <1>10, <2>2, <2>3 DEF f
<1>12. CASE spi.state = "midi_data_2" /\ spi.n > 1
  <2>0. at = 3 * (Len(f.midi) - spi.n) + 3
    BY <1>12 DEF InMidiFrame, f
  <2>1. at + 1 # Len(Encode(f))
    BY <1>4, <1>5, <1>12, <2>0
  <2>2. at' = at + 1 /\ UNCHANGED <<line, done>>
    BY <1>2, <2>1
  <2>3. /\ spi'.state = "midi_data" /\ spi'.n \in 1..Len(f.midi)
        /\ at' = 3 * (Len(f.midi) - spi'.n) + 1
    <3>1. \A l \in 1..127 : \A n \in 1..l :
            n > 1 => n - 1 \in 1..l /\ 3 * (l - n) + 3 + 1 = 3 * (l - (n - 1)) + 1
      OBVIOUS
    <3>2. spi'.n = spi.n - 1 /\ spi'.state = "midi_data"
      BY <1>9, <1>12
    <3>3. at' = 3 * (Len(f.midi) - spi.n) + 3 + 1
      BY <2>0, <2>2
    <3>4. QED
      BY <1>4, <1>5, <1>12, <3>1, <3>2, <3>3
  <2>4. InMidiFrame(f)'
    BY <1>3, <2>2, <2>3 DEF InMidiFrame, f
  <2>5. QED
    BY <1>10, <2>2, <2>4 DEF f
<1>13. CASE spi.state = "midi_data_2" /\ spi.n = 1
  <2>1. at + 1 = Len(Encode(f))
    BY <1>4, <1>5, <1>13 DEF InMidiFrame, f
  <2>2. at' = 0 /\ line' = Tail(line) /\ done' = Append(done, f)
    BY <1>2, <2>1
  <2>3. QED
    BY <1>1, <1>3, <1>9, <1>13, <2>2, FinishedFrame
<1>14. QED
  BY <1>4, <1>5, <1>8, <1>11, <1>12, <1>13 DEF MidiStates

LEMMA NextTempoByte ==
  ASSUME LinkInv, line # <<>>, InTempoFrame(Head(line)),
         NEW b \in NextBytes, Decodes(b), LineAdvances
  PROVE  LinkInv'
<1> USE DEF LinkInv
<1> DEFINE f == Head(line)
<1>1. f \in Incoming /\ b = Encode(f)[at + 1]
  BY DEF NextBytes, LineTypes
<1>2. /\ at + 1 # Len(Encode(f)) => at' = at + 1 /\ UNCHANGED <<line, done>>
      /\ at + 1 = Len(Encode(f)) =>
           at' = 0 /\ line' = Tail(line) /\ done' = Append(done, f)
  BY Advances
<1>3. f.type = "tempo" /\ at \in 1..4 /\ \A i \in 1..4 : i < at => spi.tempo[i] = f.data[i]
  BY DEF InTempoFrame
<1>4. Len(Encode(f)) = 5 /\ f.data \in [1..4 -> Byte] /\ b = f.data[at] /\ b \in Byte
  BY <1>1, <1>3, FrameLength
<1>5. spi.state \in TempoStates /\ TempoByte[spi.state] = at
  BY DEF InTempoFrame, TempoStates, TempoByte
<1>6. /\ spi' \in Decoder /\ spi'.state = After[spi.state]
      /\ spi'.tempo = [spi.tempo EXCEPT ![at] = b]
      /\ spi.state = "tempo_data_3" => spi'.set_tempo = TRUE
      /\ spi.state # "tempo_data_3" => spi'.set_tempo = spi.set_tempo
  <2>1. spi \in Decoder /\ spi' = NextByte(spi, b)
    BY DEF LineTypes, Decodes
  <2>2. /\ spi' \in Decoder /\ spi'.state = After[spi.state]
        /\ spi'.tempo = [spi.tempo EXCEPT ![TempoByte[spi.state]] = b]
        /\ spi.state = "tempo_data_3" => spi'.set_tempo = TRUE
        /\ spi.state # "tempo_data_3" => spi'.set_tempo = spi.set_tempo
    <3>1. spi.state \in TempoStates /\ b \in Byte
      BY <1>4, <1>5
    <3>2. spi' \in Decoder
      BY <2>1, <3>1, InTempo
    <3>3. spi'.state = After[spi.state]
      BY <2>1, <3>1, InTempo
    <3>4. spi'.tempo = [spi.tempo EXCEPT ![TempoByte[spi.state]] = b]
      BY <2>1, <3>1, InTempo
    <3>5. spi.state = "tempo_data_3" => spi'.set_tempo = TRUE
      BY <2>1, <3>1, InTempo
    <3>6. spi.state # "tempo_data_3" => spi'.set_tempo = spi.set_tempo
      BY <2>1, <3>1, InTempo
    <3>7. QED
      BY <3>2, <3>3, <3>4, <3>5, <3>6
  <2>3. QED
    BY <1>5, <2>2
<1>7. spi.tempo \in [1..4 -> Byte]
  BY DEF LineTypes, Decoder
<1>8. \A i \in 1..4 : i < at + 1 => spi'.tempo[i] = f.data[i]
  <2>1. ASSUME NEW i \in 1..4, i < at PROVE spi'.tempo[i] = f.data[i]
    BY <1>3, <1>6, <1>7, <2>1
  <2>2. spi'.tempo[at] = f.data[at]
    BY <1>3, <1>4, <1>6, <1>7
  <2>3. \A i \in 1..4 : i < at + 1 => i < at \/ i = at
    BY <1>3
  <2>4. QED
    BY <2>1, <2>2, <2>3
<1>9. CASE at < 4
  <2>1. at' = at + 1 /\ UNCHANGED <<line, done>>
    <3>1. at + 1 # 5
      BY <1>3, <1>9
    <3>2. QED
      BY <1>2, <1>4, <3>1
  <2>2. spi'.set_tempo = FALSE
    <3>1. spi.set_tempo = FALSE /\ spi.state # "tempo_data_3"
      BY <1>9 DEF InTempoFrame
    <3>2. QED
      BY <1>6, <3>1
  <2>3. \/ spi'.state = "tempo_data_1" /\ at' = 2
        \/ spi'.state = "tempo_data_2" /\ at' = 3
        \/ spi'.state = "tempo_data_3" /\ at' = 4
    <3>1. /\ After["tempo_data"] = "tempo_data_1" /\ After["tempo_data_1"] = "tempo_data_2"
          /\ After["tempo_data_2"] = "tempo_data_3"
      BY DEF After
    <3>2. \/ spi.state = "tempo_data" /\ at = 1
          \/ spi.state = "tempo_data_1" /\ at = 2
          \/ spi.state = "tempo_data_2" /\ at = 3
      BY <1>9 DEF InTempoFrame
    <3>3. QED
      BY <1>6, <2>1, <3>1, <3>2
  <2>4. \A i \in 1..4 : i < at' => spi'.tempo[i] = f.data[i]
    BY <1>8, <2>1
  <2>5. InTempoFrame(Head(line))'
    BY <1>3, <2>1, <2>2, <2>3, <2>4 DEF InTempoFrame
  <2>6. FrameInv' /\ TempoInv'
    BY <1>3, <2>1, <2>3, <2>5 DEF FrameInv, TempoInv, TempoBegun, InTempoFrame
  <2>7. QED
    BY <1>6, <2>1, <2>6 DEF LineTypes
<1>10. CASE at = 4
  <2>1. at' = 0 /\ line' = Tail(line) /\ done' = Append(done, f)
    BY <1>2, <1>4, <1>10
  <2>2. spi'.state = "command_byte" /\ spi'.set_tempo = TRUE
    <3>1. spi.state = "tempo_data_3"
      BY <1>10 DEF InTempoFrame
    <3>2. After["tempo_data_3"] = "command_byte"
      BY DEF After
    <3>3. spi'.state = "command_byte"
      BY <1>6, <3>1, <3>2
    <3>4. spi'.set_tempo = TRUE
      BY <1>6, <3>1
    <3>5. QED
      BY <3>3, <3>4
  <2>3. spi'.tempo = f.data
    <3>1. spi'.tempo \in [1..4 -> Byte]
      BY <1>6 DEF Decoder
    <3>2. \A i \in 1..4 : spi'.tempo[i] = f.data[i]
      BY <1>8, <1>10
    <3>3. QED
      BY <1>4, <3>1, <3>2
  <2>4. \A i \in DOMAIN done' : LastTempo(i)' => done'[i] = f
    BY <1>1, <1>3, <2>1, LastTempoOfLonger DEF LineTypes
  <2>5. TempoInv'
    BY <2>2, <2>3, <2>4 DEF TempoInv
  <2>6. QED
    BY <1>1, <1>6, <2>1, <2>2, <2>5 DEF LineTypes, FrameInv
<1>11. QED
  BY <1>3, <1>9, <1>10

(* However the exchange is cut into transfers, a byte of it keeps the      *)
(* decoder in step with the frame it is of.                                *)
LEMMA ExchangeStep ==
  ASSUME LinkInv, ExchangeByte
  PROVE  LinkInv'
<1>1. PICK b \in NextBytes : Decodes(b)
  BY DEF ExchangeByte
<1>2. LineAdvances
  BY DEF ExchangeByte
<1>3. QED
  BY <1>1, <1>2, FirstByte, MidiByte, NextTempoByte DEF LinkInv, FrameInv

-----------------------------------------------------------------------------
(* The MIDI messages.                                                      *)

(* The first bytes of a message wait in cmd_in and val1_in.                *)
MessageInv ==
  \A f \in Incoming :
    line # <<>> /\ f = Head(line) /\ InMidiFrame(f) =>
      LET m == f.midi[Len(f.midi) - spi.n + 1]
      IN  /\ spi.state \in {"midi_data_1", "midi_data_2"} => spi.cmd = m[1]
          /\ spi.state = "midi_data_2" => spi.val1 = m[2]

MidiInv == arrived \in Seq(Triple) /\ MessageInv /\ MidiPassedOn

(* The part of the decoder that MIDI messages are put together from.       *)
LEMMA NoMidiByte ==
  ASSUME NEW d \in Decoder, d.state \notin MidiStates, NEW b \in Byte
  PROVE  LET e == NextByte(d, b)
         IN  e.midiOut = d.midiOut /\ e.dropped = d.dropped
             /\ e.state \notin {"midi_data_1", "midi_data_2"}
<1> DEFINE e == NextByte(d, b)
<1>1. CASE d.state = "command_byte"
  <2>1. e = CommandByte(d, b)
    BY <1>1, TempoByteDomain DEF NextByte, TempoStates
  <2>2. \/ e = [d EXCEPT !.state = "midi_data", !.n = b % midi]
        \/ e = [d EXCEPT !.requested = TRUE]
        \/ e = [d EXCEPT !.state = "tempo_data", !.set_tempo = FALSE]
        \/ e = d
    BY <2>1 DEF CommandByte
  <2> HIDE DEF e
  <2>3. QED
    BY <1>1, <2>2 DEF Decoder, e
<1>2. CASE d.state \in TempoStates
  <2>1. e = [d EXCEPT !.state = After[@], !.tempo[TempoByte[d.state]] = b,
                      !.set_tempo = @ \/ d.state = "tempo_data_3"]
    BY <1>2, TempoByteDomain DEF NextByte, TempoStates
  <2> HIDE DEF e
  <2>2. e.midiOut = d.midiOut /\ e.dropped = d.dropped /\ e.state = After[d.state]
    BY <2>1 DEF Decoder
  <2>3. After[d.state] \notin {"midi_data_1", "midi_data_2"}
    BY <1>2 DEF After, TempoStates
  <2>4. QED
    BY <2>2, <2>3 DEF e
<1>3. QED
  BY <1>1, <1>2 DEF Decoder, MidiStates, TempoStates

LEMMA MidiBytes ==
  ASSUME NEW d \in Decoder, d.state \in MidiStates, NEW b \in Byte
  PROVE  LET e == NextByte(d, b)
         IN  /\ d.state = "midi_data" =>
                  e.cmd = b /\ e.midiOut = d.midiOut /\ e.dropped = d.dropped
             /\ d.state = "midi_data_1" => /\ e.cmd = d.cmd /\ e.val1 = b
                                           /\ e.midiOut = d.midiOut /\ e.dropped = d.dropped
             /\ d.state = "midi_data_2" =>
                  \/ /\ e.midiOut = Append(d.midiOut, <<d.cmd, d.val1, b>>)
                     /\ e.dropped = d.dropped
                  \/ e.midiOut = d.midiOut /\ e.dropped = TRUE
<1> DEFINE e == NextByte(d, b)
<1>1. CASE d.state = "midi_data"
  <2>1. e = [d EXCEPT !.state = "midi_data_1", !.cmd = b]
    BY <1>1, TempoByteDomain DEF NextByte, After, TempoStates
  <2> HIDE DEF e
  <2>2. QED
    BY <1>1, <2>1 DEF Decoder, e
<1>2. CASE d.state = "midi_data_1"
  <2>1. e = [d EXCEPT !.state = "midi_data_2", !.val1 = b]
    BY <1>2, TempoByteDomain DEF NextByte, After, TempoStates
  <2> HIDE DEF e
  <2>2. QED
    BY <1>2, <2>1 DEF Decoder, e
<1>3. CASE d.state = "midi_data_2"
  <2> DEFINE m == <<d.cmd, d.val1, b>>
             a == AddToBuf(d, m)
             n == (d.n - 1) % 256
             s == IF n > 0 THEN "midi_data" ELSE "command_byte"
  <2>1. e = [a EXCEPT !.n = n, !.state = s]
    BY <1>3, TempoByteDomain DEF NextByte, LastByte, TempoStates
  <2>2. \/ a = [d EXCEPT !.midiOut = Append(@, m), !.room = @ - 1]
        \/ a = [d EXCEPT !.dropped = TRUE]
    BY DEF AddToBuf
  <2> HIDE DEF m, a, n, s, e
  <2>3. \/ a.midiOut = Append(d.midiOut, m) /\ a.dropped = d.dropped
        \/ a.midiOut = d.midiOut /\ a.dropped = TRUE
    BY <2>2 DEF Decoder
  <2>4. e.midiOut = a.midiOut /\ e.dropped = a.dropped
    BY <2>1, <2>2 DEF Decoder
  <2>5. QED
    BY <1>3, <2>3, <2>4 DEF m, e
<1>4. QED
  BY <1>1, <1>2, <1>3 DEF MidiStates

(* The j-th byte of the k-th message of a frame.                           *)
LEMMA MidiFrameByte ==
  ASSUME NEW f \in Incoming, f.type = "midi",
         NEW k \in 1..Len(f.midi), NEW j \in 1..3, NEW i, i = 3 * (k - 1) + j
  PROVE  Encode(f)[i + 1] = f.midi[k][j]
<1>1. f \in Messages /\ f.midi \in Seq(Triple)
  BY IncomingAssumption DEF Messages
<1>2. Len(f.midi) \in 1..127
  BY FrameLength
<1>3. Encode(f) = <<midi + Len(f.midi)>> \o Triples(f.midi)
  <2>1. Len(f.midi) \in Count
    BY <1>2 DEF Count
  <2>2. QED
    BY <1>1, <2>1, EncodeMidi
<1>4. \A l \in 1..127 : \A x \in 1..l : \A y \in 1..3 :
        /\ 3 * (x - 1) + y \in 1..(3 * l)
        /\ ((3 * (x - 1) + y) + 2) \div 3 = x
        /\ 1 + (((3 * (x - 1) + y) + 2) % 3) = y
  OBVIOUS
<1>5. i \in 1..(3 * Len(f.midi)) /\ (i + 2) \div 3 = k /\ 1 + ((i + 2) % 3) = j
  BY <1>2, <1>4
<1>6. Triples(f.midi)[i] = f.midi[k][j]
  BY <1>5 DEF Triples
<1>7. Triples(f.midi) \in Seq(Byte) /\ Len(Triples(f.midi)) = 3 * Len(f.midi)
  BY <1>1, TriplesBytes
<1>8. ASSUME NEW c, NEW q \in Seq(Byte), NEW x \in 1..Len(q)
      PROVE  (<<c>> \o q)[x + 1] = q[x]
  OBVIOUS
<1>9. QED
  BY <1>3, <1>5, <1>6, <1>7, <1>8

LEMMA ByteComesIn ==
  ASSUME LinkInv, NEW b \in NextBytes
  PROVE  b \in Byte
<1> USE DEF LinkInv, LineTypes
<1>1. CASE line = <<>>
  BY <1>1 DEF NextBytes, Code, Byte
<1>2. CASE line # <<>>
  <2> DEFINE f == Head(line)
  <2>1. f \in Incoming /\ b = Encode(f)[at + 1]
    BY <1>2 DEF NextBytes
  <2>2. Encode(f) \in Seq(Byte) /\ Len(Encode(f)) >= 1
    BY <2>1, FrameLength
  <2>3. at + 1 \in 1..Len(Encode(f))
    <3>1. CASE at = 0
      BY <2>2, <3>1
    <3>2. CASE InMidiFrame(f)
      <4>1. f.type = "midi" /\ spi.n \in 1..Len(f.midi)
            /\ \E i \in 1..3 : at = 3 * (Len(f.midi) - spi.n) + i
        BY <3>2 DEF InMidiFrame
      <4>2. Len(f.midi) \in 1..127 /\ Len(Encode(f)) = 1 + 3 * Len(f.midi)
        BY <2>1, <4>1, FrameLength
      <4>3. \A l \in 1..127 : \A n \in 1..l : \A i \in 1..3 :
              3 * (l - n) + i + 1 \in 1..(1 + 3 * l)
        OBVIOUS
      <4>4. QED
        BY <4>1, <4>2, <4>3
    <3>3. CASE InTempoFrame(f)
      <4>1. f.type = "tempo" /\ at \in 1..4
        BY <3>3 DEF InTempoFrame
      <4>2. Len(Encode(f)) = 5
        BY <2>1, <4>1, FrameLength
      <4>3. at + 1 \in 1..5
        BY <4>1
      <4>4. QED
        BY <4>2, <4>3
    <3>4. QED
      BY <3>1, <3>2, <3>3 DEF FrameInv
  <2>4. QED
    BY <2>1, <2>2, <2>3
<1>3. QED
  BY <1>1, <1>2

(* The third byte completes a message, which is passed on or dropped.      *)
LEMMA MidiExchange ==
  ASSUME LinkInv, MidiInv, ExchangeByte
  PROVE  MidiInv'
<1>1. PICK b \in NextBytes : Decodes(b)
  BY DEF ExchangeByte
<1>2. /\ LineAdvances /\ b \in Byte
      /\ spi \in Decoder /\ spi' = NextByte(spi, b)
      /\ at \in Nat /\ arrived \in Seq(Triple)
  BY <1>1, ByteComesIn DEF ExchangeByte, LinkInv, LineTypes, Decodes, MidiInv
<1>3. spi' \in Decoder
  BY ExchangeStep DEF LinkInv, LineTypes
<1>4. CASE spi.state \notin MidiStates
  <2>1. at = 0 \/ Head(line).type # "midi"
    BY <1>4 DEF LinkInv, FrameInv, InMidiFrame, InTempoFrame, MidiStates
  <2>2. arrived' = arrived
    BY <1>2, <2>1 DEF LineAdvances
  <2>3. spi'.midiOut = spi.midiOut /\ spi'.dropped = spi.dropped
        /\ spi'.state \notin {"midi_data_1", "midi_data_2"}
    BY <1>2, <1>4, NoMidiByte
  <2>4. MidiPassedOn'
    BY <2>2, <2>3 DEF MidiInv, MidiPassedOn
  <2>5. MessageInv'
    BY <2>3 DEF MessageInv
  <2>6. QED
    BY <1>2, <2>2, <2>4, <2>5 DEF MidiInv
<1>5. CASE spi.state \in MidiStates
  <2> DEFINE f == Head(line)
  <2> DEFINE k == Len(f.midi) - spi.n + 1
  <2>1. line # <<>> /\ InMidiFrame(f)
    BY <1>5 DEF LinkInv, FrameInv, InTempoFrame, MidiStates
  <2>2. f \in Incoming /\ f.type = "midi" /\ b = Encode(f)[at + 1]
    BY <2>1 DEF LinkInv, LineTypes, NextBytes, InMidiFrame
  <2>3. Len(f.midi) \in 1..127 /\ spi.n \in 1..Len(f.midi)
        /\ Len(Encode(f)) = 1 + 3 * Len(f.midi)
    BY <2>1, <2>2, FrameLength DEF InMidiFrame
  <2>4. k \in 1..Len(f.midi) /\ 3 * (Len(f.midi) - spi.n) = 3 * (k - 1)
    BY <2>3
  <2>5. f.midi \in Seq(Triple) /\ f.midi[k] \in Triple
    BY <2>2, <2>4, IncomingAssumption DEF Messages
  <2>6. /\ at + 1 # Len(Encode(f)) => UNCHANGED line
        /\ arrived' = IF at % 3 = 0 /\ at > 0 THEN Append(arrived, f.midi[at \div 3])
                      ELSE arrived
    BY <1>2, <2>1, <2>2, Advances DEF LineAdvances, LinkInv
  <2>7. /\ spi.state \in {"midi_data_1", "midi_data_2"} => spi.cmd = f.midi[k][1]
        /\ spi.state = "midi_data_2" => spi.val1 = f.midi[k][2]
    BY <2>1, <2>2 DEF MidiInv, MessageInv
  <2>8. /\ spi.state = "midi_data" => at = 3 * (k - 1) + 1
        /\ spi.state = "midi_data_1" => at = 3 * (k - 1) + 2
        /\ spi.state = "midi_data_2" => at = 3 * (k - 1) + 3
    BY <2>1, <2>4 DEF InMidiFrame
  <2>9. \A l \in 1..127 : \A x \in 1..l :
          /\ 3 * (x - 1) + 1 + 1 # 1 + 3 * l /\ 3 * (x - 1) + 2 + 1 # 1 + 3 * l
          /\ (3 * (x - 1) + 1) % 3 # 0 /\ (3 * (x - 1) + 2) % 3 # 0
          /\ (3 * (x - 1) + 3) % 3 = 0 /\ (3 * (x - 1) + 3) \div 3 = x
          /\ 3 * (x - 1) + 3 > 0
    OBVIOUS
  <2> HIDE DEF f, k
  <2>10. CASE spi.state = "midi_data" \/ spi.state = "midi_data_1"
    <3>1. at + 1 # Len(Encode(f)) /\ at % 3 # 0
      BY <2>3, <2>4, <2>8, <2>9, <2>10
    <3>2. arrived' = arrived /\ line' = line
      BY <2>6, <3>1
    <3>3. spi'.midiOut = spi.midiOut /\ spi'.dropped = spi.dropped
      BY <1>2, <1>5, <2>10, MidiBytes
    <3>4. spi'.n = spi.n /\ spi'.state \in {"midi_data_1", "midi_data_2"}
          /\ (spi'.state = "midi_data_2" <=> spi.state = "midi_data_1")
      BY <1>2, <1>5, <2>10, InMidi
    <3>5. spi.state = "midi_data" => b = f.midi[k][1]
      BY <2>2, <2>4, <2>8, MidiFrameByte
    <3>6. spi.state = "midi_data_1" => b = f.midi[k][2]
      BY <2>2, <2>4, <2>8, MidiFrameByte
    <3>7. spi'.cmd = f.midi[k][1]
          /\ (spi.state = "midi_data_1" => spi'.val1 = f.midi[k][2])
      BY <1>2, <1>5, <2>7, <2>10, <3>5, <3>6, MidiBytes
    <3>8. MessageInv'
      BY <3>2, <3>4, <3>7 DEF MessageInv, f, k
    <3>9. MidiPassedOn'
      BY <3>2, <3>3 DEF MidiInv, MidiPassedOn
    <3>10. QED
      BY <1>2, <3>2, <3>8, <3>9 DEF MidiInv
  <2>11. CASE spi.state = "midi_data_2"
    <3>1. at % 3 = 0 /\ at > 0 /\ at \div 3 = k
      BY <2>3, <2>4, <2>8, <2>9, <2>11
    <3>2. arrived' = Append(arrived, f.midi[k])
      BY <2>6, <3>1
    <3>3. b = f.midi[k][3]
      BY <2>2, <2>4, <2>8, <2>11, MidiFrameByte
    <3>4. <<spi.cmd, spi.val1, b>> = f.midi[k]
      BY <2>5, <2>7, <2>11, <3>3 DEF Triple
    <3>5. \/ spi'.midiOut = Append(spi.midiOut, f.midi[k]) /\ spi'.dropped = spi.dropped
          \/ spi'.midiOut = spi.midiOut /\ spi'.dropped = TRUE
      <4>1. \/ /\ spi'.midiOut = Append(spi.midiOut, <<spi.cmd, spi.val1, b>>)
               /\ spi'.dropped = spi.dropped
            \/ spi'.midiOut = spi.midiOut /\ spi'.dropped = TRUE
        BY <1>2, <1>5, <2>11, MidiBytes
      <4>2. QED
        BY <3>4, <4>1
    <3>6. spi'.state \notin {"midi_data_1", "midi_data_2"}
      <4>1. spi.n > 1 \/ spi.n = 1
        BY <2>3
      <4>2. QED
        BY <1>2, <1>5, <2>11, <4>1, InMidi
    <3>7. spi.midiOut \in Seq(Triple)
      BY <1>2 DEF Decoder
    <3>8. MidiPassedOn'
      BY <1>2, <2>5, <3>2, <3>5, <3>7 DEF MidiInv, MidiPassedOn
    <3>9. MessageInv'
      BY <3>6 DEF MessageInv
    <3>10. arrived' \in Seq(Triple)
      BY <1>2, <2>5, <3>2
    <3>11. QED
      BY <3>8, <3>9, <3>10 DEF MidiInv
  <2>12. QED
    BY <1>5, <2>10, <2>11 DEF MidiStates
<1>6. QED
  BY <1>4, <1>5

-----------------------------------------------------------------------------
(* The other steps, of the thread, its callers and the queue.              *)

(* Nothing is queued that has not been made.                               *)
WorkerInv ==
  W!TypeOK /\ \A i \in DOMAIN iqueue : iqueue[i] <= allocated

TransferInv ==
  /\ made \in Seq(Outgoing) /\ Len(made) = allocated
  /\ buf \in Seq(Byte) /\ pos \in 0..Len(buf)

IInv == WorkerInv /\ TransferInv /\ LinkInv /\ MidiInv

LEMMA InitInv == Init => IInv
<1> SUFFICES ASSUME Init PROVE IInv
  OBVIOUS
<1>1. WorkerInv
  <2> USE DEF Init, W!Init, W!QueueInit
  <2>1. W!QueueTypeOK({W!Worker}, W!Msgs)
    <3>1. iqueue \in Seq(W!Msgs) /\ waiters \subseteq {W!Worker}
      OBVIOUS
    <3>2. isBlocking \in BOOLEAN /\ qIsRunning \in BOOLEAN
      OBVIOUS
    <3>3. QED
      BY <3>1, <3>2 DEF W!QueueTypeOK
  <2>2. cpc \in [Callers -> W!Idle \cup W!Stopping \cup {"launch"}]
    BY DEF W!Idle
  <2>3. isRunning \in BOOLEAN /\ joinable \in BOOLEAN /\ terminated \in BOOLEAN
    OBVIOUS
  <2>4. wpc \in W!WorkerPcs /\ cur \in 0..MaxMsgs /\ allocated \in 0..MaxMsgs
    BY MaxMsgsAssumption DEF W!WorkerPcs
  <2>5. handled \in Seq(W!Msgs)
    OBVIOUS
  <2>6. W!TypeOK
    BY <2>1, <2>2, <2>3, <2>4, <2>5 DEF W!TypeOK
  <2>7. QED
    BY <2>6 DEF WorkerInv
<1>2. TransferInv
  BY DEF Init, W!Init, TransferInv
<1>3. /\ spi \in [state : {"command_byte"}, n : {0}, cmd : {0}, val1 : {0},
                  tempo : {[i \in 1..4 |-> 0]}, set_tempo : BOOLEAN,
                  requested : BOOLEAN, midiOut : {<<>>}, room : {Room},
                  dropped : {FALSE}]
      /\ line = <<>> /\ at = 0 /\ done = <<>> /\ arrived = <<>>
  BY DEF Init
<1>4. spi \in Decoder /\ spi.state = "command_byte"
  <2>1. 0 \in Byte /\ [i \in 1..4 |-> 0] \in [1..4 -> Byte] /\ Room \in 0..Room
    BY RoomAssumption DEF Byte
  <2>2. <<>> \in Seq(Triple)
    OBVIOUS
  <2>3. QED
    BY <1>3, <2>1, <2>2 DEF Decoder
<1>5. LinkInv
  BY <1>3, <1>4 DEF LinkInv, LineTypes, FrameInv, TempoInv
<1>6. MidiInv
  <2>1. spi.dropped = FALSE /\ spi.midiOut = <<>>
    BY <1>3
  <2>2. QED
    BY <1>3, <2>1 DEF MidiInv, MessageInv, MidiPassedOn
<1>7. QED
  BY <1>1, <1>2, <1>5, <1>6 DEF IInv

LEMMA LinkStutters ==
  ASSUME LinkInv, MidiInv, UNCHANGED <<spi, line, at, done, arrived>>
  PROVE  LinkInv' /\ MidiInv'
<1>1. LinkInv'
  BY DEF LinkInv, LineTypes, FrameInv, InMidiFrame, InTempoFrame, TempoInv,
         TempoBegun, LastTempo
<1>2. MidiInv'
  BY DEF MidiInv, MessageInv, MidiPassedOn, InMidiFrame
<1>3. QED
  BY <1>1, <1>2

LEMMA CallerKeeps ==
  ASSUME WorkerInv, NEW c \in Callers,
         W!RunExchange(c) \/ W!StopExchange(c) \/ W!CallerStep(c)
  PROVE  WorkerInv' /\ UNCHANGED allocated
<1> USE DEF WorkerInv, W!TypeOK, W!QueueTypeOK, W!CallerMoves, W!Idle, W!Stopping,
            W!WorkerPcs, W!queueVars
<1>1. CASE W!RunExchange(c)
  BY <1>1 DEF W!RunExchange
<1>2. CASE W!StopExchange(c)
  BY <1>2 DEF W!StopExchange
<1>3. CASE W!Launch(c)
  BY <1>3 DEF W!Launch
<1>4. CASE W!StopDisableWait(c)
  BY <1>4 DEF W!StopDisableWait, W!DisableWait, W!NotifyAll
<1>5. CASE W!StopDisable(c)
  BY <1>5 DEF W!StopDisable, W!Enable
<1>6. CASE W!StopJoin(c)
  BY <1>6 DEF W!StopJoin
<1>7. QED
  BY <1>1, <1>2, <1>3, <1>4, <1>5, <1>6 DEF W!CallerStep

LEMMA PushKeeps ==
  ASSUME WorkerInv, TransferInv, PushMsg
  PROVE  WorkerInv' /\ TransferInv'
<1> USE DEF WorkerInv, W!TypeOK, W!QueueTypeOK, PushMsg, W!PushMsg
<1>1. /\ iqueue' = iqueue \/ iqueue' = Append(iqueue, allocated + 1)
      /\ waiters' \subseteq waiters
      /\ UNCHANGED <<isBlocking, qIsRunning>>
  BY DEF W!Push, W!Insert, W!NotifyAll
<1>2. allocated' = allocated + 1 /\ allocated' \in 1..MaxMsgs
  BY MaxMsgsAssumption
<1>3. iqueue' \in Seq(W!Msgs)
  <2>1. iqueue \in Seq(W!Msgs) /\ allocated + 1 \in W!Msgs
    BY <1>2 DEF W!Msgs
  <2>2. \A s \in Seq(W!Msgs), e \in W!Msgs : Append(s, e) \in Seq(W!Msgs)
    OBVIOUS
  <2>3. QED
    BY <1>1, <2>1, <2>2
<1>4. \A i \in DOMAIN iqueue' : iqueue'[i] <= allocated'
  <2>1. \A i \in DOMAIN iqueue : iqueue[i] \in Int /\ iqueue[i] <= allocated
    BY MaxMsgsAssumption DEF W!Msgs
  <2>2. CASE iqueue' = iqueue
    BY <1>2, <2>1, <2>2
  <2>3. CASE iqueue' = Append(iqueue, allocated + 1)
    BY <1>2, <2>1, <2>3
  <2>4. QED
    BY <1>1, <2>2, <2>3
<1>5. WorkerInv'
  <2>1. W!TypeOK'
    BY <1>1, <1>2, <1>3
  <2>2. QED
    BY <1>4, <2>1
<1>6. TransferInv'
  BY <1>2 DEF TransferInv
<1>7. QED
  BY <1>5, <1>6

LEMMA RunnerKeeps ==
  ASSUME WorkerInv, TransferInv, RunnerStep
  PROVE  WorkerInv' /\ TransferInv'
<1> USE DEF WorkerInv, W!TypeOK, W!QueueTypeOK, W!WorkerMoves, W!WorkerPcs,
            queueVars, W!queueVars, TransferInv
<1>1. CASE RunnerStarts
  <2>1. UNCHANGED <<iqueue, allocated, linkVars>>
    BY <1>1 DEF RunnerStarts, W!RunnerEnable, W!RunnerEnableWait, W!RunnerLoop,
                W!Enable, W!EnableWait
  <2>2. W!TypeOK'
    BY <1>1 DEF RunnerStarts, W!RunnerEnable, W!RunnerEnableWait, W!RunnerLoop,
                W!Enable, W!EnableWait
  <2>3. QED
    BY <2>1, <2>2 DEF linkVars
<1>2. CASE ComposeHead
  <2>2. cur' = Head(iqueue) /\ iqueue # <<>> /\ UNCHANGED <<queueVars, allocated, made>>
    BY <1>2 DEF ComposeHead, W!RunnerTakesHead, W!FrontReturns, Fills
  <2>3. cur' \in 1..MaxMsgs /\ cur' <= allocated
    <3>1. iqueue \in Seq(W!Msgs) /\ Head(iqueue) = iqueue[1] /\ 1 \in DOMAIN iqueue
      BY <2>2
    <3>2. iqueue[1] \in W!Msgs /\ iqueue[1] <= allocated
      BY <3>1
    <3>3. QED
      BY <2>2, <3>1, <3>2 DEF W!Msgs
  <2>4. cur' \in 1..Len(made)
    BY <2>3, MaxMsgsAssumption
  <2>5. made[cur'] \in Outgoing
    BY <2>4
  <2>6. Encode(made[cur']) \in Seq(Byte)
    BY <2>5, OutgoingAssumption, EncodeBytes
  <2>7. TransferInv'
    BY <1>2, <2>2, <2>6 DEF ComposeHead, Fills
  <2>8. WorkerInv'
    BY <1>2, <2>2, <2>3, MaxMsgsAssumption DEF ComposeHead, W!RunnerTakesHead
  <2>9. QED
    BY <2>7, <2>8
<1>3. CASE ComposePing
  <2>1. <<Code.ping>> \in Seq(Byte)
    BY DEF Code, Byte
  <2>2. TransferInv'
    BY <1>3, <2>1 DEF ComposePing, Fills
  <2>3. WorkerInv'
    BY <1>3 DEF ComposePing
  <2>4. QED
    BY <2>2, <2>3
<1>4. CASE ExchangeByte
  <2>1. TransferInv'
    BY <1>4 DEF ExchangeByte
  <2>2. WorkerInv'
    BY <1>4 DEF ExchangeByte
  <2>3. QED
    BY <2>1, <2>2
<1>5. CASE TransferEnds
  <2>1. TransferInv'
    BY <1>5 DEF TransferEnds
  <2>2. WorkerInv'
    BY <1>5, MaxMsgsAssumption DEF TransferEnds
  <2>3. QED
    BY <2>1, <2>2
<1>6. QED
  BY <1>1, <1>2, <1>3, <1>4, <1>5 DEF RunnerStep

LEMMA ArduinoKeeps ==
  ASSUME LinkInv, MidiInv, ArduinoSends
  PROVE  LinkInv' /\ MidiInv'
<1>1. PICK f \in Incoming : line' = Append(line, f)
  BY DEF ArduinoSends
<1>2. line \in Seq(Incoming) /\ UNCHANGED <<spi, at, done, arrived>>
  BY DEF ArduinoSends, LinkInv, LineTypes
<1>3. line' \in Seq(Incoming) /\ line' # <<>>
  BY <1>1, <1>2
<1>4. line # <<>> => Head(line') = Head(line)
  BY <1>1, <1>2
<1>5. FrameInv'
  BY <1>2, <1>3, <1>4 DEF LinkInv, FrameInv, InMidiFrame, InTempoFrame
<1>6. TempoInv'
  <2>1. at > 0 => line # <<>>
    BY DEF LinkInv, FrameInv
  <2>2. TempoBegun' <=> TempoBegun
    BY <1>2, <1>4, <2>1 DEF TempoBegun
  <2>3. QED
    BY <1>2, <2>2 DEF LinkInv, TempoInv, LastTempo
<1>7. MidiInv'
  <2>1. line = <<>> => at = 0 /\ spi.state = "command_byte"
    BY DEF LinkInv, FrameInv
  <2>2. MessageInv'
    BY <1>2, <1>4, <2>1 DEF MidiInv, MessageInv, InMidiFrame
  <2>3. QED
    BY <1>2, <2>2 DEF MidiInv, MidiPassedOn
<1>8. QED
  BY <1>2, <1>3, <1>5, <1>6, <1>7 DEF LinkInv, LineTypes

LEMMA DeviceKeeps ==
  ASSUME LinkInv, MidiInv, DevicePlays
  PROVE  LinkInv' /\ MidiInv'
<1>1. spi \in Decoder /\ spi' = [spi EXCEPT !.room = Room] /\ UNCHANGED <<line, at, done, arrived>>
  BY DEF DevicePlays, LinkInv, LineTypes
<1>2. /\ spi' \in Decoder
      /\ spi'.state = spi.state /\ spi'.n = spi.n
      /\ spi'.tempo = spi.tempo /\ spi'.set_tempo = spi.set_tempo
      /\ spi'.cmd = spi.cmd /\ spi'.val1 = spi.val1
      /\ spi'.midiOut = spi.midiOut /\ spi'.dropped = spi.dropped
  BY <1>1, RoomAssumption DEF Decoder
<1>3. LineTypes' /\ FrameInv'
  BY <1>1, <1>2 DEF LinkInv, LineTypes, FrameInv, InMidiFrame, InTempoFrame
<1>4. TempoInv'
  BY <1>1, <1>2 DEF LinkInv, TempoInv, TempoBegun, LastTempo
<1>5. MidiInv'
  <2>1. MessageInv'
    BY <1>1, <1>2 DEF MidiInv, MessageInv, InMidiFrame
  <2>2. MidiPassedOn'
    BY <1>1, <1>2 DEF MidiInv, MidiPassedOn
  <2>3. QED
    BY <1>1, <2>1, <2>2 DEF MidiInv
<1>6. QED
  BY <1>3, <1>4, <1>5 DEF LinkInv

LEMMA NextInv ==
  ASSUME IInv, [Next]_vars
  PROVE  IInv'
<1> USE DEF IInv
<1>1. CASE UNCHANGED vars
  <2>1. UNCHANGED workerVars /\ UNCHANGED linkVars
    BY <1>1 DEF vars
  <2>2. WorkerInv'
    BY <2>1 DEF workerVars, queueVars, WorkerInv, W!TypeOK, W!QueueTypeOK
  <2>3. TransferInv' /\ LinkInv' /\ MidiInv'
    BY <2>1, LinkStutters DEF workerVars, linkVars, TransferInv
  <2>4. QED
    BY <2>2, <2>3
<1>2. ASSUME NEW c \in Callers, Caller(c)
      PROVE  IInv'
  <2>1. UNCHANGED linkVars /\ WorkerInv' /\ UNCHANGED allocated
    BY <1>2, CallerKeeps DEF Caller
  <2>2. QED
    BY <2>1, LinkStutters DEF linkVars, TransferInv
<1>3. CASE PushMsg
  BY <1>3, PushKeeps, LinkStutters DEF PushMsg
<1>4. CASE ArduinoSends
  <2>1. UNCHANGED <<workerVars, made, buf, pos>>
    BY <1>4 DEF ArduinoSends
  <2>2. QED
    BY <1>4, <2>1, ArduinoKeeps
    DEF workerVars, queueVars, WorkerInv, W!TypeOK, W!QueueTypeOK, TransferInv
<1>5. CASE DevicePlays
  <2>1. UNCHANGED <<workerVars, made, buf, pos>>
    BY <1>5 DEF DevicePlays
  <2>2. QED
    BY <1>5, <2>1, DeviceKeeps
    DEF workerVars, queueVars, WorkerInv, W!TypeOK, W!QueueTypeOK, TransferInv
<1>6. CASE RunnerStep
  <2>1. WorkerInv' /\ TransferInv'
    BY <1>6, RunnerKeeps
  <2>2. UNCHANGED <<spi, line, at, done, arrived>> \/ ExchangeByte
    BY <1>6 DEF RunnerStep, RunnerStarts, ComposeHead, ComposePing, TransferEnds,
                Fills, linkVars
  <2>3. QED
    BY <2>1, <2>2, LinkStutters, ExchangeStep, MidiExchange
<1>7. QED
  BY <1>1, <1>2, <1>3, <1>4, <1>5, <1>6 DEF Next

LEMMA Inductive == Spec => []IInv
<1>1. IInv /\ [Next]_vars => IInv'
  BY NextInv
<1>2. QED
  BY <1>1, InitInv, PTL DEF Spec

-----------------------------------------------------------------------------
(* No transfer holds anything but bytes, no data byte lands outside the    *)
(* decoder's variables, and deviceMidiOut is not overfilled                *)
(* (pi_spi.h:31-47).                                                       *)
THEOREM TypeCorrect == Spec => []TypeOK
<1>1. IInv => TypeOK
  BY DEF IInv, WorkerInv, TransferInv, LinkInv, LineTypes, MidiInv, TypeOK
<1>2. QED
  BY <1>1, Inductive, PTL

(* The decoder looks for a command exactly where the Arduino sends one,    *)
(* whatever frames of its format come, in transfers of any lengths, and    *)
(* whenever the thread is stopped and started again (pi_spi.cpp:63-118).   *)
THEOREM DecoderStaysInStep == Spec => []InStep
<1>1. IInv => InStep
  <2> SUFFICES ASSUME IInv PROVE InStep
    OBVIOUS
  <2>1. CASE spi.state = "command_byte" /\ at = 0
    BY <2>1 DEF InStep
  <2>2. CASE line # <<>> /\ InMidiFrame(Head(line))
    <3>1. Head(line) \in Incoming
      BY <2>2 DEF IInv, LinkInv, LineTypes
    <3>2. Len(Head(line).midi) \in 1..127 /\ spi.n \in 1..Len(Head(line).midi)
      BY <2>2, <3>1, FrameLength DEF InMidiFrame
    <3>3. Len(Head(line).midi) - spi.n \in Nat
      BY <3>2
    <3>4. at # 0
      <4>1. \A d \in Nat : 3 * d + 1 # 0 /\ 3 * d + 2 # 0 /\ 3 * d + 3 # 0
        OBVIOUS
      <4>2. QED
        BY <2>2, <3>3, <4>1 DEF InMidiFrame
    <3>5. spi.state # "command_byte"
      BY <2>2 DEF InMidiFrame
    <3>6. QED
      BY <3>4, <3>5 DEF InStep
  <2>3. CASE InTempoFrame(Head(line))
    BY <2>3 DEF InStep, InTempoFrame
  <2>4. QED
    BY <2>1, <2>2, <2>3 DEF IInv, LinkInv, FrameInv
<1>2. QED
  BY <1>1, Inductive, PTL

(* set_tempo vouches for four bytes of one tempo, the last that has come   *)
(* in whole, and never for one that is coming in (pi_spi.cpp:79-118).      *)
THEOREM TempoIsVouchedFor == Spec => []TempoIsWhole
<1>1. IInv => TempoIsWhole
  <2> SUFFICES ASSUME IInv PROVE TempoIsWhole
    OBVIOUS
  <2>1. CASE TempoBegun
    <3>1. InTempoFrame(Head(line))
      BY <2>1 DEF TempoBegun, IInv, LinkInv, FrameInv, InMidiFrame
    <3>2. spi.set_tempo = FALSE
      BY <3>1 DEF InTempoFrame
    <3>3. QED
      BY <2>1, <3>2 DEF TempoIsWhole
  <2>2. CASE ~TempoBegun
    BY <2>2 DEF TempoIsWhole, IInv, LinkInv, TempoInv
  <2>3. QED
    BY <2>1, <2>2
<1>2. QED
  BY <1>1, Inductive, PTL

(* Unless one was dropped for want of room, exactly the MIDI messages that *)
(* arrived are passed on, each once and in order; dropped_midi_in is set   *)
(* exactly when one is missing (pi_spi.cpp:96-101).                        *)
THEOREM MidiIsPassedOn == Spec => []MidiPassedOn
<1>1. IInv => MidiPassedOn
  BY DEF IInv, MidiInv
<1>2. QED
  BY <1>1, Inductive, PTL
=============================================================================
