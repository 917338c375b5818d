--------------------------- MODULE MidiCodecProofs ---------------------------
(***************************************************************************)
(* Theorems about MidiCodec for all data bytes and ports, for bundles in   *)
(* bundles of any depth and with any number of packets beside the message. *)
(***************************************************************************)
EXTENDS MidiCodec, SequenceTheorems, TLAPS

(* What the callback queued is what arrived.                               *)
ArrivedInv ==
  /\ pc = "arrived" => bytes \in Arriving
  /\ pc \notin {"arrived", "dropped"} /\ bytes # <<>> =>
       bytes \in Arriving /\ Len(bytes) <= 3 /\ msg = FromMidi(bytes)

(* All the packets of a line are a peer's own, or all but one, p.          *)
OnlyFillers(line) == \A i \in DOMAIN line : line[i] \in Filler

Carries(line, p) ==
  \E i \in DOMAIN line :
    line[i] = p /\ \A j \in DOMAIN line \ {i} : line[j] \in Filler

(* outer is a bundle that a peer made of inner.                            *)
Around(outer, inner) ==
  /\ outer = Bundle(outer.packets)
  /\ outer.packets \in Seq(Filler \cup {inner})
  /\ Carries(outer.packets, inner)

(* The packets on which reading may come.                                  *)
Known == Filler \cup {sent[k] : k \in DOMAIN sent}

(* What the hub sent is what pack made of the message, and each packet     *)
(* that followed is a bundle around the one before it.                     *)
SentInv ==
  /\ msg.type = "midi" => msg = MidiMsg(msg.midi[1])
  /\ sent \in Seq(Known) /\ toRead \in Seq(Known)
  /\ pc # "parsing" => toRead = <<>>
  /\ pc \in {"packed", "parsing", "parsed"} =>
       /\ Len(sent) >= 1
       /\ sent[1] = Pack(msg)
       /\ \A k \in 2..Len(sent) : Around(sent[k], sent[k - 1])
       /\ msg.type = "midi" \/ (pc = "packed" /\ Len(sent) = 1)

(* What reading the message gives.                                         *)
Reading ==
  IF MatchesMidi(MidiAddress(msg.midi[1].port)) THEN msg.midi ELSE <<>>

(* While the message has not been read, exactly one of the packets still   *)
(* to be read holds it; after that none does.                              *)
ReadInv ==
  /\ pc \in {"queued", "arrived", "packed"} => decoded = <<>>
  /\ pc = "parsing" =>
       \/ /\ decoded = <<>>
          /\ \E k \in 1..Len(sent) : Carries(toRead, sent[k])
       \/ decoded = Reading /\ OnlyFillers(toRead)
  /\ pc = "parsed" => decoded = Reading

CInv == ArrivedInv /\ SentInv /\ ReadInv /\ SendsWholeMessages

-----------------------------------------------------------------------------
(* Lines of packets.                                                       *)

LEMMA ConcatIndex ==
  ASSUME NEW S, NEW s \in Seq(S), NEW t \in Seq(S)
  PROVE  /\ DOMAIN s = 1..Len(s) /\ DOMAIN t = 1..Len(t)
         /\ Len(s) \in Nat /\ Len(t) \in Nat
         /\ s \o t \in Seq(S)
         /\ DOMAIN (s \o t) = 1..(Len(s) + Len(t))
         /\ \A i \in 1..Len(s) : (s \o t)[i] = s[i]
         /\ \A i \in 1..Len(t) : (s \o t)[Len(s) + i] = t[i]
<1>1. /\ Len(s) \in Nat /\ Len(t) \in Nat
      /\ DOMAIN s = 1..Len(s) /\ DOMAIN t = 1..Len(t)
  OBVIOUS
<1>2. /\ s \o t \in Seq(S) /\ Len(s \o t) = Len(s) + Len(t)
      /\ \A i \in 1..(Len(s) + Len(t)) :
           (s \o t)[i] = IF i <= Len(s) THEN s[i] ELSE t[i - Len(s)]
  BY ConcatProperties
<1>3. DOMAIN (s \o t) = 1..(Len(s) + Len(t))
  BY <1>2
<1>4. QED
  BY <1>1, <1>2, <1>3

(* A place of s \o t is one of s or one of t.                             *)
LEMMA ConcatPlaces ==
  ASSUME NEW S, NEW s \in Seq(S), NEW t \in Seq(S), NEW i \in DOMAIN (s \o t)
  PROVE  \/ i \in DOMAIN s /\ (s \o t)[i] = s[i]
         \/ \E j \in DOMAIN t : i = Len(s) + j /\ (s \o t)[i] = t[j]
<1>1. /\ Len(s) \in Nat /\ Len(t) \in Nat /\ i \in 1..(Len(s) + Len(t))
      /\ DOMAIN s = 1..Len(s) /\ DOMAIN t = 1..Len(t)
  BY ConcatIndex
<1>2. CASE i <= Len(s)
  <2>1. i \in 1..Len(s)
    BY <1>1, <1>2
  <2>2. QED
    BY <1>1, <2>1, ConcatIndex
<1>3. CASE ~(i <= Len(s))
  <2>1. i - Len(s) \in 1..Len(t) /\ i = Len(s) + (i - Len(s))
    BY <1>1, <1>3
  <2>2. (s \o t)[Len(s) + (i - Len(s))] = t[i - Len(s)]
    BY <2>1, ConcatIndex
  <2>3. QED
    BY <1>1, <2>1, <2>2
<1>4. QED
  BY <1>2, <1>3

LEMMA FillersConcat ==
  ASSUME NEW S, NEW s \in Seq(S), NEW t \in Seq(S),
         OnlyFillers(s), OnlyFillers(t)
  PROVE  OnlyFillers(s \o t)
BY ConcatPlaces DEF OnlyFillers

LEMMA CarriesConcat ==
  ASSUME NEW S, NEW s \in Seq(S), NEW t \in Seq(S), NEW p,
         \/ Carries(s, p) /\ OnlyFillers(t)
         \/ OnlyFillers(s) /\ Carries(t, p)
  PROVE  Carries(s \o t, p)
<1>1. CASE Carries(s, p) /\ OnlyFillers(t)
  <2>1. PICK i \in DOMAIN s : s[i] = p /\ \A j \in DOMAIN s \ {i} : s[j] \in Filler
    BY <1>1 DEF Carries
  <2>2. i \in DOMAIN (s \o t) /\ (s \o t)[i] = p
    BY <2>1, ConcatIndex
  <2>3. ASSUME NEW j \in DOMAIN (s \o t) \ {i}
        PROVE  (s \o t)[j] \in Filler
    BY <1>1, <2>1, <2>3, ConcatPlaces DEF OnlyFillers
  <2>4. QED
    BY <2>2, <2>3 DEF Carries
<1>2. CASE OnlyFillers(s) /\ Carries(t, p)
  <2>1. PICK i \in DOMAIN t : t[i] = p /\ \A j \in DOMAIN t \ {i} : t[j] \in Filler
    BY <1>2 DEF Carries
  <2>2. Len(s) + i \in DOMAIN (s \o t) /\ (s \o t)[Len(s) + i] = p
    BY <2>1, ConcatIndex
  <2>3. ASSUME NEW j \in DOMAIN (s \o t) \ {Len(s) + i}
        PROVE  (s \o t)[j] \in Filler
    BY <1>2, <2>1, <2>3, ConcatPlaces DEF OnlyFillers
  <2>4. QED
    BY <2>2, <2>3 DEF Carries
<1>3. QED
  BY <1>1, <1>2

LEMMA TailIndex ==
  ASSUME NEW S, NEW s \in Seq(S), s # <<>>
  PROVE  /\ DOMAIN s = 1..Len(s) /\ Len(s) \in Nat /\ Len(s) >= 1
         /\ Head(s) = s[1] /\ Head(s) \in S
         /\ Tail(s) \in Seq(S) /\ DOMAIN Tail(s) = 1..(Len(s) - 1)
         /\ \A i \in 1..(Len(s) - 1) : Tail(s)[i] = s[i + 1]
OBVIOUS

LEMMA FillersTail ==
  ASSUME NEW S, NEW s \in Seq(S), s # <<>>, OnlyFillers(s)
  PROVE  Head(s) \in Filler /\ OnlyFillers(Tail(s))
<1>1. ASSUME NEW i \in DOMAIN Tail(s)
      PROVE  i + 1 \in DOMAIN s /\ Tail(s)[i] = s[i + 1]
  BY TailIndex
<1>2. 1 \in DOMAIN s /\ Head(s) = s[1]
  BY TailIndex
<1>3. QED
  BY <1>1, <1>2 DEF OnlyFillers

LEMMA CarriesTail ==
  ASSUME NEW S, NEW s \in Seq(S), s # <<>>, NEW p, Carries(s, p)
  PROVE  \/ Head(s) = p /\ OnlyFillers(Tail(s))
         \/ Head(s) \in Filler /\ Carries(Tail(s), p)
<1>1. PICK i \in DOMAIN s : s[i] = p /\ \A j \in DOMAIN s \ {i} : s[j] \in Filler
  BY DEF Carries
<1>2. /\ DOMAIN s = 1..Len(s) /\ Len(s) \in Nat /\ Head(s) = s[1]
      /\ DOMAIN Tail(s) = 1..(Len(s) - 1)
      /\ \A j \in 1..(Len(s) - 1) : Tail(s)[j] = s[j + 1]
  BY TailIndex
<1>3. CASE i = 1
  <2>1. \A j \in DOMAIN Tail(s) : j + 1 \in DOMAIN s \ {i}
    BY <1>2, <1>3
  <2>2. QED
    BY <1>1, <1>2, <1>3, <2>1 DEF OnlyFillers
<1>4. CASE i # 1
  <2>1. 1 \in DOMAIN s \ {i} /\ i - 1 \in DOMAIN Tail(s)
    BY <1>1, <1>2, <1>4
  <2>2. Tail(s)[i - 1] = p
    BY <1>1, <1>2, <1>4, <2>1
  <2>3. \A j \in DOMAIN Tail(s) \ {i - 1} :
          j + 1 \in DOMAIN s \ {i} /\ Tail(s)[j] = s[j + 1]
    BY <1>1, <1>2
  <2>4. QED
    BY <1>1, <1>2, <2>1, <2>2, <2>3 DEF Carries
<1>5. QED
  BY <1>3, <1>4

-----------------------------------------------------------------------------
(* The packets themselves.                                                 *)

LEMMA FillerPackets ==
  ASSUME NEW f \in Filler
  PROVE  \/ f.kind = "message" /\ MidiIn(f) = <<>>
         \/ f.kind = "bundle" /\ f.packets \in Seq(Filler)
<1>1. AnswerPacket.kind = "message" /\ MidiIn(AnswerPacket) = <<>>
  BY DEF AnswerPacket, Message, MatchesMidi, MidiIn
<1>2. \A line : Bundle(line).kind = "bundle" /\ Bundle(line).packets = line
  BY DEF Bundle
<1>3. <<AnswerPacket>> \in Seq(Filler) /\ <<>> \in Seq(Filler)
  BY DEF Filler
<1>4. \A a : Message(a, <<>>).kind = "message" /\ MidiIn(Message(a, <<>>)) = <<>>
  BY DEF Message, MidiIn
<1>5. QED
  BY <1>1, <1>2, <1>3, <1>4 DEF Filler

LEMMA FillersFrom ==
  ASSUME NEW line \in Seq(Filler)
  PROVE  OnlyFillers(line)
BY DEF OnlyFillers

LEMMA PackOfMidi ==
  ASSUME msg.type = "midi", msg = MidiMsg(msg.midi[1])
  PROVE  /\ Pack(msg).kind = "message" /\ Pack(msg) # Zeroed
         /\ Pack(msg).address = MidiAddress(msg.midi[1].port)
         /\ MidiIn(Pack(msg)) = Reading
         /\ \E S : msg.midi \in Seq(S)
<1>1. Pack(msg) = Message(MidiAddress(msg.midi[1].port), msg.midi)
  BY DEF Pack
<1>2. msg.midi = <<msg.midi[1]>>
  <2>1. \A m : MidiMsg(m).midi = <<m>>
    BY DEF MidiMsg
  <2>2. QED
    BY <2>1
<1>3. msg.midi \in Seq({msg.midi[1]})
  <2>1. \A x : <<x>> \in Seq({x})
    OBVIOUS
  <2>2. QED
    BY <1>2, <2>1
<1>4. Pack(msg).args = msg.midi /\ Pack(msg).address = MidiAddress(msg.midi[1].port)
  BY <1>1 DEF Message
<1>5. MidiIn(Pack(msg)) = Reading
  <2>1. \A x : <<x>> # <<>>
    OBVIOUS
  <2>2. QED
    BY <1>2, <1>4, <2>1 DEF MidiIn, Reading
<1>6. QED
  BY <1>1, <1>3, <1>4, <1>5 DEF Message, Zeroed

(* The digits are the characters 48 to 57.                                 *)
LEMMA DigitMatches ==
  ASSUME NEW port \in 0..9
  PROVE  MatchesMidi(MidiAddress(port))
<1>1. (48 + port) % 256 = 48 + port /\ 48 + port \in 48..57
  OBVIOUS
<1>2. \/ MidiAddress(port).suffix = <<>>
      \/ MidiAddress(port).suffix = <<48 + port>>
  BY <1>1 DEF MidiAddress
<1>3. MidiAddress(port).base = "/midi"
  BY DEF MidiAddress
<1>4. CASE MidiAddress(port).suffix = <<>>
  BY <1>3, <1>4 DEF MatchesMidi
<1>5. CASE MidiAddress(port).suffix = <<48 + port>>
  <2>1. \A c : Len(<<c>>) = 1 /\ DOMAIN <<c>> = {1} /\ <<c>>[1] = c
    OBVIOUS
  <2>2. QED
    BY <1>1, <1>3, <1>5, <2>1 DEF MatchesMidi
<1>6. QED
  BY <1>2, <1>4, <1>5

LEMMA SubSeqOfThree ==
  ASSUME NEW x, NEW y, NEW z
  PROVE  /\ SubSeq(<<x, y, z>>, 1, 1) = <<x>>
         /\ SubSeq(<<x, y, z>>, 1, 2) = <<x, y>>
         /\ SubSeq(<<x, y, z>>, 1, 3) = <<x, y, z>>
<1> DEFINE s == <<x, y, z>>
<1>1. s \in Seq({x, y, z}) /\ Len(s) = 3 /\ s[1] = x /\ s[2] = y /\ s[3] = z
  OBVIOUS
<1>2. ASSUME NEW n \in 1..3
      PROVE  /\ SubSeq(s, 1, n) \in Seq({x, y, z})
             /\ Len(SubSeq(s, 1, n)) = n
             /\ \A i \in 1..n : SubSeq(s, 1, n)[i] = s[i]
  <2> HIDE DEF s
  <2>1. \A i \in 1..n : s[i] \in {x, y, z}
    BY <1>1
  <2>2. /\ SubSeq(s, 1, n) \in Seq({x, y, z})
        /\ Len(SubSeq(s, 1, n)) = IF 1 <= n THEN n - 1 + 1 ELSE 0
        /\ \A i \in 1..(n - 1 + 1) : SubSeq(s, 1, n)[i] = s[1 + i - 1]
    BY <2>1, SubSeqProperties
  <2>3. QED
    BY <2>2
<1>3. /\ <<x>> \in Seq({x, y, z}) /\ Len(<<x>>) = 1 /\ <<x>>[1] = x
      /\ <<x, y>> \in Seq({x, y, z}) /\ Len(<<x, y>>) = 2
      /\ <<x, y>>[1] = x /\ <<x, y>>[2] = y
  OBVIOUS
<1> HIDE DEF s
<1>4. SubSeq(s, 1, 1) = <<x>>
  <2>1. /\ SubSeq(s, 1, 1) \in Seq({x, y, z}) /\ Len(SubSeq(s, 1, 1)) = 1
        /\ SubSeq(s, 1, 1)[1] = x
    BY <1>1, <1>2
  <2>2. \A i \in 1..Len(SubSeq(s, 1, 1)) : SubSeq(s, 1, 1)[i] = <<x>>[i]
    BY <1>3, <2>1
  <2>3. QED
    BY <1>3, <2>1, <2>2, SeqEqual
<1>5. SubSeq(s, 1, 2) = <<x, y>>
  <2>1. /\ SubSeq(s, 1, 2) \in Seq({x, y, z}) /\ Len(SubSeq(s, 1, 2)) = 2
        /\ SubSeq(s, 1, 2)[1] = x /\ SubSeq(s, 1, 2)[2] = y
    BY <1>1, <1>2
  <2>2. \A i \in 1..Len(SubSeq(s, 1, 2)) : SubSeq(s, 1, 2)[i] = <<x, y>>[i]
    BY <1>3, <2>1
  <2>3. QED
    BY <1>3, <2>1, <2>2, SeqEqual
<1>6. SubSeq(s, 1, 3) = s
  <2>1. /\ SubSeq(s, 1, 3) \in Seq({x, y, z}) /\ Len(SubSeq(s, 1, 3)) = 3
        /\ \A i \in 1..3 : SubSeq(s, 1, 3)[i] = s[i]
    BY <1>2
  <2>2. QED
    BY <1>1, <2>1, SeqEqual
<1>7. QED
  BY <1>4, <1>5, <1>6 DEF s

(* How many bytes sendMIDI sends of what has come in, by its status byte.  *)
LEMMA StatusBytes ==
  ASSUME NEW s \in 128..255
  PROVE  /\ s < 240 => ChanCmd(s) \in {128, 144, 160, 176, 192, 208, 224}
         /\ s < 240 => (ChanCmd(s) \in {192, 208} <=> s \in 192..223)
         /\ s >= 240 => ChanCmd(s) = 240
BY DEF ChanCmd

LEMMA SentAsItCame ==
  ASSUME NEW s \in 128..255
  PROVE  SentLength(s) = IF s \in Refused THEN 0 ELSE StandardLength(s)
<1>1. CASE s < 240
  <2>1. s \notin Refused
    BY <1>1 DEF Refused, Cmd
  <2>2. CASE ChanCmd(s) \in {192, 208}
    <3>1. SentLength(s) = 2
      BY <1>1, <2>2 DEF SentLength, Cmd
    <3>2. QED
      BY <1>1, <2>1, <2>2, <3>1, StatusBytes DEF StandardLength
  <2>3. CASE ChanCmd(s) \notin {192, 208}
    <3>1. SentLength(s) = 3
      BY <1>1, <2>3, StatusBytes DEF SentLength, Cmd
    <3>2. QED
      BY <1>1, <2>1, <2>3, <3>1, StatusBytes DEF StandardLength
  <2>4. QED
    BY <2>2, <2>3
<1>2. CASE s >= 240
  <2>1. ChanCmd(s) = 240
    BY <1>2, StatusBytes
  <2>2. QED
    BY <1>2, <2>1 DEF SentLength, StandardLength, Refused, Cmd
<1>3. QED
  BY <1>1, <1>2

(* What arrives is a message of its standard length, or sysex, of which    *)
(* only the status byte and the length matter.                             *)
LEMMA ArrivingForms ==
  ASSUME NEW b \in Arriving, Len(b) <= 3
  PROVE  /\ b[1] \in 128..255
         /\ \/ b = <<b[1]>> /\ Len(b) = 1
            \/ b = <<b[1], b[2]>> /\ Len(b) = 2
            \/ b = <<b[1], b[2], b[3]>> /\ Len(b) = 3
         /\ b[1] \notin Refused => StandardLength(b[1]) = Len(b)
<1>1. \A x, y, z, u :
        /\ Len(<<x>>) = 1 /\ <<x>>[1] = x
        /\ Len(<<x, y>>) = 2 /\ <<x, y>>[1] = x /\ <<x, y>>[2] = y
        /\ Len(<<x, y, z>>) = 3
        /\ <<x, y, z>>[1] = x /\ <<x, y, z>>[2] = y /\ <<x, y, z>>[3] = z
        /\ Len(<<x, y, z, u>>) = 4
  OBVIOUS
<1>2. \A n : \A x \in Statuses(n) : x \in 128..255 /\ StandardLength(x) = n
  BY DEF Statuses
<1>3. CASE b \in {<<x>> : x \in Statuses(1)}
  <2>1. PICK x \in Statuses(1) : b = <<x>>
    BY <1>3
  <2>2. QED
    BY <1>1, <1>2, <2>1
<1>4. CASE b \in Statuses(2) \X Data
  <2>1. PICK x \in Statuses(2), d \in Data : b = <<x, d>>
    BY <1>4
  <2>2. QED
    BY <1>1, <1>2, <2>1
<1>5. CASE b \in Statuses(3) \X Data \X Data
  <2>1. PICK x \in Statuses(3), d \in Data, e \in Data : b = <<x, d, e>>
    BY <1>5
  <2>2. QED
    BY <1>1, <1>2, <2>1
<1>6. CASE b = <<240, 247>> \/ b \in {240} \X Data \X {247}
  <2>1. 240 \in Refused
    BY DEF Refused, Cmd
  <2>2. QED
    BY <1>1, <1>6, <2>1
<1>7. CASE b \in {240} \X Data \X Data \X {247}
  <2>1. PICK d \in Data, e \in Data : b = <<240, d, e, 247>>
    BY <1>7
  <2>2. QED
    BY <1>1, <2>1
<1>8. Cmd.sysxStart = 240 /\ Cmd.sysxEnd = 247
  BY DEF Cmd
<1>9. QED
  BY <1>3, <1>4, <1>5, <1>6, <1>7, <1>8 DEF Arriving

LEMMA WholeOf ==
  ASSUME NEW b \in Arriving, Len(b) <= 3
  PROVE  (IF SentLength(FromMidi(b).midi[1].cmd) > 0
          THEN <<ToMidi(FromMidi(b).midi[1])>> ELSE <<>>)
           = IF b[1] \in Refused THEN <<>> ELSE <<b>>
<1> DEFINE m == FromMidi(b).midi[1]
<1>1. m.cmd = b[1]
  BY DEF FromMidi, MidiMsg, Midi
<1>2. b[1] \in 128..255
  BY ArrivingForms
<1>3. SentLength(b[1]) = IF b[1] \in Refused THEN 0 ELSE StandardLength(b[1])
  BY <1>2, SentAsItCame
<1>4. CASE b[1] \in Refused
  BY <1>1, <1>3, <1>4
<1>5. CASE b[1] \notin Refused
  <2>1. StandardLength(b[1]) = Len(b) /\ Len(b) \in 1..3
    BY <1>5, ArrivingForms
  <2>2. ToMidi(m) = b
    <3>1. ToMidi(m) = SubSeq(<<m.cmd, m.val1, m.val2>>, 1, Len(b))
      BY <1>1, <1>3, <1>5, <2>1 DEF ToMidi
    <3>2. /\ m.val1 = IF Len(b) > 1 THEN b[2] ELSE 0
          /\ m.val2 = IF Len(b) > 2 THEN b[3] ELSE 0
      BY DEF FromMidi, MidiMsg, Midi
    <3>3. \/ b = <<b[1]>> /\ Len(b) = 1
          \/ b = <<b[1], b[2]>> /\ Len(b) = 2
          \/ b = <<b[1], b[2], b[3]>> /\ Len(b) = 3
      BY ArrivingForms
    <3>4. \A x, y, z : /\ SubSeq(<<x, y, z>>, 1, 1) = <<x>>
                       /\ SubSeq(<<x, y, z>>, 1, 2) = <<x, y>>
                       /\ SubSeq(<<x, y, z>>, 1, 3) = <<x, y, z>>
      BY SubSeqOfThree
    <3>5. QED
      BY <1>1, <3>1, <3>2, <3>3, <3>4
  <2>3. QED
    BY <1>1, <1>3, <1>5, <2>1, <2>2
<1>6. QED
  BY <1>4, <1>5
-----------------------------------------------------------------------------
(* The invariant, action by action.                                        *)

LEMMA SeqWiden ==
  ASSUME NEW S, NEW T, S \subseteq T, NEW s \in Seq(S)
  PROVE  s \in Seq(T)
OBVIOUS

LEMMA MadeMidi ==
  ASSUME NEW m \in Made, m.type = "midi"
  PROVE  m = MidiMsg(m.midi[1])
<1>1. \A n : MidiMsg(n).midi[1] = n
  BY DEF MidiMsg
<1>2. \A ms : MidiListMsg(ms).type # "midi"
  BY DEF MidiListMsg
<1>3. OtherMsg.type # "midi"
  BY DEF OtherMsg
<1>4. PICK n : m = MidiMsg(n)
  BY <1>2, <1>3 DEF Made
<1>5. QED
  BY <1>1, <1>4

LEMMA InitCInv == Init => CInv
<1> SUFFICES ASSUME Init PROVE CInv
  OBVIOUS
<1>1. OtherMsg.type # "midi"
  BY DEF OtherMsg
<1>2. ArrivedInv /\ ReadInv /\ SendsWholeMessages
  BY DEF Init, Outgoing, ArrivedInv, ReadInv, SendsWholeMessages
<1>3. msg.type = "midi" => msg = MidiMsg(msg.midi[1])
  <2>1. \A b : FromMidi(b) = MidiMsg(FromMidi(b).midi[1])
    <3>1. \A n : MidiMsg(n) = MidiMsg(MidiMsg(n).midi[1])
      BY DEF MidiMsg
    <3>2. QED
      BY <3>1 DEF FromMidi
  <2>2. QED
    BY <1>1, <2>1, MadeMidi DEF Init
<1>4. sent \in Seq(Known) /\ toRead \in Seq(Known)
  BY DEF Init
<1>5. SentInv
  BY <1>3, <1>4 DEF Init, SentInv
<1>6. QED
  BY <1>2, <1>5 DEF CInv

LEMMA CallbackKeeps ==
  ASSUME CInv, Callback
  PROVE  CInv'
<1>1. FromMidi(bytes).type = "midi" /\ FromMidi(bytes) = MidiMsg(FromMidi(bytes).midi[1])
  <2>1. \A n : MidiMsg(n).type = "midi" /\ MidiMsg(n) = MidiMsg(MidiMsg(n).midi[1])
    BY DEF MidiMsg
  <2>2. QED
    BY <2>1 DEF FromMidi
<1>2. UNCHANGED <<bytes, sent, toRead, decoded, out>> /\ pc = "arrived"
  BY DEF Callback
<1>3. ArrivedInv' /\ ReadInv' /\ SendsWholeMessages'
  BY <1>2 DEF CInv, Callback, ArrivedInv, ReadInv, SendsWholeMessages
<1>4. SentInv'
  BY <1>1, <1>2 DEF CInv, Callback, SentInv, Known
<1>5. QED
  BY <1>3, <1>4 DEF CInv

LEMMA SendMidiKeeps ==
  ASSUME CInv, SendMidi
  PROVE  CInv'
<1>1. UNCHANGED <<bytes, msg, sent, toRead, decoded>> /\ pc = "midiQueued" /\ pc' = "sent"
  BY DEF SendMidi
<1>2. ArrivedInv' /\ ReadInv' /\ SentInv'
  BY <1>1 DEF CInv, ArrivedInv, ReadInv, SentInv, Known
<1>3. ASSUME bytes # <<>>
      PROVE  out' = IF bytes[1] \in Refused THEN <<>> ELSE <<bytes>>
  <2>1. bytes \in Arriving /\ Len(bytes) <= 3 /\ msg = FromMidi(bytes)
    BY <1>1, <1>3 DEF CInv, ArrivedInv
  <2>2. msg.type = "midi"
    BY <2>1 DEF FromMidi, MidiMsg
  <2>3. QED
    BY <2>1, <2>2, WholeOf DEF SendMidi
<1>4. SendsWholeMessages'
  BY <1>1, <1>3 DEF SendsWholeMessages
<1>5. QED
  BY <1>2, <1>4 DEF CInv

LEMMA SendOscKeeps ==
  ASSUME CInv, SendOsc
  PROVE  CInv'
<1>1. /\ UNCHANGED <<bytes, msg, toRead, decoded, out>>
      /\ pc = "queued" /\ pc' = "packed" /\ sent' = <<Pack(msg)>>
  BY DEF SendOsc
<1>2. ArrivedInv' /\ ReadInv' /\ SendsWholeMessages'
  BY <1>1 DEF CInv, ArrivedInv, ReadInv, SendsWholeMessages
<1>3. Len(sent') = 1 /\ sent'[1] = Pack(msg) /\ DOMAIN sent' = {1}
  BY <1>1
<1>4. sent' \in Seq(Known') /\ toRead' \in Seq(Known')
  <2>1. Pack(msg) \in Known'
    BY <1>3 DEF Known
  <2>2. \A S : \A x \in S : <<x>> \in Seq(S)
    OBVIOUS
  <2>3. toRead = <<>>
    BY <1>1 DEF CInv, SentInv
  <2>4. QED
    BY <1>1, <2>1, <2>2, <2>3
<1>5. SentInv'
  BY <1>1, <1>3, <1>4 DEF CInv, SentInv
<1>6. QED
  BY <1>2, <1>5 DEF CInv

LEMMA BesideFillers ==
  ASSUME NEW line \in Beside
  PROVE  line \in Seq(Filler)
<1>1. PICK n \in 0..MaxBeside : line \in [1..n -> Filler]
  BY DEF Beside
<1>2. n \in Nat
  BY <1>1, BoundsAssumption
<1>3. QED
  BY <1>1, <1>2

(* What a peer sends is a bundle around what it got.                       *)
LEMMA PeerBundles ==
  ASSUME NEW a \in Beside, NEW b \in Beside, NEW p
  PROVE  Around(Bundle(a \o <<p>> \o b), p)
<1> DEFINE S == Filler \cup {p}
           line == a \o <<p>> \o b
<1>1. /\ a \in Seq(Filler) /\ b \in Seq(Filler)
      /\ a \in Seq(S) /\ b \in Seq(S) /\ <<p>> \in Seq(S)
  <2>1. a \in Seq(Filler) /\ b \in Seq(Filler)
    BY BesideFillers
  <2>2. <<p>> \in Seq(S)
    OBVIOUS
  <2>3. QED
    BY <2>1, <2>2, SeqWiden
<1>2. OnlyFillers(a) /\ OnlyFillers(b)
  BY <1>1, FillersFrom
<1>3. Carries(<<p>>, p)
  BY DEF Carries
<1>4. a \o <<p>> \in Seq(S) /\ Carries(a \o <<p>>, p)
  BY <1>1, <1>2, <1>3, CarriesConcat, ConcatIndex
<1>5. line \in Seq(S) /\ Carries(line, p)
  BY <1>1, <1>2, <1>4, CarriesConcat, ConcatIndex
<1> HIDE DEF line
<1>6. Bundle(line) = Bundle(Bundle(line).packets) /\ Bundle(line).packets = line
  BY DEF Bundle
<1>7. Around(Bundle(line), p)
  BY <1>5, <1>6 DEF Around
<1>8. QED
  BY <1>7 DEF line

LEMMA PeerForwardsKeeps ==
  ASSUME CInv, PeerForwards
  PROVE  CInv'
<1>1. /\ UNCHANGED <<pc, bytes, msg, toRead, decoded, out>> /\ pc = "packed"
      /\ sent[Len(sent)] # Zeroed
  BY DEF PeerForwards, packet
<1>2. ArrivedInv' /\ ReadInv' /\ SendsWholeMessages'
  BY <1>1 DEF CInv, ArrivedInv, ReadInv, SendsWholeMessages
<1>3. PICK a \in Beside, b \in Beside :
        sent' = Append(sent, Bundle(a \o <<sent[Len(sent)]>> \o b))
  BY DEF PeerForwards, packet
<1> DEFINE new == Bundle(a \o <<sent[Len(sent)]>> \o b)
           n == Len(sent)
<1>4. Around(new, sent[n])
  BY PeerBundles
<1> HIDE DEF new
<1>5. /\ n \in Nat /\ n >= 1 /\ sent \in Seq(Known) /\ DOMAIN sent = 1..n
      /\ toRead = <<>> /\ sent[1] = Pack(msg)
      /\ \A k \in 2..n : Around(sent[k], sent[k - 1])
      /\ msg.type = "midi" \/ n = 1
      /\ msg.type = "midi" => msg = MidiMsg(msg.midi[1])
  BY <1>1 DEF CInv, SentInv
<1>6. /\ Len(sent') = n + 1 /\ DOMAIN sent' = 1..(n + 1) /\ sent'[n + 1] = new
      /\ \A k \in 1..n : sent'[k] = sent[k]
  <2>1. sent' = Append(sent, new)
    BY <1>3 DEF new
  <2> HIDE DEF n
  <2>2. QED
    BY <1>5, <2>1 DEF n
<1>7. msg.type = "midi"
  <2>1. ASSUME msg.type # "midi"
        PROVE  FALSE
    <3>1. n = 1 /\ Pack(msg) = Zeroed
      BY <1>5, <2>1 DEF Pack
    <3>2. QED
      BY <1>1, <1>5, <3>1
  <2>2. QED
    BY <2>1
<1>8. sent' \in Seq(Known') /\ toRead' \in Seq(Known')
  <2>1. \A k \in DOMAIN sent' : sent'[k] \in Known'
    BY DEF Known
  <2>2. sent' \in [1..(n + 1) -> Known']
    <3>1. sent' \in Seq(Known \cup {new})
      BY <1>3, <1>5 DEF new
    <3> HIDE DEF n
    <3>2. sent' \in [1..(n + 1) -> Known \cup {new}]
      BY <1>5, <1>6, <3>1
    <3>3. QED
      BY <1>6, <2>1, <3>2
  <2>3. QED
    BY <1>1, <1>5, <2>2
<1>9. \A k \in 2..(n + 1) : Around(sent'[k], sent'[k - 1])
  <2> HIDE DEF n
  <2>1. ASSUME NEW k \in 2..(n + 1)
        PROVE  Around(sent'[k], sent'[k - 1])
    <3>1. CASE k = n + 1
      <4>1. sent'[k] = new /\ sent'[k - 1] = sent[n]
        BY <1>5, <1>6, <3>1
      <4>2. QED
        BY <1>4, <4>1
    <3>2. CASE k # n + 1
      <4>1. k \in 2..n /\ sent'[k] = sent[k] /\ sent'[k - 1] = sent[k - 1]
        BY <1>5, <1>6, <2>1, <3>2
      <4>2. QED
        BY <1>5, <4>1
    <3>3. QED
      BY <3>1, <3>2
  <2>2. QED
    BY <2>1
<1>10. SentInv'
  <2>1. sent'[1] = Pack(msg)
    BY <1>5, <1>6
  <2> HIDE DEF n
  <2>2. Len(sent') >= 1
    BY <1>5, <1>6
  <2>3. QED
    BY <1>1, <1>5, <1>6, <1>7, <1>8, <1>9, <2>1, <2>2 DEF SentInv
<1>11. QED
  BY <1>2, <1>10 DEF CInv

LEMMA ParseKeeps ==
  ASSUME CInv, Parse
  PROVE  CInv'
<1>1. /\ UNCHANGED <<bytes, msg, sent, decoded, out>> /\ pc = "packed"
      /\ pc' = "parsing" /\ toRead' = <<sent[Len(sent)]>>
      /\ sent[Len(sent)] # Zeroed
  BY DEF Parse, packet
<1>2. /\ Len(sent) \in 1..Len(sent) /\ DOMAIN sent = 1..Len(sent)
      /\ sent[1] = Pack(msg) /\ (msg.type = "midi" \/ Len(sent) = 1)
      /\ decoded = <<>>
  BY <1>1 DEF CInv, SentInv, ReadInv
<1>3. msg.type = "midi"
  <2>1. msg.type # "midi" => Pack(msg) = Zeroed
    BY DEF Pack
  <2>2. Len(sent) = 1 => sent[Len(sent)] = Pack(msg)
    BY <1>2
  <2>3. QED
    BY <1>1, <1>2, <2>1, <2>2
<1>4. toRead' \in Seq(Known)
  <2>1. sent[Len(sent)] \in Known
    BY <1>2 DEF Known
  <2>2. \A S : \A x \in S : <<x>> \in Seq(S)
    OBVIOUS
  <2>3. QED
    BY <1>1, <2>1, <2>2
<1>5. Carries(toRead', sent[Len(sent)])
  BY <1>1 DEF Carries
<1>6. ArrivedInv' /\ SendsWholeMessages'
  BY <1>1 DEF CInv, ArrivedInv, SendsWholeMessages
<1>7. SentInv'
  BY <1>1, <1>3, <1>4 DEF CInv, SentInv, Known
<1>8. ReadInv'
  BY <1>1, <1>2, <1>5 DEF ReadInv
<1>9. QED
  BY <1>6, <1>7, <1>8 DEF CInv

(* The packets that a bundle holds, by where the bundle comes from.        *)
LEMMA SentPackets ==
  ASSUME SentInv, pc = "parsing", NEW k \in 1..Len(sent)
  PROVE  \/ k = 1 /\ sent[k] = Pack(msg) /\ sent[k].kind = "message"
         \/ /\ k - 1 \in 1..Len(sent) /\ sent[k].kind = "bundle"
            /\ sent[k].packets \in Seq(Known)
            /\ Carries(sent[k].packets, sent[k - 1])
<1>1. CASE k = 1
  BY <1>1, PackOfMidi DEF SentInv
<1>2. CASE k # 1
  <2>1. k \in 2..Len(sent) /\ k - 1 \in 1..Len(sent) /\ DOMAIN sent = 1..Len(sent)
    BY <1>2 DEF SentInv
  <2>2. Around(sent[k], sent[k - 1])
    BY <2>1 DEF SentInv
  <2>3. \A line : Bundle(line).kind = "bundle"
    BY DEF Bundle
  <2>4. sent[k].packets \in Seq(Known)
    <3>1. Filler \cup {sent[k - 1]} \subseteq Known
      BY <2>1 DEF Known
    <3>2. sent[k].packets \in Seq(Filler \cup {sent[k - 1]})
      BY <2>2 DEF Around
    <3>3. QED
      BY <3>1, <3>2, SeqWiden
  <2>5. QED
    BY <2>1, <2>2, <2>3, <2>4 DEF Around
<1>3. QED
  BY <1>1, <1>2

LEMMA HandleBundleKeeps ==
  ASSUME CInv, HandleBundle
  PROVE  CInv'
<1> DEFINE h == Head(toRead)
           rest == Tail(toRead)
<1>1. /\ UNCHANGED <<pc, bytes, msg, sent, decoded, out>> /\ pc = "parsing"
      /\ toRead # <<>> /\ h.kind = "bundle" /\ toRead' = h.packets \o rest
      /\ toRead \in Seq(Known) /\ SentInv /\ DOMAIN sent = 1..Len(sent)
  BY DEF HandleBundle, CInv, SentInv
<1>2. h \in Known /\ rest \in Seq(Known)
  BY <1>1, TailIndex
<1> HIDE DEF h, rest
<1>3. h \in Filler => h.packets \in Seq(Known) /\ OnlyFillers(h.packets)
  <2>1. Filler \subseteq Known
    BY DEF Known
  <2>2. h \in Filler => h.packets \in Seq(Filler)
    BY <1>1, FillerPackets
  <2>3. QED
    BY <2>1, <2>2, SeqWiden, FillersFrom
<1>4. \A k \in 1..Len(sent) : h = sent[k] =>
        /\ k - 1 \in 1..Len(sent) /\ h.packets \in Seq(Known)
        /\ Carries(h.packets, sent[k - 1])
  BY <1>1, SentPackets
<1>5. h.packets \in Seq(Known)
  BY <1>1, <1>2, <1>3, <1>4 DEF Known
<1>6. toRead' \in Seq(Known)
  BY <1>1, <1>2, <1>5, ConcatIndex
<1>7. ArrivedInv' /\ SendsWholeMessages'
  BY <1>1 DEF CInv, ArrivedInv, SendsWholeMessages
<1>8. SentInv'
  BY <1>1, <1>6 DEF SentInv, Known
<1>9. \/ /\ decoded = <<>>
         /\ \E k \in 1..Len(sent) : Carries(h.packets \o rest, sent[k])
      \/ decoded = Reading /\ OnlyFillers(h.packets \o rest)
  <2>1. CASE decoded = Reading /\ OnlyFillers(toRead)
    <3>1. h \in Filler /\ OnlyFillers(rest)
      BY <1>1, <2>1, FillersTail DEF h, rest
    <3>2. QED
      BY <1>2, <1>3, <2>1, <3>1, FillersConcat
  <2>2. ASSUME decoded = <<>>, NEW k \in 1..Len(sent), Carries(toRead, sent[k])
        PROVE  \E i \in 1..Len(sent) : Carries(h.packets \o rest, sent[i])
    <3>1. CASE h = sent[k] /\ OnlyFillers(rest)
      <4>1. k - 1 \in 1..Len(sent) /\ Carries(h.packets, sent[k - 1])
        BY <1>4, <3>1
      <4>2. Carries(h.packets \o rest, sent[k - 1])
        BY <1>2, <1>5, <3>1, <4>1, CarriesConcat
      <4>3. QED
        BY <4>1, <4>2
    <3>2. CASE h \in Filler /\ Carries(rest, sent[k])
      <4>1. Carries(h.packets \o rest, sent[k])
        BY <1>2, <1>3, <3>2, CarriesConcat
      <4>2. QED
        BY <4>1
    <3>3. QED
      BY <1>1, <2>2, <3>1, <3>2, CarriesTail DEF h, rest
  <2>3. QED
    BY <1>1, <2>1, <2>2 DEF CInv, ReadInv
<1>10. ReadInv'
  BY <1>1, <1>9 DEF ReadInv, Reading
<1>11. QED
  BY <1>7, <1>8, <1>10 DEF CInv

LEMMA HandleMessageKeeps ==
  ASSUME CInv, HandleMessage
  PROVE  CInv'
<1> DEFINE h == Head(toRead)
           rest == Tail(toRead)
           found == MidiIn(h)
<1>1. /\ UNCHANGED <<pc, bytes, msg, sent, out>> /\ pc = "parsing"
      /\ toRead # <<>> /\ h.kind = "message" /\ toRead' = rest
      /\ decoded' = decoded \o found
      /\ toRead \in Seq(Known) /\ SentInv
  BY DEF HandleMessage, CInv, SentInv
<1>2. rest \in Seq(Known)
  BY <1>1, TailIndex
<1>3. \E S : msg.midi \in Seq(S)
  BY <1>1, PackOfMidi DEF SentInv
<1>4. Reading \o <<>> = Reading /\ <<>> \o Reading = Reading
  <2>1. \A S : \A s \in Seq(S) : s \o <<>> = s /\ <<>> \o s = s
    OBVIOUS
  <2>2. <<>> \in Seq({})
    OBVIOUS
  <2>3. QED
    BY <1>3, <2>1, <2>2 DEF Reading
<1> HIDE DEF h, rest
<1>5. h \in Filler => found = <<>>
  BY <1>1, FillerPackets
<1>6. \A k \in 1..Len(sent) : h = sent[k] => found = Reading
  <2>1. ASSUME NEW k \in 1..Len(sent), h = sent[k]
        PROVE  found = Reading
    <3>1. h = Pack(msg)
      BY <1>1, <2>1, SentPackets
    <3>2. QED
      BY <1>1, <3>1, PackOfMidi DEF Reading, SentInv
  <2>2. QED
    BY <2>1
<1> HIDE DEF found
<1>7. ArrivedInv' /\ SendsWholeMessages'
  BY <1>1 DEF CInv, ArrivedInv, SendsWholeMessages
<1>8. SentInv'
  BY <1>1, <1>2 DEF SentInv, Known
<1>9. \/ /\ decoded \o found = <<>>
         /\ \E k \in 1..Len(sent) : Carries(rest, sent[k])
      \/ decoded \o found = Reading /\ OnlyFillers(rest)
  <2>1. CASE decoded = Reading /\ OnlyFillers(toRead)
    <3>1. h \in Filler /\ OnlyFillers(rest)
      BY <1>1, <2>1, FillersTail DEF h, rest
    <3>2. QED
      BY <1>4, <1>5, <2>1, <3>1
  <2>2. ASSUME decoded = <<>>, NEW k \in 1..Len(sent), Carries(toRead, sent[k])
        PROVE  \/ decoded \o found = Reading /\ OnlyFillers(rest)
               \/ decoded \o found = <<>> /\ Carries(rest, sent[k])
    <3>1. CASE h = sent[k] /\ OnlyFillers(rest)
      BY <1>4, <1>6, <2>2, <3>1
    <3>2. CASE h \in Filler /\ Carries(rest, sent[k])
      <4>1. <<>> \o <<>> = <<>>
        OBVIOUS
      <4>2. QED
        BY <1>5, <2>2, <3>2, <4>1
    <3>3. QED
      BY <1>1, <2>2, <3>1, <3>2, CarriesTail DEF h, rest
  <2>3. QED
    BY <1>1, <2>1, <2>2 DEF CInv, ReadInv
<1>10. ReadInv'
  BY <1>1, <1>9 DEF ReadInv, Reading
<1>11. QED
  BY <1>7, <1>8, <1>10 DEF CInv

LEMMA ParseReturnsKeeps ==
  ASSUME CInv, ParseReturns
  PROVE  CInv'
<1>1. /\ UNCHANGED <<bytes, msg, sent, toRead, decoded, out>>
      /\ pc = "parsing" /\ toRead = <<>> /\ pc' = "parsed"
  BY DEF ParseReturns
<1>2. \A p : ~Carries(<<>>, p)
  BY DEF Carries
<1>3. decoded = Reading
  BY <1>1, <1>2 DEF CInv, ReadInv
<1>4. ArrivedInv' /\ SendsWholeMessages' /\ SentInv'
  BY <1>1 DEF CInv, ArrivedInv, SendsWholeMessages, SentInv, Known
<1>5. ReadInv'
  BY <1>1, <1>3 DEF ReadInv, Reading
<1>6. QED
  BY <1>4, <1>5 DEF CInv

LEMMA StutterKeeps ==
  ASSUME CInv, UNCHANGED vars
  PROVE  CInv'
BY DEF CInv, vars, ArrivedInv, SentInv, Known, ReadInv, Reading, SendsWholeMessages

(* The inductive invariant.                                                *)
LEMMA Codec == Spec => []CInv
<1>1. CInv /\ [Next]_vars => CInv'
  BY CallbackKeeps, SendMidiKeeps, SendOscKeeps, PeerForwardsKeeps, ParseKeeps,
     HandleBundleKeeps, HandleMessageKeeps, ParseReturnsKeeps, StutterKeeps
  DEF Next
<1>2. QED
  BY <1>1, InitCInv, PTL DEF Spec

(* Whatever MIDI message is put on midiOutQ in the form in which the       *)
(* callback makes them, it goes out with all its bytes and no more, or not *)
(* at all: the length that sendMIDI knows for a command is the one the     *)
(* standard gives it (midi_worker.cpp:79-97, 149-194).                     *)
THEOREM MidiSendsWholeMessages == Spec => []SendsWholeMessages
<1>1. CInv => SendsWholeMessages
  BY DEF CInv
<1>2. QED
  BY <1>1, Codec, PTL

(* What one hub packs, another reads back unchanged, in however many       *)
(* bundles inside one another and beside however many other packets, for   *)
(* every port that its address has a digit for (osc_handler.cpp:33-140).   *)
THEOREM OscReadsWhatWasPacked == Spec => []OscRoundTrip
<1>1. CInv => OscRoundTrip
  BY DigitMatches DEF CInv, ReadInv, Reading, OscRoundTrip
<1>2. QED
  BY <1>1, Codec, PTL
=============================================================================
