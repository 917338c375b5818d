-------------------------- MODULE OscServerProofs --------------------------
(***************************************************************************)
(* Theorems about OscServer for every set of io threads, every number of   *)
(* packets and every number of messages sent.                              *)
(*                                                                         *)
(* The receive loop is a token: a pending receive, a received packet's     *)
(* handler in the ready queue, or an io thread inside that handler.  The   *)
(* inductive invariant IInv says that there is one token until a receive   *)
(* is aborted, which packet it carries, and that the sends which are still *)
(* pending, together with the answer the token owes, are no more than what *)
(* was received and what the worker sent.                                  *)
(***************************************************************************)
EXTENDS OscServer, FiniteSetTheorems, SequenceTheorems, TLAPS

AtMostOne(S) == \A x, y \in S : x = y

LoopInv ==
  /\ AtMostOne(Receives) /\ AtMostOne(InHandler)
  /\ armed = 1 => Receives = {} /\ InHandler = {} /\ ~aborted
  /\ Receives # {} => InHandler = {} /\ ~aborted
  /\ InHandler # {} => ~aborted
  /\ aborted \/ armed = 1 \/ Receives # {} \/ InHandler # {}

(* The token's packet is the newest and nothing as new has been parsed.    *)
ParsedBefore(n) == \A k \in DOMAIN parsed : parsed[k] < n

OrderInv ==
  /\ \A i, j \in DOMAIN parsed : i < j => parsed[i] < parsed[j]
  /\ \A k \in DOMAIN parsed : parsed[k] <= received
  /\ \A i \in Receives : ready[i].n = received /\ ParsedBefore(received)
  /\ \A t \in IoThreads :
       tpc[t] = "parse" => /\ packet[t] = received /\ packet[t] \in Packets
                           /\ ParsedBefore(received)

(* The token will still ask for a send of its own.                         *)
OwesAnswer ==
  \/ \E t \in IoThreads : tpc[t] \in {"parse", "answer"}
  \/ \E i \in Receives : ready[i].name = "osc"

SendInv ==
  /\ sending <= sent + received
  /\ OwesAnswer => sending < sent + received

(* Nothing happens after an exception has ended the process.               *)
IInv ==
  /\ TypeOK /\ ParsedInOrder
  /\ ~terminated => LoopInv /\ OrderInv /\ SendInv

-----------------------------------------------------------------------------
(* What a step does to the packets in the ready queue, whatever other      *)
(* handlers it puts behind them.                                           *)

NoPacket(s) == \A i \in DOMAIN s : s[i].name \notin Kinds

LEMMA PacketsStay ==
  ASSUME ready \in Seq(Handlers), NEW more \in Seq(Handlers), NoPacket(more),
         ready' = ready \o more
  PROVE  /\ ready' \in Seq(Handlers)
         /\ Receives' = Receives
         /\ \A i \in Receives : ready'[i] = ready[i]
<1>1. /\ ready' \in Seq(Handlers)
      /\ DOMAIN ready' = 1..(Len(ready) + Len(more))
      /\ Len(ready) \in Nat /\ Len(more) \in Nat
      /\ DOMAIN ready = 1..Len(ready) /\ DOMAIN more = 1..Len(more)
      /\ \A i \in 1..Len(ready) : ready'[i] = ready[i]
      /\ \A i \in DOMAIN ready' : i > Len(ready)
           => i - Len(ready) \in DOMAIN more /\ ready'[i] = more[i - Len(ready)]
  OBVIOUS
<1>2. ASSUME NEW i \in DOMAIN ready', ready'[i].name \in Kinds
      PROVE  i \in DOMAIN ready
  <2>1. CASE i > Len(ready)
    BY <1>1, <1>2, <2>1 DEF NoPacket
  <2>2. CASE ~(i > Len(ready))
    BY <1>1, <2>2
  <2>3. QED
    BY <2>1, <2>2
<1>3. \A i \in DOMAIN ready : i \in DOMAIN ready' /\ ready'[i] = ready[i]
  BY <1>1
<1>4. QED
  BY <1>1, <1>2, <1>3 DEF Receives

LEMMA PacketsMoveUp ==
  ASSUME ready \in Seq(Handlers), ready # <<>>,
         NEW more \in Seq(Handlers), NoPacket(more),
         ready' = Tail(ready) \o more
  PROVE  /\ ready' \in Seq(Handlers)
         /\ \A i \in Receives' : i + 1 \in Receives /\ ready'[i] = ready[i + 1]
         /\ \A i \in Receives : i # 1 => i - 1 \in Receives'
         /\ 1 \in DOMAIN ready /\ ready[1] = Head(ready)
<1> DEFINE rest == Tail(ready)
<1>1. /\ rest \in Seq(Handlers)
      /\ Len(ready) \in Nat /\ Len(ready) >= 1 /\ Len(rest) = Len(ready) - 1
      /\ DOMAIN ready = 1..Len(ready) /\ DOMAIN rest = 1..Len(rest)
      /\ \A i \in DOMAIN rest : rest[i] = ready[i + 1]
      /\ Head(ready) = ready[1]
  OBVIOUS
<1> HIDE DEF rest
<1>2. /\ ready' \in Seq(Handlers)
      /\ DOMAIN ready' = 1..(Len(rest) + Len(more))
      /\ Len(more) \in Nat /\ DOMAIN more = 1..Len(more)
      /\ \A i \in 1..Len(rest) : ready'[i] = rest[i]
      /\ \A i \in DOMAIN ready' : i > Len(rest)
           => i - Len(rest) \in DOMAIN more /\ ready'[i] = more[i - Len(rest)]
  <2>1. ready' = rest \o more
    BY DEF rest
  <2>2. QED
    BY <1>1, <2>1
<1>3. ASSUME NEW i \in DOMAIN ready', ready'[i].name \in Kinds
      PROVE  i + 1 \in DOMAIN ready /\ ready'[i] = ready[i + 1]
  <2>1. CASE i > Len(rest)
    BY <1>2, <1>3, <2>1 DEF NoPacket
  <2>2. CASE ~(i > Len(rest))
    BY <1>1, <1>2, <2>2
  <2>3. QED
    BY <2>1, <2>2
<1>4. \A i \in DOMAIN ready : i # 1
        => i - 1 \in DOMAIN ready' /\ ready'[i - 1] = ready[i]
  BY <1>1, <1>2
<1>5. QED
  BY <1>1, <1>2, <1>3, <1>4 DEF Receives

(* An io thread that takes a handler off the queue.                        *)
LEMMA TakesEffect ==
  ASSUME TypeOK, NEW t \in IoThreads, NEW names, NEW to,
         NEW more \in Seq(Handlers), NoPacket(more), Takes(t, names, to, more)
  PROVE  /\ ready' \in Seq(Handlers)
         /\ \A i \in Receives' : i + 1 \in Receives /\ ready'[i] = ready[i + 1]
         /\ \A i \in Receives : i # 1 => i - 1 \in Receives'
         /\ \A i \in Receives : i \in Nat
         /\ 1 \in DOMAIN ready /\ ready[1] = Head(ready)
         /\ ready[1].name \in names /\ ready[1] \in Handlers
         /\ tpc[t] = "run" /\ tpc' = [tpc EXCEPT ![t] = to]
         /\ ~terminated
         /\ UNCHANGED <<hubPc, terminated, counters, parsed>>
<1>1. ready \in Seq(Handlers) /\ ready # <<>> /\ ready' = Tail(ready) \o more
  BY DEF TypeOK, Takes
<1>2. \A i \in Receives : i \in Nat
  BY <1>1 DEF Receives
<1>3. ready[1] \in Handlers
  BY <1>1
<1>4. /\ Head(ready).name \in names
      /\ tpc[t] = "run" /\ tpc' = [tpc EXCEPT ![t] = to]
      /\ ~terminated
      /\ UNCHANGED <<hubPc, terminated, counters, parsed>>
  BY DEF Takes
<1>5. QED
  BY <1>1, <1>2, <1>3, <1>4, PacketsMoveUp

LEMMA NoMore == /\ <<>> \in Seq(Handlers) /\ NoPacket(<<>>)
                /\ \A name \in {"cancel", "wsCancel", "sent"} :
                     <<Handler(name)>> \in Seq(Handlers) /\ NoPacket(<<Handler(name)>>)
BY DEF NoPacket, Handlers, Handler, Kinds

(* What cancel() makes ready: an abort, and the ends of the sends.         *)
LEMMA CanceledHandlers ==
  ASSUME TypeOK
  PROVE  LET more == [i \in 1..armed |-> Aborted]
                       \o [i \in 1..sending |-> Handler("sent")]
         IN  more \in Seq(Handlers) /\ NoPacket(more)
<1> DEFINE a == [i \in 1..armed |-> Aborted]
           b == [i \in 1..sending |-> Handler("sent")]
<1>1. armed \in Nat /\ sending \in Nat
  BY MaxPacketsAssumption, MaxSendsAssumption DEF TypeOK
<1>2. /\ Aborted \in Handlers /\ Aborted.name \notin Kinds
      /\ Handler("sent") \in Handlers /\ Handler("sent").name \notin Kinds
  BY DEF Aborted, Handler, Handlers, Kinds
<1>3. /\ a \in Seq(Handlers) /\ Len(a) = armed
      /\ \A i \in 1..armed : a[i].name \notin Kinds
  BY <1>1, <1>2
<1>4. /\ b \in Seq(Handlers) /\ Len(b) = sending
      /\ \A i \in 1..sending : b[i].name \notin Kinds
  BY <1>1, <1>2
<1> HIDE DEF a, b
<1>5. a \o b \in Seq(Handlers) /\ NoPacket(a \o b)
  <2>1. /\ a \o b \in Seq(Handlers)
        /\ DOMAIN (a \o b) = 1..(armed + sending)
        /\ \A i \in 1..armed : (a \o b)[i] = a[i]
        /\ \A i \in 1..(armed + sending) : i > armed
             => i - armed \in 1..sending /\ (a \o b)[i] = b[i - armed]
    BY <1>1, <1>3, <1>4
  <2>2. QED
    BY <1>1, <1>3, <1>4, <2>1 DEF NoPacket
<1>6. QED
  BY <1>5 DEF a, b

(* The signals are made ready as handlers that hold no packet.             *)
LEMMA SignalHandlers ==
  ASSUME TypeOK, NEW order \in [1..Cardinality(sigArmed) -> sigArmed]
  PROVE  LET more == [i \in DOMAIN order |-> Handler(order[i])]
         IN  more \in Seq(Handlers) /\ NoPacket(more)
<1> DEFINE n == Cardinality(sigArmed)
           more == [i \in DOMAIN order |-> Handler(order[i])]
<1>1. n \in Nat
  <2>1. IsFiniteSet({"oscSignal", "wsSignal"})
    <3>1. {"oscSignal", "wsSignal"} = {"oscSignal"} \cup {"wsSignal"}
      OBVIOUS
    <3>2. IsFiniteSet({"oscSignal"})
      BY FS_Singleton
    <3>3. QED
      BY <3>1, <3>2, FS_AddElement
  <2>2. QED
    BY <2>1, FS_Subset, FS_CardinalityType DEF TypeOK
<1> HIDE DEF n
<1>2. more \in [1..n -> Handlers] /\ DOMAIN more = 1..n
  <2>1. DOMAIN order = 1..n /\ \A i \in 1..n : order[i] \in sigArmed
    BY DEF n
  <2>2. \A s \in sigArmed : Handler(s) \in Handlers
    BY DEF TypeOK, Handlers
  <2>3. QED
    BY <2>1, <2>2
<1>3. \A i \in 1..n : more[i].name \notin Kinds
  <2>1. DOMAIN order = 1..n /\ \A i \in 1..n : order[i] \in sigArmed
    BY DEF n
  <2>2. \A s \in sigArmed : Handler(s).name \notin Kinds
    BY DEF TypeOK, Kinds, Handler
  <2>3. QED
    BY <2>1, <2>2
<1> HIDE DEF more
<1>4. more \in Seq(Handlers) /\ NoPacket(more)
  BY <1>1, <1>2, <1>3 DEF NoPacket
<1>5. QED
  BY <1>4 DEF more
-----------------------------------------------------------------------------
(* Type correctness of a step, action by action.                           *)

LEMMA HandlerEndsType ==
  ASSUME stopped \in BOOLEAN, HandlerEnds
  PROVE  stopped' \in BOOLEAN
BY DEF HandlerEnds

LEMMA EnvironmentTypes ==
  ASSUME TypeOK,
         \/ \E kind \in Kinds : PacketArrives(kind)
         \/ SendCompletes
         \/ SignalArrives
  PROVE  TypeOK'
<1> USE DEF TypeOK, counters
<1>1. ASSUME NEW kind \in Kinds, PacketArrives(kind)
      PROVE  TypeOK'
  <2>1. received' \in Packets
    BY <1>1, MaxPacketsAssumption DEF PacketArrives, Packets
  <2>2. Recv(kind, received') \in Handlers
    BY <2>1 DEF Handlers
  <2>3. ready' \in Seq(Handlers)
    BY <1>1, <2>2 DEF PacketArrives
  <2>4. armed' \in 0..1
    BY <1>1 DEF PacketArrives
  <2>5. QED
    BY <1>1, <2>1, <2>3, <2>4 DEF PacketArrives, Packets
<1>2. CASE SendCompletes
  <2>1. Handler("sent") \in Handlers
    BY DEF Handlers
  <2>2. ready' \in Seq(Handlers)
    BY <1>2, <2>1 DEF SendCompletes
  <2>3. sending' \in 0..(MaxPackets + MaxSends)
    BY <1>2, MaxPacketsAssumption, MaxSendsAssumption DEF SendCompletes
  <2>4. QED
    BY <1>2, <2>2, <2>3 DEF SendCompletes
<1>3. CASE SignalArrives
  <2>1. PICK order \in [1..Cardinality(sigArmed) -> sigArmed] :
          ready' = ready \o [i \in DOMAIN order |-> Handler(order[i])]
    BY <1>3 DEF SignalArrives
  <2> DEFINE more == [i \in DOMAIN order |-> Handler(order[i])]
  <2>2. more \in Seq(Handlers)
    BY SignalHandlers
  <2>3. ready' = ready \o more
    BY <2>1
  <2> HIDE DEF more
  <2>4. ready' \in Seq(Handlers)
    BY <2>2, <2>3
  <2>5. QED
    BY <1>3, <2>4 DEF SignalArrives
<1>4. QED
  BY <1>1, <1>2, <1>3

(* A handler that only touches the ready queue and the calling thread.     *)
LEMMA TakesTypes ==
  ASSUME TypeOK, NEW t \in IoThreads, NEW names,
         NEW to \in {"run", "parse", "answer", "receive", "returned"},
         NEW more \in Seq(Handlers), NoPacket(more), Takes(t, names, to, more)
  PROVE  /\ ready' \in Seq(Handlers)
         /\ tpc' \in [IoThreads -> {"run", "parse", "answer", "receive", "returned"}]
         /\ hubPc' \in {"running", "stopping", "returned"}
         /\ terminated' \in BOOLEAN
         /\ received' \in 0..MaxPackets
         /\ sent' \in 0..MaxSends
         /\ parsed' \in Seq(Packets)
<1>1. /\ ready' \in Seq(Handlers)
      /\ tpc' = [tpc EXCEPT ![t] = to]
      /\ UNCHANGED <<hubPc, terminated, counters, parsed>>
  BY TakesEffect
<1>2. QED
  BY <1>1 DEF TypeOK, counters

LEMMA HandlerTypes ==
  ASSUME TypeOK, NEW t \in IoThreads,
         \/ HandleOscSignal(t) \/ HandleWsSignal(t) \/ HandleCancel(t)
         \/ HandleSent(t) \/ RecvAborted(t) \/ RecvSkips(t) \/ RecvPacket(t)
  PROVE  TypeOK'
<1>1. CASE HandleOscSignal(t)
  <2>1. Takes(t, {"oscSignal"}, "run", <<Handler("cancel")>>)
    BY <1>1 DEF HandleOscSignal
  <2>2. stopped' \in BOOLEAN
    BY <1>1, HandlerEndsType DEF HandleOscSignal, TypeOK
  <2>3. QED
    BY <1>1, <2>1, <2>2, NoMore, TakesTypes DEF HandleOscSignal, TypeOK
<1>2. CASE HandleWsSignal(t)
  <2>1. Takes(t, {"wsSignal"}, "run", <<Handler("wsCancel")>>)
    BY <1>2 DEF HandleWsSignal
  <2>2. stopped' \in BOOLEAN
    BY <1>2, HandlerEndsType DEF HandleWsSignal, TypeOK
  <2>3. QED
    BY <1>2, <2>1, <2>2, NoMore, TakesTypes DEF HandleWsSignal, TypeOK
<1>3. CASE HandleCancel(t)
  <2> DEFINE more == [i \in 1..armed |-> Aborted]
                       \o [i \in 1..sending |-> Handler("sent")]
  <2>1. Takes(t, {"cancel"}, "run", more)
    BY <1>3 DEF HandleCancel
  <2>2. more \in Seq(Handlers) /\ NoPacket(more)
    BY CanceledHandlers
  <2> HIDE DEF more
  <2>3. stopped' \in BOOLEAN
    BY <1>3, HandlerEndsType DEF HandleCancel, TypeOK
  <2>4. /\ armed' \in 0..1 /\ sending' \in 0..(MaxPackets + MaxSends)
        /\ sigArmed' \subseteq {"oscSignal", "wsSignal"}
        /\ packet' \in [IoThreads -> 0..MaxPackets]
    BY <1>3, MaxPacketsAssumption, MaxSendsAssumption DEF HandleCancel, TypeOK
  <2>5. canceled' \in BOOLEAN /\ aborted' \in BOOLEAN
    BY <1>3 DEF HandleCancel, TypeOK
  <2>6. QED
    BY <2>1, <2>2, <2>3, <2>4, <2>5, TakesTypes DEF TypeOK
<1>4. CASE HandleSent(t)
  <2>1. Takes(t, {"sent", "wsCancel"}, "run", <<>>)
    BY <1>4 DEF HandleSent
  <2>2. stopped' \in BOOLEAN
    BY <1>4, HandlerEndsType DEF HandleSent, TypeOK
  <2>3. QED
    BY <1>4, <2>1, <2>2, NoMore, TakesTypes DEF HandleSent, TypeOK
<1>5. CASE RecvAborted(t)
  <2>1. Takes(t, {"aborted"}, "run", <<>>)
    BY <1>5 DEF RecvAborted
  <2>2. stopped' \in BOOLEAN
    BY <1>5, HandlerEndsType DEF RecvAborted, TypeOK
  <2>3. QED
    BY <1>5, <2>1, <2>2, NoMore, TakesTypes DEF RecvAborted, TypeOK
<1>6. CASE RecvSkips(t)
  <2>1. Takes(t, {"own", "crap"}, "receive", <<>>)
    BY <1>6 DEF RecvSkips
  <2>2. QED
    BY <1>6, <2>1, NoMore, TakesTypes DEF RecvSkips, TypeOK
<1>7. CASE RecvPacket(t)
  <2>1. Takes(t, {"osc"}, "parse", <<>>)
    BY <1>7 DEF RecvPacket
  <2>2. Head(ready) \in Handlers
    BY <2>1, NoMore, TakesEffect
  <2>3. packet' \in [IoThreads -> 0..MaxPackets]
    <3>1. Head(ready).n \in 0..MaxPackets
      BY <2>2, MaxPacketsAssumption DEF Handlers, Handler, Recv, Packets
    <3>2. QED
      BY <1>7, <3>1 DEF RecvPacket, TypeOK
  <2>4. QED
    BY <1>7, <2>1, <2>3, NoMore, TakesTypes DEF RecvPacket, TypeOK
<1>8. QED
  BY <1>1, <1>2, <1>3, <1>4, <1>5, <1>6, <1>7

(* The last two need the rest of the invariant: that the handler's packet  *)
(* is one, that its answer is one more send, and that no receive is armed  *)
(* while it runs.                                                          *)
LEMMA InsideTypes ==
  ASSUME IInv, NEW t \in IoThreads,
         \/ Parse(t) \/ ParseThrows(t) \/ Answer(t)
         \/ StartReceive(t) \/ ThreadReturns(t)
  PROVE  TypeOK'
<1>1. TypeOK /\ ~terminated /\ LoopInv /\ OrderInv /\ SendInv
  BY DEF IInv, Parse, ParseThrows, Answer, StartReceive, ThreadReturns, Moves
<1> USE DEF Moves, counters
<1>2. CASE Parse(t)
  <2>1. packet[t] \in Packets
    BY <1>1, <1>2 DEF Parse, OrderInv
  <2>2. /\ parsed' \in Seq(Packets) /\ packet' \in [IoThreads -> 0..MaxPackets]
        /\ tpc' \in [IoThreads -> {"run", "parse", "answer", "receive", "returned"}]
    BY <1>1, <1>2, <2>1, MaxPacketsAssumption DEF Parse, TypeOK
  <2>3. QED
    BY <1>1, <1>2, <2>2 DEF Parse, TypeOK
<1>3. CASE ParseThrows(t)
  BY <1>1, <1>3 DEF ParseThrows, TypeOK
<1>4. CASE Answer(t)
  <2>1. OwesAnswer
    BY <1>4 DEF Answer, OwesAnswer
  <2>2. sending' \in 0..(MaxPackets + MaxSends)
    BY <1>1, <1>4, <2>1, MaxPacketsAssumption, MaxSendsAssumption
    DEF Answer, SendInv, TypeOK
  <2>3. QED
    BY <1>1, <1>4, <2>2 DEF Answer, TypeOK
<1>5. CASE StartReceive(t)
  <2>1. InHandler # {}
    BY <1>5 DEF StartReceive, InHandler
  <2>2. armed' \in 0..1
    BY <1>1, <1>5, <2>1 DEF StartReceive, LoopInv, TypeOK
  <2>3. stopped' \in BOOLEAN
    BY <1>1, <1>5, HandlerEndsType DEF StartReceive, TypeOK
  <2>4. QED
    BY <1>1, <1>5, <2>2, <2>3 DEF StartReceive, TypeOK
<1>6. CASE ThreadReturns(t)
  BY <1>1, <1>6 DEF ThreadReturns, TypeOK
<1>7. QED
  BY <1>2, <1>3, <1>4, <1>5, <1>6

LEMMA TypeStep ==
  ASSUME IInv, [Next]_vars
  PROVE  TypeOK'
<1>1. TypeOK
  BY DEF IInv
<1>2. CASE UNCHANGED vars
  BY <1>1, <1>2 DEF vars, TypeOK
<1>3. CASE WorkerSends
  <2>1. sending' \in 0..(MaxPackets + MaxSends) /\ sent' \in 0..MaxSends
    BY <1>1, <1>3, MaxPacketsAssumption, MaxSendsAssumption
    DEF IInv, SendInv, WorkerSends, TypeOK
  <2>2. QED
    BY <1>1, <1>3, <2>1 DEF WorkerSends, TypeOK
<1>4. CASE HubJoins \/ HubReturns \/ HubStop
  BY <1>1, <1>4 DEF HubJoins, HubReturns, HubStop, TypeOK, counters
<1>5. ASSUME NEW t \in IoThreads, ThreadStep(t)
      PROVE  TypeOK'
  BY <1>1, <1>5, HandlerTypes, InsideTypes DEF ThreadStep
<1>6. QED
  BY <1>1, <1>2, <1>3, <1>4, <1>5, EnvironmentTypes DEF Next
-----------------------------------------------------------------------------
(* Steps that leave the token where it is, although its handler may move   *)
(* up in the ready queue.                                                  *)
Inside == {"parse", "answer", "receive"}

TokenStays ==
  /\ UNCHANGED <<armed, aborted, received, parsed, packet>>
  /\ \A t \in IoThreads :
       tpc[t] \in Inside \/ tpc'[t] \in Inside => tpc'[t] = tpc[t]
  /\ \A i \in Receives' : \E j \in Receives : ready'[i] = ready[j]
  /\ AtMostOne(Receives) => AtMostOne(Receives')
  /\ Receives # {} => Receives' # {}
  /\ sending' + sent <= sending + sent'

LEMMA SameReady ==
  ASSUME UNCHANGED ready
  PROVE  /\ \A i \in Receives' : \E j \in Receives : ready'[i] = ready[j]
         /\ AtMostOne(Receives) => AtMostOne(Receives')
         /\ Receives # {} => Receives' # {}
BY DEF Receives

LEMMA OtherAppended ==
  ASSUME TypeOK, NEW more \in Seq(Handlers), NoPacket(more),
         ready' = ready \o more
  PROVE  /\ \A i \in Receives' : \E j \in Receives : ready'[i] = ready[j]
         /\ AtMostOne(Receives) => AtMostOne(Receives')
         /\ Receives # {} => Receives' # {}
<1>1. Receives' = Receives /\ \A i \in Receives : ready'[i] = ready[i]
  BY PacketsStay DEF TypeOK
<1>2. QED
  BY <1>1 DEF AtMostOne

LEMMA OtherTaken ==
  ASSUME TypeOK, NEW t \in IoThreads, NEW names, names \cap Kinds = {}, NEW to,
         NEW more \in Seq(Handlers), NoPacket(more), Takes(t, names, to, more)
  PROVE  /\ \A i \in Receives' : \E j \in Receives : ready'[i] = ready[j]
         /\ AtMostOne(Receives) => AtMostOne(Receives')
         /\ Receives # {} => Receives' # {}
<1>1. /\ \A i \in Receives' : i + 1 \in Receives /\ ready'[i] = ready[i + 1]
      /\ \A i \in Receives : i # 1 => i - 1 \in Receives'
      /\ \A i \in Receives : i \in Nat
      /\ ready[1].name \in names
  BY TakesEffect
<1>2. 1 \notin Receives
  BY <1>1 DEF Receives
<1>3. \A i \in Receives' : i \in Nat
  <2>1. ready' \in Seq(Handlers)
    BY TakesEffect
  <2>2. QED
    BY <2>1 DEF Receives
<1>4. ASSUME AtMostOne(Receives), NEW x \in Receives', NEW y \in Receives'
      PROVE  x = y
  <2>1. x + 1 = y + 1
    BY <1>1, <1>4 DEF AtMostOne
  <2>2. QED
    BY <1>3, <2>1
<1>5. QED
  BY <1>1, <1>2, <1>4 DEF AtMostOne

(* The handler of the token's own packet is taken: none is left.           *)
LEMMA PacketTaken ==
  ASSUME TypeOK, LoopInv, NEW t \in IoThreads, NEW names, names \subseteq Kinds,
         NEW to, Takes(t, names, to, <<>>)
  PROVE  /\ Receives' = {} /\ 1 \in Receives /\ ready[1] = Head(ready)
         /\ ready[1].name \in names /\ ready[1] \in Handlers
<1>1. /\ \A i \in Receives' : i + 1 \in Receives
      /\ 1 \in DOMAIN ready /\ ready[1] = Head(ready)
      /\ ready[1].name \in names /\ ready[1] \in Handlers
      /\ ready' \in Seq(Handlers)
  BY NoMore, TakesEffect
<1>2. 1 \in Receives
  BY <1>1 DEF Receives
<1>3. \A i \in Receives' : i \in Nat /\ i >= 1
  BY <1>1 DEF Receives
<1>4. \A i \in Receives' : i + 1 = 1
  BY <1>1, <1>2 DEF LoopInv, AtMostOne
<1>5. QED
  BY <1>1, <1>2, <1>3, <1>4

LEMMA TokenStaysKeeps ==
  ASSUME TypeOK, LoopInv, OrderInv, SendInv, TypeOK', TokenStays
  PROVE  LoopInv' /\ OrderInv' /\ SendInv'
<1>1. InHandler' = InHandler
  BY DEF TokenStays, InHandler, Inside
<1>2. Receives' # {} <=> Receives # {}
  BY DEF TokenStays
<1>3. LoopInv'
  BY <1>1, <1>2 DEF TokenStays, LoopInv
<1>4. OrderInv'
  <2>1. \A i \in Receives' : ready'[i].n = received /\ ParsedBefore(received)
    BY DEF TokenStays, OrderInv
  <2>2. \A t \in IoThreads : tpc'[t] = "parse" => tpc[t] = "parse"
    BY DEF TokenStays, Inside
  <2>3. QED
    BY <2>1, <2>2 DEF TokenStays, OrderInv, ParsedBefore
<1>5. SendInv'
  <2>1. OwesAnswer' => OwesAnswer
    BY DEF TokenStays, OwesAnswer, Inside
  <2>2. sending \in Int /\ sent \in Int /\ received \in Int
    BY MaxPacketsAssumption, MaxSendsAssumption DEF TypeOK
  <2>3. sending' \in Int /\ sent' \in Int
    BY MaxPacketsAssumption, MaxSendsAssumption DEF TypeOK
  <2>4. received' = received /\ sending' + sent <= sending + sent'
    BY DEF TokenStays
  <2>5. /\ sending <= sent + received => sending' <= sent' + received'
        /\ sending < sent + received => sending' < sent' + received'
    <3>1. \A a, b, c, d, r \in Int :
            b + c <= a + d => /\ a <= c + r => b <= d + r
                              /\ a < c + r => b < d + r
      OBVIOUS
    <3>2. QED
      BY <2>2, <2>3, <2>4, <3>1
  <2>6. QED
    BY <2>1, <2>5, Zenon DEF SendInv
<1>6. QED
  BY <1>3, <1>4, <1>5

LEMMA QuietTokens ==
  ASSUME TypeOK, TypeOK', LoopInv,
         \/ SendCompletes \/ SignalArrives \/ WorkerSends
         \/ HubJoins \/ HubReturns \/ HubStop \/ UNCHANGED vars
  PROVE  TokenStays
<1>1. /\ sending \in Int /\ sent \in Int
  BY MaxPacketsAssumption, MaxSendsAssumption DEF TypeOK
<1>2. CASE SendCompletes
  <2>1. Handler("sent").name \notin Kinds /\ Handler("sent") \in Handlers
    BY DEF Handler, Kinds, Handlers
  <2>2. /\ <<Handler("sent")>> \in Seq(Handlers) /\ NoPacket(<<Handler("sent")>>)
        /\ ready' = ready \o <<Handler("sent")>>
    BY <1>2, <2>1 DEF SendCompletes, NoPacket, TypeOK
  <2>3. /\ UNCHANGED <<armed, aborted, received, parsed, packet, tpc, sent>>
        /\ sending' + sent <= sending + sent'
    BY <1>1, <1>2 DEF SendCompletes, counters
  <2>4. /\ \A i \in Receives' : \E j \in Receives : ready'[i] = ready[j]
        /\ AtMostOne(Receives) => AtMostOne(Receives')
        /\ Receives # {} => Receives' # {}
    BY <2>2, OtherAppended
  <2>5. QED
    BY <2>3, <2>4 DEF TokenStays
<1>3. CASE SignalArrives
  <2>1. PICK order \in [1..Cardinality(sigArmed) -> sigArmed] :
          ready' = ready \o [i \in DOMAIN order |-> Handler(order[i])]
    BY <1>3 DEF SignalArrives
  <2> DEFINE more == [i \in DOMAIN order |-> Handler(order[i])]
  <2>2. more \in Seq(Handlers) /\ NoPacket(more) /\ ready' = ready \o more
    BY <2>1, SignalHandlers
  <2>3. /\ UNCHANGED <<armed, aborted, received, parsed, packet, tpc>>
        /\ sending' + sent <= sending + sent'
    BY <1>1, <1>3 DEF SignalArrives, counters
  <2> HIDE DEF more
  <2>4. /\ \A i \in Receives' : \E j \in Receives : ready'[i] = ready[j]
        /\ AtMostOne(Receives) => AtMostOne(Receives')
        /\ Receives # {} => Receives' # {}
    BY <2>2, OtherAppended
  <2>5. QED
    BY <2>3, <2>4 DEF TokenStays
<1>4. CASE WorkerSends
  <2>1. UNCHANGED <<armed, aborted, received, parsed, packet, tpc, ready>>
    BY <1>4 DEF WorkerSends
  <2>2. sending' + sent <= sending + sent'
    BY <1>1, <1>4 DEF WorkerSends
  <2>3. QED
    BY <2>1, <2>2, SameReady DEF TokenStays
<1>5. CASE HubJoins \/ HubReturns \/ HubStop \/ UNCHANGED vars
  <2>1. UNCHANGED <<armed, aborted, received, parsed, packet, tpc, ready, sent, sending>>
    BY <1>5 DEF HubJoins, HubReturns, HubStop, vars, counters
  <2>2. QED
    BY <1>1, <2>1, SameReady DEF TokenStays
<1>6. QED
  BY <1>2, <1>3, <1>4, <1>5

(* Handlers that are not the receive handler's, or its aborted end.        *)
LEMMA OtherHandlers ==
  ASSUME TypeOK, NEW t \in IoThreads,
         \/ HandleOscSignal(t) \/ HandleWsSignal(t) \/ HandleSent(t)
         \/ RecvAborted(t) \/ ThreadReturns(t)
         \/ HandleCancel(t) /\ armed = 0
  PROVE  TokenStays
<1>1. /\ sending \in Int /\ sending >= 0 /\ sent \in Int
      /\ tpc \in [IoThreads -> Inside \cup {"run", "returned"}]
  BY MaxPacketsAssumption, MaxSendsAssumption DEF TypeOK, Inside
<1>2. ASSUME NEW names, names \cap Kinds = {},
             NEW more \in Seq(Handlers), NoPacket(more),
             Takes(t, names, "run", more),
             UNCHANGED <<armed, aborted, packet>>,
             sending' = sending \/ sending' = 0
      PROVE  TokenStays
  <2>1. /\ \A i \in Receives' : \E j \in Receives : ready'[i] = ready[j]
        /\ AtMostOne(Receives) => AtMostOne(Receives')
        /\ Receives # {} => Receives' # {}
    BY <1>2, OtherTaken
  <2>2. /\ tpc[t] = "run" /\ tpc' = [tpc EXCEPT ![t] = "run"]
        /\ UNCHANGED <<received, sent, parsed>>
    BY <1>2, TakesEffect DEF counters
  <2>3. \A u \in IoThreads : tpc'[u] = tpc[u]
    BY <1>1, <2>2
  <2>4. sending' + sent <= sending + sent'
    BY <1>1, <1>2, <2>2
  <2>5. QED
    BY <1>2, <2>1, <2>2, <2>3, <2>4 DEF TokenStays
<1>3. /\ {"oscSignal"} \cap Kinds = {} /\ {"wsSignal"} \cap Kinds = {}
      /\ {"sent", "wsCancel"} \cap Kinds = {} /\ {"aborted"} \cap Kinds = {}
      /\ {"cancel"} \cap Kinds = {}
  BY DEF Kinds
<1>4. CASE HandleOscSignal(t)
  BY <1>2, <1>3, <1>4, NoMore DEF HandleOscSignal
<1>5. CASE HandleWsSignal(t)
  BY <1>2, <1>3, <1>5, NoMore DEF HandleWsSignal
<1>6. CASE HandleSent(t)
  BY <1>2, <1>3, <1>6, NoMore DEF HandleSent
<1>7. CASE RecvAborted(t)
  BY <1>2, <1>3, <1>7, NoMore DEF RecvAborted
<1>8. CASE HandleCancel(t) /\ armed = 0
  <2> DEFINE more == [i \in 1..armed |-> Aborted]
                       \o [i \in 1..sending |-> Handler("sent")]
  <2>1. Takes(t, {"cancel"}, "run", more) /\ more \in Seq(Handlers) /\ NoPacket(more)
    BY <1>8, CanceledHandlers DEF HandleCancel
  <2> HIDE DEF more
  <2>2. UNCHANGED <<armed, packet>> /\ sending' = 0
    BY <1>8 DEF HandleCancel
  <2>3. aborted' = aborted
    BY <1>8 DEF HandleCancel, TypeOK
  <2>4. QED
    BY <1>2, <1>3, <2>1, <2>2, <2>3
<1>9. CASE ThreadReturns(t)
  <2>1. /\ UNCHANGED <<armed, aborted, received, parsed, packet, ready, sent, sending>>
        /\ tpc[t] = "run" /\ tpc' = [tpc EXCEPT ![t] = "returned"]
    BY <1>9 DEF ThreadReturns, Moves, counters
  <2>2. \A u \in IoThreads :
          tpc[u] \in Inside \/ tpc'[u] \in Inside => tpc'[u] = tpc[u]
    BY <1>1, <2>1 DEF Inside
  <2>3. QED
    BY <1>1, <2>1, <2>2, SameReady DEF TokenStays
<1>10. QED
  BY <1>4, <1>5, <1>6, <1>7, <1>8, <1>9
-----------------------------------------------------------------------------
(* Steps that move the token.                                              *)

(* A packet that arrives turns the pending receive into a handler.         *)
LEMMA ArrivalKeeps ==
  ASSUME TypeOK, LoopInv, OrderInv, SendInv,
         NEW kind \in Kinds, PacketArrives(kind)
  PROVE  LoopInv' /\ OrderInv' /\ SendInv'
<1>1. /\ armed = 1 /\ armed' = 0 /\ received' = received + 1
      /\ received \in Int /\ sent \in Int /\ sending \in Int
  BY MaxPacketsAssumption, MaxSendsAssumption DEF PacketArrives, TypeOK
<1>2. /\ ready \in Seq(Handlers) /\ ready' = Append(ready, Recv(kind, received'))
      /\ UNCHANGED <<sending, tpc, sent, parsed, packet>>
  BY DEF PacketArrives, TypeOK
<1>3. UNCHANGED aborted
  BY DEF PacketArrives
<1>4. Receives = {} /\ InHandler = {} /\ ~aborted
  BY <1>1 DEF LoopInv
<1> DEFINE last == Len(ready) + 1
<1>5. Receives' = {last} /\ ready'[last].n = received'
  <2>1. /\ DOMAIN ready' = 1..last /\ DOMAIN ready = 1..Len(ready)
        /\ Len(ready) \in Nat
        /\ ready'[last] = Recv(kind, received')
        /\ \A i \in 1..Len(ready) : ready'[i] = ready[i]
    BY <1>2
  <2>2. ready'[last].name \in Kinds /\ ready'[last].n = received'
    BY <2>1 DEF Recv
  <2>3. \A i \in 1..last : i = last \/ i \in 1..Len(ready)
    BY <2>1
  <2>4. \A i \in 1..Len(ready) : ready[i].name \notin Kinds
    BY <1>4, <2>1 DEF Receives
  <2>5. last \in 1..last
    BY <2>1
  <2> HIDE DEF last
  <2>6. QED
    BY <2>1, <2>2, <2>3, <2>4, <2>5 DEF Receives
<1> HIDE DEF last
<1>6. InHandler' = {}
  BY <1>2, <1>4 DEF InHandler
<1>7. LoopInv'
  <2>1. AtMostOne(Receives)' /\ AtMostOne(InHandler)'
    BY <1>5, <1>6 DEF AtMostOne
  <2>2. ~aborted' /\ armed' # 1 /\ Receives' # {}
    BY <1>1, <1>3, <1>4, <1>5
  <2>3. QED
    BY <1>6, <2>1, <2>2 DEF LoopInv
<1>8. OrderInv'
  <2>1. \A k \in DOMAIN parsed : parsed[k] <= received /\ parsed[k] \in Int
    <3>1. \A k \in DOMAIN parsed : parsed[k] \in Packets
      BY DEF TypeOK
    <3>2. QED
      BY <3>1, MaxPacketsAssumption DEF OrderInv, Packets
  <2>2. \A k \in DOMAIN parsed : parsed[k] < received' /\ parsed[k] <= received'
    BY <1>1, <2>1
  <2>3. \A t \in IoThreads : tpc'[t] # "parse"
    BY <1>2, <1>4 DEF InHandler
  <2>4. QED
    BY <1>2, <1>5, <2>2, <2>3 DEF OrderInv, ParsedBefore
<1>9. SendInv'
  BY <1>1, <1>2 DEF SendInv
<1>10. QED
  BY <1>7, <1>8, <1>9

(* cancel() takes the token away.                                          *)
LEMMA CancelKeeps ==
  ASSUME TypeOK, LoopInv, OrderInv, SendInv,
         NEW t \in IoThreads, HandleCancel(t), armed = 1
  PROVE  LoopInv' /\ OrderInv' /\ SendInv'
<1> DEFINE more == [i \in 1..armed |-> Aborted]
                     \o [i \in 1..sending |-> Handler("sent")]
<1>1. Takes(t, {"cancel"}, "run", more) /\ more \in Seq(Handlers) /\ NoPacket(more)
  BY CanceledHandlers DEF HandleCancel
<1> HIDE DEF more
<1>2. Receives = {} /\ InHandler = {}
  BY DEF LoopInv
<1>3. armed' = 0 /\ sending' = 0 /\ aborted' /\ UNCHANGED packet
  <2>1. armed' = 0 /\ sending' = 0 /\ UNCHANGED packet
    BY DEF HandleCancel
  <2>2. aborted' = (aborted \/ armed > 0) /\ armed > 0
    BY DEF HandleCancel
  <2>3. aborted'
    BY <2>2
  <2>4. QED
    BY <2>1, <2>3
<1>4. /\ \A i \in Receives' : \E j \in Receives : ready'[i] = ready[j]
      /\ tpc' = [tpc EXCEPT ![t] = "run"]
      /\ UNCHANGED <<received, sent, parsed>>
  <2>1. {"cancel"} \cap Kinds = {}
    BY DEF Kinds
  <2>2. QED
    BY <1>1, <2>1, OtherTaken, TakesEffect DEF counters
<1>5. Receives' = {} /\ InHandler' = {}
  <2>1. Receives' = {}
    BY <1>2, <1>4
  <2>2. \A u \in IoThreads : tpc'[u] = tpc[u] \/ tpc'[u] = "run"
    BY <1>4 DEF TypeOK
  <2>3. QED
    BY <1>2, <2>1, <2>2 DEF InHandler
<1>6. LoopInv'
  BY <1>3, <1>5 DEF LoopInv, AtMostOne
<1>7. OrderInv'
  <2>1. \A u \in IoThreads : tpc'[u] # "parse"
    BY <1>5 DEF InHandler
  <2>2. QED
    BY <1>4, <1>5, <2>1 DEF OrderInv
<1>8. SendInv'
  <2>1. ~OwesAnswer'
    BY <1>5 DEF OwesAnswer, InHandler
  <2>2. sending' <= sent' + received'
    BY <1>3, <1>4, MaxPacketsAssumption, MaxSendsAssumption DEF TypeOK
  <2>3. QED
    BY <2>1, <2>2 DEF SendInv
<1>9. QED
  BY <1>6, <1>7, <1>8

(* An io thread enters the receive handler with the token ...              *)
LEMMA EntryKeeps ==
  ASSUME TypeOK, LoopInv, OrderInv, SendInv,
         NEW t \in IoThreads, RecvSkips(t) \/ RecvPacket(t)
  PROVE  LoopInv' /\ OrderInv' /\ SendInv'
<1>1. PICK names \in SUBSET Kinds, to \in {"parse", "receive"} :
        /\ Takes(t, names, to, <<>>)
        /\ to = "parse" => names = {"osc"} /\ packet' = [packet EXCEPT ![t] = Head(ready).n]
        /\ to = "receive" => packet' = packet
  <2>1. CASE RecvSkips(t)
    BY <2>1 DEF RecvSkips, Kinds
  <2>2. CASE RecvPacket(t)
    BY <2>2 DEF RecvPacket, Kinds
  <2>3. QED
    BY <2>1, <2>2
<1>2. UNCHANGED <<armed, sending, received, sent, parsed>>
  BY <1>1 DEF RecvSkips, RecvPacket, Takes, counters
<1>3. UNCHANGED aborted
  BY DEF RecvSkips, RecvPacket
<1>4. /\ Receives' = {} /\ 1 \in Receives /\ ready[1] = Head(ready)
      /\ ready[1].name \in names /\ ready[1] \in Handlers
  BY <1>1, PacketTaken
<1>5. InHandler = {} /\ ~aborted /\ armed = 0
  BY <1>4 DEF LoopInv, TypeOK
<1>6. tpc' = [tpc EXCEPT ![t] = to] /\ tpc \in [IoThreads -> Inside \cup {"run", "returned"}]
  BY <1>1 DEF Takes, TypeOK, Inside
<1>7. InHandler' = {t} /\ tpc'[t] = to /\ \A u \in IoThreads : u # t => tpc'[u] \notin Inside
  <2>1. \A u \in IoThreads : u # t => tpc'[u] \notin Inside
    BY <1>5, <1>6 DEF InHandler, Inside
  <2>2. QED
    BY <1>6, <2>1 DEF InHandler, Inside
<1>8. LoopInv'
  <2>1. AtMostOne(Receives)' /\ AtMostOne(InHandler)'
    BY <1>4, <1>7 DEF AtMostOne
  <2>2. ~aborted' /\ armed' # 1 /\ InHandler' # {}
    BY <1>2, <1>3, <1>5, <1>7
  <2>3. QED
    BY <1>4, <2>1, <2>2 DEF LoopInv
<1>9. OrderInv'
  <2>1. ready[1].n = received /\ ParsedBefore(received)
    BY <1>4 DEF OrderInv
  <2>2. to = "parse" => packet'[t] = received /\ received \in Packets
    <3>1. to = "parse" => ready[1].n \in Packets
      BY <1>1, <1>4 DEF Handlers, Handler, Recv
    <3>2. QED
      BY <1>1, <1>4, <2>1, <3>1 DEF TypeOK
  <2>3. \A u \in IoThreads : tpc'[u] = "parse" => u = t /\ to = "parse"
    BY <1>7 DEF Inside
  <2>4. QED
    BY <1>2, <1>4, <2>1, <2>2, <2>3 DEF OrderInv, ParsedBefore
<1>10. SendInv'
  <2>1. OwesAnswer' => OwesAnswer
    <3>1. OwesAnswer' => to = "parse"
      BY <1>4, <1>7 DEF OwesAnswer, Inside
    <3>2. QED
      BY <1>1, <1>4, <3>1 DEF OwesAnswer
  <2>2. QED
    BY <1>2, <2>1 DEF SendInv
<1>11. QED
  BY <1>8, <1>9, <1>10

(* ... parses the packet, answers ...                                      *)
LEMMA InsideKeeps ==
  ASSUME TypeOK, LoopInv, OrderInv, SendInv,
         NEW t \in IoThreads, Parse(t) \/ Answer(t)
  PROVE  LoopInv' /\ OrderInv' /\ SendInv'
<1>1. /\ tpc[t] \in {"parse", "answer"} /\ tpc'[t] \in {"answer", "receive"}
      /\ \A u \in IoThreads : u # t => tpc'[u] = tpc[u]
      /\ tpc[t] = "parse" <=> tpc'[t] = "answer"
  BY DEF Parse, Answer, Moves, TypeOK
<1>2. UNCHANGED <<armed, ready, received, sent>>
  BY DEF Parse, Answer, Moves, counters
<1>3. UNCHANGED aborted
  BY DEF Parse, Answer, Moves
<1>4. /\ InHandler = {t} /\ Receives = {} /\ ~aborted /\ armed # 1
  <2>1. t \in InHandler
    BY <1>1 DEF InHandler
  <2>2. QED
    BY <2>1 DEF LoopInv, AtMostOne
<1>5. /\ InHandler' = {t} /\ Receives' = {}
      /\ \A u \in IoThreads : u # t => tpc'[u] \notin Inside
  <2>1. Receives' = {}
    BY <1>2, <1>4 DEF Receives
  <2>2. \A u \in IoThreads : u # t => tpc[u] \notin Inside
    BY <1>4 DEF InHandler, Inside
  <2>3. InHandler' = {t}
    BY <1>1, <2>2 DEF InHandler, Inside
  <2>4. QED
    BY <1>1, <2>1, <2>2, <2>3
<1>6. LoopInv'
  <2>1. AtMostOne(Receives)' /\ AtMostOne(InHandler)'
    BY <1>5 DEF AtMostOne
  <2>2. ~aborted' /\ armed' # 1 /\ InHandler' # {}
    BY <1>2, <1>3, <1>4, <1>5
  <2>3. QED
    BY <1>5, <2>1, <2>2 DEF LoopInv
<1>7. OrderInv'
  <2>1. \A u \in IoThreads : tpc'[u] # "parse"
    BY <1>1, <1>5 DEF Inside
  <2>2. /\ \A i, j \in DOMAIN parsed' : i < j => parsed'[i] < parsed'[j]
        /\ \A k \in DOMAIN parsed' : parsed'[k] <= received
    <3>1. CASE Answer(t)
      BY <3>1 DEF Answer, OrderInv
    <3>2. CASE Parse(t)
      <4>1. /\ parsed' = Append(parsed, received) /\ parsed \in Seq(Packets)
            /\ received \in Packets /\ ParsedBefore(received)
        BY <3>2 DEF Parse, Moves, OrderInv, TypeOK
      <4>2. /\ Len(parsed) \in Nat /\ DOMAIN parsed = 1..Len(parsed)
            /\ DOMAIN parsed' = 1..(Len(parsed) + 1)
            /\ parsed'[Len(parsed) + 1] = received
            /\ \A i \in 1..Len(parsed) : parsed'[i] = parsed[i] /\ parsed[i] \in Packets
        BY <4>1
      <4>3. \A i \in DOMAIN parsed' : i \in DOMAIN parsed \/ i = Len(parsed) + 1
        BY <4>2
      <4>4. received \in Int /\ \A i \in 1..Len(parsed) : parsed[i] \in Int
        BY <4>1, <4>2 DEF Packets
      <4>5. QED
        BY <4>1, <4>2, <4>3, <4>4 DEF OrderInv, ParsedBefore
    <3>3. QED
      BY <3>1, <3>2
  <2>3. QED
    BY <1>2, <1>5, <2>1, <2>2 DEF OrderInv
<1>8. SendInv'
  <2>1. OwesAnswer
    BY <1>1 DEF OwesAnswer
  <2>2. /\ sending < sent + received
        /\ sending \in Int /\ sent \in Int /\ received \in Int
    BY <2>1, MaxPacketsAssumption, MaxSendsAssumption DEF SendInv, TypeOK
  <2>3. CASE Parse(t)
    BY <1>2, <2>2, <2>3 DEF SendInv, Parse
  <2>4. CASE Answer(t)
    <3>1. ~OwesAnswer'
      <4>1. tpc'[t] = "receive"
        BY <2>4 DEF Answer, Moves, TypeOK
      <4>2. QED
        BY <1>5, <4>1 DEF OwesAnswer, Inside
    <3>2. QED
      BY <1>2, <2>2, <2>4, <3>1 DEF SendInv, Answer
  <2>5. QED
    BY <2>3, <2>4
<1>9. QED
  BY <1>6, <1>7, <1>8

(* ... and leaves it as the next pending receive.                          *)
LEMMA NextReceiveKeeps ==
  ASSUME TypeOK, LoopInv, OrderInv, SendInv,
         NEW t \in IoThreads, StartReceive(t)
  PROVE  LoopInv' /\ OrderInv' /\ SendInv'
<1>1. /\ tpc[t] = "receive" /\ tpc'[t] = "run"
      /\ \A u \in IoThreads : u # t => tpc'[u] = tpc[u]
  BY DEF StartReceive, Moves, TypeOK
<1>2. UNCHANGED <<sending, ready, received, sent, parsed>> /\ armed' = armed + 1
  BY DEF StartReceive, Moves, counters
<1>3. UNCHANGED aborted
  BY DEF StartReceive, Moves
<1>4. InHandler = {t} /\ Receives = {} /\ ~aborted /\ armed = 0
  <2>1. t \in InHandler
    BY <1>1 DEF InHandler
  <2>2. armed \in 0..1
    BY DEF TypeOK
  <2>3. QED
    BY <2>1, <2>2 DEF LoopInv, AtMostOne
<1>5. InHandler' = {} /\ Receives' = {} /\ ~aborted' /\ armed' = 1
  <2>1. Receives' = {}
    BY <1>2, <1>4 DEF Receives
  <2>2. InHandler' = {}
    BY <1>1, <1>4 DEF InHandler
  <2>3. QED
    BY <1>2, <1>3, <1>4, <2>1, <2>2
<1>6. LoopInv'
  BY <1>5 DEF LoopInv, AtMostOne
<1>7. OrderInv'
  <2>1. \A u \in IoThreads : tpc'[u] # "parse"
    BY <1>5 DEF InHandler
  <2>2. QED
    BY <1>2, <1>5, <2>1 DEF OrderInv
<1>8. SendInv'
  <2>1. ~OwesAnswer'
    BY <1>5 DEF OwesAnswer, InHandler
  <2>2. QED
    BY <1>2, <2>1 DEF SendInv
<1>9. QED
  BY <1>6, <1>7, <1>8
-----------------------------------------------------------------------------

LEMMA InvParsedInOrder == TypeOK /\ LoopInv /\ OrderInv => ParsedInOrder
<1> SUFFICES ASSUME TypeOK, LoopInv, OrderInv PROVE ParsedInOrder
  OBVIOUS
<1>1. \A t, u \in IoThreads : tpc[t] = "parse" /\ tpc[u] = "parse" => t = u
  BY DEF LoopInv, AtMostOne, InHandler
<1>2. DOMAIN parsed = 1..Len(parsed)
  BY DEF TypeOK
<1>3. QED
  BY <1>1, <1>2 DEF OrderInv, ParsedInOrder

LEMMA InitIInv == Init => IInv
<1> SUFFICES ASSUME Init PROVE IInv
  OBVIOUS
<1>1. TypeOK
  <2>1. /\ armed \in 0..1 /\ sending \in 0..(MaxPackets + MaxSends)
        /\ received \in 0..MaxPackets /\ sent \in 0..MaxSends
        /\ packet \in [IoThreads -> 0..MaxPackets]
    BY MaxPacketsAssumption, MaxSendsAssumption DEF Init
  <2>2. /\ sigArmed \subseteq {"oscSignal", "wsSignal"}
        /\ ready \in Seq(Handlers) /\ parsed \in Seq(Packets)
        /\ tpc \in [IoThreads -> {"run", "parse", "answer", "receive", "returned"}]
        /\ hubPc \in {"running", "stopping", "returned"}
    BY DEF Init
  <2>3. /\ stopped \in BOOLEAN /\ terminated \in BOOLEAN
        /\ canceled \in BOOLEAN /\ aborted \in BOOLEAN
    BY DEF Init
  <2>4. QED
    BY <2>1, <2>2, <2>3 DEF TypeOK
<1>2. /\ Receives = {} /\ InHandler = {} /\ armed = 1 /\ ~aborted
      /\ \A t \in IoThreads : tpc[t] = "run"
  BY DEF Init, Receives, InHandler
<1>3. LoopInv
  BY <1>2 DEF LoopInv, AtMostOne
<1>4. OrderInv /\ SendInv
  BY <1>2 DEF Init, OrderInv, SendInv, OwesAnswer
<1>5. QED
  BY <1>1, <1>3, <1>4, InvParsedInOrder DEF IInv

LEMMA ThreadKeeps ==
  ASSUME TypeOK, LoopInv, OrderInv, SendInv, TypeOK', ~terminated',
         NEW t \in IoThreads, ThreadStep(t)
  PROVE  LoopInv' /\ OrderInv' /\ SendInv'
<1>1. CASE \/ HandleOscSignal(t) \/ HandleWsSignal(t) \/ HandleSent(t)
           \/ RecvAborted(t) \/ ThreadReturns(t)
           \/ HandleCancel(t) /\ armed = 0
  BY <1>1, OtherHandlers, TokenStaysKeeps
<1>2. CASE HandleCancel(t) /\ armed # 0
  <2>1. armed = 1
    BY <1>2 DEF TypeOK
  <2>2. QED
    BY <1>2, <2>1, CancelKeeps
<1>3. CASE RecvSkips(t) \/ RecvPacket(t)
  BY <1>3, EntryKeeps
<1>4. CASE Parse(t) \/ Answer(t)
  BY <1>4, InsideKeeps
<1>5. CASE StartReceive(t)
  BY <1>5, NextReceiveKeeps
<1>6. ~ParseThrows(t)
  BY DEF ParseThrows
<1>7. QED
  BY <1>1, <1>2, <1>3, <1>4, <1>5, <1>6 DEF ThreadStep

LEMMA RunningStep ==
  ASSUME IInv, [Next]_vars, ~terminated'
  PROVE  LoopInv' /\ OrderInv' /\ SendInv'
<1>1. TypeOK /\ TypeOK'
  BY TypeStep DEF IInv
<1>2. ~terminated
  <2>1. CASE UNCHANGED vars
    BY <2>1 DEF vars
  <2>2. CASE Next
    BY <2>2 DEF Next, PacketArrives, SendCompletes, SignalArrives, WorkerSends,
                HubJoins, HubReturns, HubStop, ThreadStep, HandleOscSignal,
                HandleWsSignal, HandleCancel, HandleSent, RecvAborted, RecvSkips,
                RecvPacket, Takes, Parse, ParseThrows, Answer, StartReceive,
                ThreadReturns, Moves
  <2>3. QED
    BY <2>1, <2>2
<1>3. LoopInv /\ OrderInv /\ SendInv
  BY <1>2 DEF IInv
<1>4. ASSUME NEW kind \in Kinds, PacketArrives(kind)
      PROVE  LoopInv' /\ OrderInv' /\ SendInv'
  BY <1>1, <1>3, <1>4, ArrivalKeeps
<1>5. ASSUME NEW t \in IoThreads, ThreadStep(t)
      PROVE  LoopInv' /\ OrderInv' /\ SendInv'
  BY <1>1, <1>3, <1>5, ThreadKeeps
<1>6. CASE \/ SendCompletes \/ SignalArrives \/ WorkerSends
           \/ HubJoins \/ HubReturns \/ HubStop \/ UNCHANGED vars
  BY <1>1, <1>3, <1>6, QuietTokens, TokenStaysKeeps
<1>7. QED
  BY <1>4, <1>5, <1>6 DEF Next

(* An exception leaves what was parsed as it was, in order.                *)
LEMMA TerminatedStep ==
  ASSUME IInv, [Next]_vars, terminated'
  PROVE  ParsedInOrder'
<1>1. /\ UNCHANGED parsed
      /\ \A t \in IoThreads : tpc'[t] = "parse" => tpc[t] = "parse"
  <2>1. CASE UNCHANGED vars
    BY <2>1 DEF vars
  <2>2. ASSUME NEW t \in IoThreads, ParseThrows(t)
        PROVE  /\ UNCHANGED parsed
               /\ \A u \in IoThreads : tpc'[u] = "parse" => tpc[u] = "parse"
    BY <2>2 DEF ParseThrows, Moves, IInv, TypeOK
  <2>3. CASE Next /\ ~\E t \in IoThreads : ParseThrows(t)
    <3>1. ~terminated /\ terminated' = terminated
      BY <2>3 DEF Next, PacketArrives, SendCompletes, SignalArrives, WorkerSends,
                  HubJoins, HubReturns, HubStop, ThreadStep, HandleOscSignal,
                  HandleWsSignal, HandleCancel, HandleSent, RecvAborted, RecvSkips,
                  RecvPacket, Takes, Parse, Answer, StartReceive, ThreadReturns,
                  Moves
    <3>2. QED
      BY <3>1
  <2>4. QED
    BY <2>1, <2>2, <2>3
<1>2. QED
  BY <1>1 DEF IInv, ParsedInOrder

LEMMA NextIInv == IInv /\ [Next]_vars => IInv'
<1> SUFFICES ASSUME IInv, [Next]_vars PROVE IInv'
  OBVIOUS
<1>1. TypeOK'
  BY TypeStep
<1>2. CASE terminated'
  BY <1>1, <1>2, TerminatedStep DEF IInv
<1>3. CASE ~terminated'
  <2>1. LoopInv' /\ OrderInv' /\ SendInv'
    BY <1>3, RunningStep
  <2>2. (TypeOK /\ LoopInv /\ OrderInv => ParsedInOrder)'
    BY InvParsedInOrder, PTL
  <2>3. QED
    BY <1>1, <2>1, <2>2 DEF IInv
<1>4. QED
  BY <1>2, <1>3

(* The inductive invariant of the server on its io threads.                *)
THEOREM Inductive == Spec => []IInv
BY InitIInv, NextIInv, PTL DEF Spec

(* Type correctness: in particular no handler or io thread ever holds a    *)
(* packet that did not arrive, and no more is being sent than there were   *)
(* packets to answer and messages of the worker (osc_server.cpp:57-111).   *)
THEOREM TypeCorrect == Spec => []TypeOK
<1>1. IInv => TypeOK
  BY DEF IInv
<1>2. QED
  BY <1>1, Inductive, PTL

(* However many io threads there are, and whatever is received, refused or *)
(* aborted, the receive loop is neither doubled nor lost                   *)
(* (osc_server.cpp:57-76).                                                 *)
THEOREM ReceiveLoopIsOne == Spec => []OneReceive
<1>1. ASSUME IInv
      PROVE  OneReceive
  <2>1. SUFFICES ASSUME ~terminated
                 PROVE  armed + Cardinality(Receives) + Cardinality(InHandler)
                          = IF aborted THEN 0 ELSE 1
    BY DEF OneReceive
  <2>2. LoopInv /\ armed \in 0..1
    BY <1>1, <2>1 DEF IInv, TypeOK
  <2>3. Cardinality(Receives) = IF Receives = {} THEN 0 ELSE 1
    <3>1. CASE Receives = {}
      BY <3>1, FS_EmptySet
    <3>2. CASE Receives # {}
      <4>1. PICK i : Receives = {i}
        BY <2>2, <3>2 DEF LoopInv, AtMostOne
      <4>2. QED
        BY <3>2, <4>1, FS_Singleton
    <3>3. QED
      BY <3>1, <3>2
  <2>4. Cardinality(InHandler) = IF InHandler = {} THEN 0 ELSE 1
    <3>1. CASE InHandler = {}
      BY <3>1, FS_EmptySet
    <3>2. CASE InHandler # {}
      <4>1. PICK t : InHandler = {t}
        BY <2>2, <3>2 DEF LoopInv, AtMostOne
      <4>2. QED
        BY <3>2, <4>1, FS_Singleton
    <3>3. QED
      BY <3>1, <3>2
  <2>5. CASE aborted
    BY <2>2, <2>3, <2>4, <2>5 DEF LoopInv
  <2>6. CASE ~aborted
    BY <2>2, <2>3, <2>4, <2>6 DEF LoopInv
  <2>7. QED
    BY <2>5, <2>6
<1>2. QED
  BY <1>1, Inductive, PTL

(* Packets are parsed one at a time and in the order they came, whichever  *)
(* io thread handles them: the parser that all of them share is used by    *)
(* one thread at a time (xypi_hub.h:33).                                   *)
THEOREM SharedParserIsSafe == Spec => []ParsedInOrder
<1>1. IInv => ParsedInOrder
  BY DEF IInv
<1>2. QED
  BY <1>1, Inductive, PTL
=============================================================================
