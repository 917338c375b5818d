----------------------------- MODULE OscServer -----------------------------
(***************************************************************************)
(* OSCServer (osc_server.cpp), the signal wait of WSServer (ws_server.cpp) *)
(* and the run() and stop() of XypiHub (xypi_hub.cpp) on the io_context    *)
(* they share.                                                             *)
(*                                                                         *)
(* The io_context is the code's environment: completed operations put a    *)
(* handler at the end of its ready queue, io threads take handlers from    *)
(* the head, and run() returns in every thread once the context is stopped *)
(* or has no outstanding work: no operation pending, no handler ready and  *)
(* none running.  A handler that lets an exception escape ends the         *)
(* process, because the exception leaves the io thread's function.         *)
(*                                                                         *)
(* A step of an io thread is one handler, except the receive handler, whose*)
(* parse, answer and next receive are steps of their own.                  *)
(***************************************************************************)
EXTENDS Integers, Sequences, FiniteSets

CONSTANTS
  IoThreads,   \* the threads that XypiHub::run() starts
  MaxPackets,  \* bound: packets received in a behaviour
  MaxSends     \* bound: messages the OSCWorker sends in a behaviour

ASSUME IoThreadsAssumption == IsFiniteSet(IoThreads) /\ IoThreads # {}
ASSUME MaxPacketsAssumption == MaxPackets \in Nat
ASSUME MaxSendsAssumption == MaxSends \in Nat

VARIABLES
  armed,       \* asynchronous receives pending on the socket
  sending,     \* asynchronous sends pending on the socket
  sigArmed,    \* servers whose signal wait is pending
  ready,       \* handlers in the io_context's ready queue, oldest first
  tpc,         \* per io thread: where it is
  packet,      \* per io thread: the packet its receive handler is at
  stopped,     \* the io_context is stopped
  hubPc,       \* the thread in XypiHub::run()
  terminated,  \* an exception has left an io thread
  received,    \* packets received so far; the n-th is packet n
  sent,        \* messages sent by the OSCWorker so far
  parsed,      \* history: packets given to parse(), oldest first
  canceled,    \* history: socket.cancel() has run
  aborted      \* history: a receive has completed with operation_aborted

counters == <<received, sent>>
vars == <<armed, sending, sigArmed, ready, tpc, packet, stopped, hubPc,
          terminated, received, sent, parsed, canceled, aborted>>

Packets == 1..MaxPackets
Kinds == {"osc", "own", "crap"}

Handler(name) == [name |-> name, n |-> 0]
Recv(kind, n) == [name |-> kind, n |-> n]
Aborted == Handler("aborted")
Handlers ==
  {Handler(name) : name \in {"aborted", "oscSignal", "wsSignal", "cancel",
                             "wsCancel", "sent"}}
    \cup {Recv(kind, n) : kind \in Kinds, n \in Packets}

TypeOK ==
  /\ armed \in 0..1
  /\ sending \in 0..(MaxPackets + MaxSends)
  /\ sigArmed \subseteq {"oscSignal", "wsSignal"}
  /\ ready \in Seq(Handlers)
  /\ tpc \in [IoThreads -> {"run", "parse", "answer", "receive", "returned"}]
  /\ packet \in [IoThreads -> 0..MaxPackets]
  /\ stopped \in BOOLEAN
  /\ hubPc \in {"running", "stopping", "returned"}
  /\ terminated \in BOOLEAN
  /\ received \in 0..MaxPackets
  /\ sent \in 0..MaxSends
  /\ parsed \in Seq(Packets)
  /\ canceled \in BOOLEAN
  /\ aborted \in BOOLEAN

(* oscServer->start(), oscWorker->run() and wsServer->start() are behind   *)
(* XypiHub::run(); the last waits for signals only if it could listen.     *)
Init ==
  /\ armed = 1
  /\ sending = 0
  /\ sigArmed \in {{"oscSignal"}, {"oscSignal", "wsSignal"}}
  /\ ready = <<>>
  /\ tpc = [t \in IoThreads |-> "run"]
  /\ packet = [t \in IoThreads |-> 0]
  /\ stopped = FALSE
  /\ hubPc = "running"
  /\ terminated = FALSE
  /\ received = 0 /\ sent = 0
  /\ parsed = <<>>
  /\ canceled = FALSE /\ aborted = FALSE

-----------------------------------------------------------------------------
(* The io_context.                                                         *)

InHandler == {t \in IoThreads : tpc[t] \in {"parse", "answer", "receive"}}

Work == armed + sending + Cardinality(sigArmed) + Len(ready)
          + Cardinality(InHandler)

(* A handler that leaves no outstanding work behind stops the context.     *)
HandlerEnds == stopped' = (stopped \/ Work' = 0)

(* The socket receives a packet.                                           *)
PacketArrives(kind) ==
  /\ ~terminated /\ hubPc # "returned"
  /\ armed > 0 /\ received < MaxPackets
  /\ received' = received + 1
  /\ armed' = armed - 1
  /\ ready' = Append(ready, Recv(kind, received'))
  /\ UNCHANGED <<sending, sigArmed, tpc, packet, stopped, hubPc, terminated,
                 sent, parsed, canceled, aborted>>

SendCompletes ==
  /\ ~terminated /\ hubPc # "returned"
  /\ sending > 0
  /\ sending' = sending - 1
  /\ ready' = Append(ready, Handler("sent"))
  /\ UNCHANGED <<armed, sigArmed, tpc, packet, stopped, hubPc, terminated,
                 counters, parsed, canceled, aborted>>

(* SIGINT or SIGTERM reaches every signal set that waits for it, in either *)
(* order; no set waits again, so that later signals do nothing.            *)
SignalArrives ==
  /\ ~terminated /\ hubPc # "returned"
  /\ sigArmed # {}
  /\ \E order \in [1..Cardinality(sigArmed) -> sigArmed] :
       /\ \A i, j \in DOMAIN order : order[i] = order[j] => i = j
       /\ ready' = ready \o [i \in DOMAIN order |-> Handler(order[i])]
  /\ sigArmed' = {}
  /\ UNCHANGED <<armed, sending, tpc, packet, stopped, hubPc, terminated,
                 counters, parsed, canceled, aborted>>

-----------------------------------------------------------------------------
(* An io thread in ioService.run().                                        *)

(* The thread takes the head of the ready queue, a handler named so, and   *)
(* the handler makes more ready.                                           *)
Takes(t, names, to, more) ==
  /\ ~terminated /\ ~stopped
  /\ tpc[t] = "run"
  /\ ready # <<>> /\ Head(ready).name \in names
  /\ tpc' = [tpc EXCEPT ![t] = to]
  /\ ready' = Tail(ready) \o more
  /\ UNCHANGED <<hubPc, terminated, counters, parsed>>

(* sigWaiter.async_wait's handler posts socket.cancel().                   *)
HandleOscSignal(t) ==
  /\ Takes(t, {"oscSignal"}, "run", <<Handler("cancel")>>)
  /\ UNCHANGED <<armed, sending, sigArmed, packet, canceled, aborted>>
  /\ HandlerEnds

HandleWsSignal(t) ==
  /\ Takes(t, {"wsSignal"}, "run", <<Handler("wsCancel")>>)
  /\ UNCHANGED <<armed, sending, sigArmed, packet, canceled, aborted>>
  /\ HandlerEnds

(* socket.cancel(): what is pending on the socket completes, aborted.      *)
HandleCancel(t) ==
  /\ Takes(t, {"cancel"}, "run",
           [i \in 1..armed |-> Aborted] \o [i \in 1..sending |-> Handler("sent")])
  /\ armed' = 0 /\ sending' = 0
  /\ canceled' = TRUE
  /\ aborted' = (aborted \/ armed > 0)
  /\ UNCHANGED <<sigArmed, packet>>
  /\ HandlerEnds

(* send_handler only logs; acceptor.cancel() finds no accept to cancel,    *)
(* because accept() starts none.                                           *)
HandleSent(t) ==
  /\ Takes(t, {"sent", "wsCancel"}, "run", <<>>)
  /\ UNCHANGED <<armed, sending, sigArmed, packet, canceled, aborted>>
  /\ HandlerEnds

\* Mutant of RecvAborted: the return is missing.
RecvAbortedGoesOn(t) ==
  /\ Takes(t, {"aborted"}, "receive", <<>>)
  /\ UNCHANGED <<armed, sending, sigArmed, packet, stopped, canceled, aborted>>

(* recv_handler: an abort ends the receive loop ...                        *)
RecvAborted(t) ==
  /\ Takes(t, {"aborted"}, "run", <<>>)
  /\ UNCHANGED <<armed, sending, sigArmed, packet, canceled, aborted>>
  /\ HandlerEnds

\* Mutant of RecvSkips: returns, as if every error were an abort.
RecvSkipReturns(t) ==
  /\ Takes(t, {"own", "crap"}, "run", <<>>)
  /\ UNCHANGED <<armed, sending, sigArmed, packet, canceled, aborted>>
  /\ HandlerEnds

(* ... a bounced, empty or failed one goes straight to the next receive ... *)
RecvSkips(t) ==
  /\ Takes(t, {"own", "crap"}, "receive", <<>>)
  /\ UNCHANGED <<armed, sending, sigArmed, packet, stopped, canceled, aborted>>

\* Mutant of RecvPacket: the next receive is started first.
RecvPacketAfterArming(t) ==
  /\ Takes(t, {"osc"}, "parse", <<>>)
  /\ packet' = [packet EXCEPT ![t] = Head(ready).n]
  /\ armed' = armed + 1
  /\ UNCHANGED <<sending, sigArmed, stopped, canceled, aborted>>

(* ... and any other packet is parsed and answered first.                  *)
RecvPacket(t) ==
  /\ Takes(t, {"osc"}, "parse", <<>>)
  /\ packet' = [packet EXCEPT ![t] = Head(ready).n]
  /\ UNCHANGED <<armed, sending, sigArmed, stopped, canceled, aborted>>

Moves(t, from, to) ==
  /\ ~terminated
  /\ tpc[t] = from
  /\ tpc' = [tpc EXCEPT ![t] = to]
  /\ UNCHANGED <<sigArmed, ready, hubPc, counters, canceled, aborted>>

(* handler->parse returns ...                                              *)
Parse(t) ==
  /\ Moves(t, "parse", "answer")
  /\ parsed' = Append(parsed, packet[t])
  /\ packet' = [packet EXCEPT ![t] = 0]
  /\ UNCHANGED <<armed, sending, stopped, terminated>>

(* ... or throws: nobody catches it before the thread's function ends.     *)
ParseThrows(t) ==
  /\ Moves(t, "parse", "returned")
  /\ terminated' = TRUE
  /\ UNCHANGED <<armed, sending, packet, stopped, parsed>>

Answer(t) ==
  /\ Moves(t, "answer", "receive")
  /\ sending' = sending + 1
  /\ UNCHANGED <<armed, packet, stopped, terminated, parsed>>

StartReceive(t) ==
  /\ Moves(t, "receive", "run")
  /\ armed' = armed + 1
  /\ UNCHANGED <<sending, packet, terminated, parsed>>
  /\ HandlerEnds

\* Mutant of ThreadReturns: the thread waits for the queue to empty.
ThreadReturnsWhenEmpty(t) ==
  /\ stopped /\ ready = <<>>
  /\ Moves(t, "run", "returned")
  /\ UNCHANGED <<armed, sending, packet, stopped, terminated, parsed>>

ThreadReturns(t) ==
  /\ stopped
  /\ Moves(t, "run", "returned")
  /\ UNCHANGED <<armed, sending, packet, stopped, terminated, parsed>>

ThreadStep(t) ==
  \/ HandleOscSignal(t)
  \/ HandleWsSignal(t)
  \/ HandleCancel(t)
  \/ HandleSent(t)
  \/ RecvAborted(t)
  \/ RecvSkips(t)
  \/ RecvPacket(t)
  \/ Parse(t)
  \/ ParseThrows(t)
  \/ Answer(t)
  \/ StartReceive(t)
  \/ ThreadReturns(t)

-----------------------------------------------------------------------------
(* The OSCWorker's thread, and the threads in XypiHub::run() and stop().   *)

(* OSCServer::send_message.  run() does not always wait for the worker's   *)
(* thread (its stop() does nothing when another one has come first), so    *)
(* that the thread may still send when run() has returned.                 *)
WorkerSends ==
  /\ ~terminated
  /\ sent < MaxSends
  /\ sent' = sent + 1
  /\ sending' = sending + 1
  /\ UNCHANGED <<armed, sigArmed, ready, tpc, packet, stopped, hubPc,
                 terminated, received, parsed, canceled, aborted>>

(* Every io thread is joined ...                                           *)
HubJoins ==
  /\ ~terminated
  /\ hubPc = "running" /\ \A t \in IoThreads : tpc[t] = "returned"
  /\ hubPc' = "stopping"
  /\ UNCHANGED <<armed, sending, sigArmed, ready, tpc, packet, stopped,
                 terminated, counters, parsed, canceled, aborted>>

(* ... and then the worker is stopped.                                     *)
HubReturns ==
  /\ ~terminated
  /\ hubPc = "stopping"
  /\ hubPc' = "returned"
  /\ UNCHANGED <<armed, sending, sigArmed, ready, tpc, packet, stopped,
                 terminated, counters, parsed, canceled, aborted>>

(* ioService.stop() in XypiHub::stop(), called by another thread.  Its own *)
(* oscWorker->stop() is one more caller of QueueWorker.                    *)
HubStop ==
  /\ ~terminated /\ hubPc # "returned"
  /\ stopped' = TRUE
  /\ UNCHANGED <<armed, sending, sigArmed, ready, tpc, packet, hubPc,
                 terminated, counters, parsed, canceled, aborted>>

-----------------------------------------------------------------------------

Next ==
  \/ \E kind \in Kinds : PacketArrives(kind)
  \/ SendCompletes
  \/ SignalArrives
  \/ \E t \in IoThreads : ThreadStep(t)
  \/ WorkerSends
  \/ HubJoins
  \/ HubReturns
  \/ HubStop

Spec == Init /\ [][Next]_vars

(* Threads keep being scheduled and a send on a datagram socket completes. *)
(* Nothing obliges packets or signals to arrive, the worker to send or     *)
(* anybody to call XypiHub::stop().                                        *)
FairSpec ==
  /\ Spec
  /\ \A t \in IoThreads : WF_vars(ThreadStep(t))
  /\ WF_vars(SendCompletes)
  /\ WF_vars(HubJoins \/ HubReturns)

-----------------------------------------------------------------------------
Receives == {i \in DOMAIN ready : ready[i].name \in Kinds}

(* The receive loop is neither doubled nor lost: whatever was received,    *)
(* refused or failed, on whichever io thread, there is exactly one receive *)
(* pending, waiting to be handled or being handled, until one is aborted   *)
(* (osc_server.cpp:57-76).                                                 *)
OneReceive ==
  ~terminated =>
    armed + Cardinality(Receives) + Cardinality(InHandler)
      = IF aborted THEN 0 ELSE 1

(* "we should be able to get away with sharing the one" (xypi_hub.h:33):   *)
(* packets are parsed one at a time and in the order they came, although   *)
(* any io thread may handle them.                                          *)
ParsedInOrder ==
  /\ \A t, u \in IoThreads : tpc[t] = "parse" /\ tpc[u] = "parse" => t = u
  /\ \A i, j \in 1..Len(parsed) : i < j => parsed[i] < parsed[j]

(* Once the pending receive has been aborted, run() returns: neither what  *)
(* is still being sent nor the other server's wait keeps the io threads    *)
(* (xypi_hub.cpp:68-70).                                                   *)
AbortReturns == aborted ~> hubPc = "returned" \/ terminated

(* Once the context is stopped, run() returns, whatever is pending or      *)
(* ready (xypi_hub.cpp:82).                                                *)
StopReturns == stopped ~> hubPc = "returned" \/ terminated

(* "sets up the server [...] does not return unless we've been             *)
(* specifically cancelled" (xypi_hub.cpp:47-48): a cancellation makes      *)
(* run() return.                                                           *)
CancelReturns == canceled ~> hubPc = "returned" \/ terminated
=============================================================================
