-------------------------- MODULE WsSessionProofs --------------------------
(***************************************************************************)
(* Theorems about WsSession for every set of connections and every number  *)
(* of requests, whether or not an accept is ever started.                  *)
(*                                                                         *)
(* Neither buffer's type is inductive by itself.  i_buffer never holds     *)
(* more than was sent, and o_buffer is empty when a request is read: both  *)
(* are in SessionInv, which says besides what the accumulating i_buffer    *)
(* leaves of the replies.                                                  *)
(***************************************************************************)
EXTENDS WsSession, TLAPS

(* A session has read no more than was sent, has answered nothing before   *)
(* it has read, and owes an answer exactly while it writes one.            *)
SessionInv ==
  \A s \in Sessions :
    /\ Len(i_buffer[s]) <= Len(wire[s])
    /\ i_buffer[s] = <<>> \/ o_buffer[s] # <<>> => replies[s] = <<>>
    /\ pc[s] \in {"none", "handshake", "reading"} => o_buffer[s] = <<>>
    /\ pc[s] = "writing" => i_buffer[s] # <<>> /\ o_buffer[s] # <<>>

(* TypeOK, with the buffers as sequences.                                  *)
Types ==
  /\ pc \in [Sessions -> {"none", "handshake", "reading", "writing", "gone"}]
  /\ client \in [Sessions -> {"new", "open", "closed", "lost"}]
  /\ wire \in [Sessions -> Seq(Requests)]
  /\ \A s \in Sessions : Len(wire[s]) <= MaxRequests
  /\ i_buffer \in [Sessions -> Seq(Requests)]
  /\ o_buffer \in [Sessions -> {<<>>, <<1>>}]
  /\ replies \in [Sessions -> {<<>>, <<<<1>>>>}]
  /\ terminated \in BOOLEAN

IInv == Types /\ SessionInv

ListenerInv ==
  /\ listener \in {"new", "listening", "failed", "closed"}
  /\ accepting \in 0..1

(* A session answers its first request and no other: what it has read      *)
(* stays in i_buffer, in front of the requests that follow.                *)
OnlyFirstIsAnswered ==
  \A s \in Sessions : replies[s] \in {<<>>, <<<<1>>>>}

-----------------------------------------------------------------------------

LEMMA BoundedSeqs ==
  ASSUME NEW S, NEW n \in Nat
  PROVE  \A q : q \in BoundedSeq(S, n) <=> q \in Seq(S) /\ Len(q) <= n
<1>1. ASSUME NEW q, q \in BoundedSeq(S, n)
      PROVE  q \in Seq(S) /\ Len(q) <= n
  <2>1. PICK m \in 0..n : q \in [1..m -> S]
    BY <1>1 DEF BoundedSeq, SeqOf
  <2>2. q \in Seq(S) /\ Len(q) = m
    BY <2>1
  <2>3. QED
    BY <2>1, <2>2
<1>2. ASSUME NEW q, q \in Seq(S), Len(q) <= n
      PROVE  q \in BoundedSeq(S, n)
  <2>1. q \in [1..Len(q) -> S] /\ Len(q) \in 0..n
    BY <1>2
  <2>2. QED
    BY <2>1 DEF BoundedSeq, SeqOf
<1>3. QED
  BY <1>1, <1>2

LEMMA InitInv == Init => IInv /\ ListenerInv
<1> SUFFICES ASSUME Init PROVE IInv /\ ListenerInv
  OBVIOUS
<1>1. Types
  <2>1. \A s \in Sessions : wire[s] = <<>> /\ Len(wire[s]) = 0
    BY DEF Init
  <2>2. \A s \in Sessions : Len(wire[s]) <= MaxRequests
    BY <2>1, MaxRequestsAssumption
  <2>3. wire \in [Sessions -> Seq(Requests)] /\ i_buffer \in [Sessions -> Seq(Requests)]
    BY DEF Init
  <2>4. terminated \in BOOLEAN
    BY DEF Init
  <2>5. QED
    BY <2>2, <2>3, <2>4 DEF Init, Types
<1>2. SessionInv
  BY DEF Init, SessionInv
<1>3. ListenerInv
  BY DEF Init, ListenerInv
<1>4. QED
  BY <1>1, <1>2, <1>3 DEF IInv

(* A handler of the session s, which leaves the listener and the other     *)
(* sessions alone.                                                         *)
LEMMA SessionSteps ==
  ASSUME IInv, NEW s \in Sessions, SessionStep(s)
  PROVE  IInv'
<1> USE DEF IInv, Types, SessionInv, Completes, sessionVars
<1>1. CASE OnAccept(s)
  BY <1>1 DEF OnAccept
<1>2. CASE OnAcceptThrows(s)
  BY <1>2 DEF OnAcceptThrows
<1>3. ASSUME NEW to, ReadCompletes(s, to)
      PROVE  /\ NextRequest(s) \in Requests
             /\ i_buffer' \in [Sessions -> Seq(Requests)]
             /\ \A r \in Sessions \ {s} : i_buffer'[r] = i_buffer[r]
             /\ Len(i_buffer'[s]) = Len(i_buffer[s]) + 1
             /\ Len(i_buffer'[s]) <= Len(wire[s])
             /\ i_buffer'[s] # <<>>
  <2>1. Len(i_buffer[s]) + 1 \in 1..Len(wire[s])
    BY <1>3 DEF ReadCompletes
  <2>2. NextRequest(s) \in Requests
    BY <2>1 DEF NextRequest
  <2>3. i_buffer'[s] = Append(i_buffer[s], NextRequest(s))
    BY <1>3 DEF ReadCompletes
  <2>4. QED
    BY <1>3, <2>1, <2>2, <2>3 DEF ReadCompletes
<1>4. CASE OnRead(s)
  <2>1. /\ i_buffer' \in [Sessions -> Seq(Requests)]
        /\ \A r \in Sessions \ {s} : i_buffer'[r] = i_buffer[r]
        /\ Len(i_buffer'[s]) <= Len(wire[s]) /\ i_buffer'[s] # <<>>
        /\ i_buffer[s] = <<>> /\ Len(i_buffer'[s]) = 1
    BY <1>3, <1>4 DEF OnRead, Answerable
  <2>2. o_buffer' = [o_buffer EXCEPT ![s] = <<1>>] /\ replies[s] = <<>>
    <3>1. o_buffer[s] = <<>> /\ replies[s] = <<>>
      BY <1>4, <2>1 DEF OnRead, ReadCompletes
    <3>2. QED
      BY <1>4, <2>1, <3>1 DEF OnRead
  <2>3. pc' = [pc EXCEPT ![s] = "writing"] /\ UNCHANGED <<client, wire, replies, terminated>>
    BY <1>4 DEF OnRead, ReadCompletes
  <2>4. QED
    BY <2>1, <2>2, <2>3
<1>5. CASE OnReadThrows(s) \/ OnReadBinary(s)
  <2>1. /\ i_buffer' \in [Sessions -> Seq(Requests)]
        /\ \A r \in Sessions \ {s} : i_buffer'[r] = i_buffer[r]
        /\ Len(i_buffer'[s]) <= Len(wire[s]) /\ i_buffer'[s] # <<>>
    BY <1>3, <1>5 DEF OnReadThrows, OnReadBinary
  <2>2. /\ pc' = [pc EXCEPT ![s] = "gone"]
        /\ UNCHANGED <<client, wire, o_buffer, replies, terminated>>
    BY <1>5 DEF OnReadThrows, OnReadBinary, ReadCompletes
  <2>3. QED
    BY <2>1, <2>2
<1>6. CASE OnReadEnds(s)
  BY <1>6 DEF OnReadEnds
<1>7. CASE OnWrite(s)
  <2>1. o_buffer[s] = <<1>> /\ replies[s] = <<>>
    <3>1. pc[s] = "writing"
      BY <1>7 DEF OnWrite
    <3>2. o_buffer[s] \in {<<>>, <<1>>} /\ o_buffer[s] # <<>>
      BY <3>1
    <3>3. replies[s] = <<>>
      BY <3>2
    <3>4. QED
      BY <3>2, <3>3
  <2>2. replies' = [replies EXCEPT ![s] = <<<<1>>>>]
    BY <1>7, <2>1 DEF OnWrite
  <2>3. i_buffer[s] # <<>> /\ o_buffer' = [o_buffer EXCEPT ![s] = <<>>]
    BY <1>7 DEF OnWrite
  <2>4. pc' = [pc EXCEPT ![s] = "reading"]
        /\ UNCHANGED <<client, wire, i_buffer, terminated>>
    BY <1>7 DEF OnWrite
  <2>5. QED
    BY <2>2, <2>3, <2>4
<1>8. CASE OnWriteThrows(s)
  BY <1>8 DEF OnWriteThrows
<1>9. QED
  BY <1>1, <1>2, <1>4, <1>5, <1>6, <1>7, <1>8 DEF SessionStep

LEMMA ClientSteps ==
  ASSUME IInv, NEW s \in Sessions,
         \/ ClientConnects(s) \/ ClientLeaves(s)
         \/ \E request \in Requests : ClientSends(s, request)
  PROVE  IInv'
<1> USE DEF IInv, Types, SessionInv, ClientDoes, sessionVars
<1>1. CASE ClientConnects(s)
  BY <1>1 DEF ClientConnects
<1>2. ASSUME NEW request \in Requests, ClientSends(s, request)
      PROVE  IInv'
  <2>1. /\ wire' \in [Sessions -> Seq(Requests)]
        /\ \A r \in Sessions \ {s} : wire'[r] = wire[r]
        /\ Len(wire'[s]) = Len(wire[s]) + 1 /\ Len(wire'[s]) <= MaxRequests
    BY <1>2, MaxRequestsAssumption DEF ClientSends
  <2>2. UNCHANGED <<pc, i_buffer, o_buffer, replies, terminated>>
        /\ client' = [client EXCEPT ![s] = "open"]
    BY <1>2 DEF ClientSends
  <2>3. Types'
    <3>1. \A r \in Sessions : Len(wire'[r]) <= MaxRequests
      BY <2>1
    <3>2. QED
      BY <2>1, <2>2, <3>1
  <2>4. \A r \in Sessions : Len(i_buffer'[r]) <= Len(wire'[r])
    <3>1. \A r \in Sessions : Len(i_buffer[r]) \in Nat /\ Len(wire[r]) \in Nat
      OBVIOUS
    <3>2. Len(i_buffer[s]) <= Len(wire'[s])
      BY <2>1, <3>1
    <3>3. \A r \in Sessions \ {s} : Len(i_buffer[r]) <= Len(wire'[r])
      BY <2>1
    <3>4. QED
      BY <2>2, <3>2, <3>3
  <2>5. QED
    BY <2>2, <2>3, <2>4
<1>3. CASE ClientLeaves(s)
  BY <1>3 DEF ClientLeaves
<1>4. QED
  BY <1>1, <1>2, <1>3

LEMMA NextInv ==
  ASSUME IInv, ListenerInv, [Next]_vars
  PROVE  IInv' /\ ListenerInv'
<1>1. CASE UNCHANGED vars
  BY <1>1 DEF vars, listenerVars, sessionVars, IInv, Types, SessionInv,
              ListenerInv
<1> USE DEF ListenerInv, Accept, AcceptCompletes
<1>2. CASE Start
  <2>1. IInv'
    BY <1>2 DEF Start, sessionVars, IInv, Types, SessionInv
  <2>2. ListenerInv'
    BY <1>2 DEF Start
  <2>3. QED
    BY <2>1, <2>2
<1>3. CASE AcceptFails \/ AcceptCanceled
  <2>1. IInv'
    BY <1>3 DEF AcceptFails, AcceptCanceled, sessionVars, IInv, Types, SessionInv
  <2>2. ListenerInv'
    BY <1>3 DEF AcceptFails, AcceptCanceled
  <2>3. QED
    BY <2>1, <2>2
<1>4. ASSUME NEW s \in Sessions, AcceptHandler(s)
      PROVE  IInv' /\ ListenerInv'
  <2>1. IInv'
    BY <1>4 DEF AcceptHandler, IInv, Types, SessionInv
  <2>2. ListenerInv'
    BY <1>4 DEF AcceptHandler
  <2>3. QED
    BY <2>1, <2>2
<1>5. ASSUME NEW s \in Sessions,
             \/ ClientConnects(s) \/ ClientLeaves(s)
             \/ \E request \in Requests : ClientSends(s, request)
      PROVE  IInv' /\ ListenerInv'
  <2>1. IInv'
    BY <1>5, ClientSteps
  <2>2. UNCHANGED listenerVars
    BY <1>5 DEF ClientConnects, ClientLeaves, ClientSends, ClientDoes
  <2>3. QED
    BY <2>1, <2>2 DEF listenerVars
<1>6. ASSUME NEW s \in Sessions, SessionStep(s)
      PROVE  IInv' /\ ListenerInv'
  <2>1. IInv'
    BY <1>6, SessionSteps
  <2>2. UNCHANGED listenerVars
    BY <1>6 DEF SessionStep, OnAccept, OnAcceptThrows, OnRead, OnReadThrows,
                OnReadBinary, OnReadEnds, OnWrite, OnWriteThrows,
                ReadCompletes, Completes
  <2>3. QED
    BY <2>1, <2>2 DEF listenerVars
<1>7. QED
  BY <1>1, <1>2, <1>3, <1>4, <1>5, <1>6 DEF Next

LEMMA Inductive == Spec => [](IInv /\ ListenerInv)
<1>1. IInv /\ ListenerInv /\ [Next]_vars => (IInv /\ ListenerInv)'
  BY NextInv
<1>2. QED
  BY <1>1, InitInv, PTL DEF Spec

-----------------------------------------------------------------------------
(* A session's buffers never hold more than its client has sent and one    *)
(* answer (ws_session_handler.h:43).                                       *)
THEOREM TypeCorrect == Spec => []TypeOK
<1>1. IInv /\ ListenerInv => TypeOK
  <2> SUFFICES ASSUME IInv, ListenerInv PROVE TypeOK
    OBVIOUS
  <2> USE DEF IInv, Types, SessionInv, ListenerInv
  <2>1. MaxRequests \in Nat /\ 1 \in 1..MaxRequests
    BY MaxRequestsAssumption
  <2>2. wire \in [Sessions -> BoundedSeq(Requests, MaxRequests)]
    BY <2>1, BoundedSeqs
  <2>3. i_buffer \in [Sessions -> BoundedSeq(Requests, MaxRequests)]
    <3>1. \A s \in Sessions : i_buffer[s] \in BoundedSeq(Requests, MaxRequests)
      <4> TAKE s \in Sessions
      <4>1. Len(i_buffer[s]) \in Nat /\ Len(wire[s]) \in Nat
        OBVIOUS
      <4>2. i_buffer[s] \in Seq(Requests) /\ Len(i_buffer[s]) <= MaxRequests
        BY <2>1, <4>1
      <4>3. QED
        BY <2>1, <4>2, BoundedSeqs
    <3>2. QED
      BY <3>1
  <2>4. o_buffer \in [Sessions -> BoundedSeq(1..MaxRequests, 1)]
    <3>1. <<>> \in Seq(1..MaxRequests) /\ Len(<<>>) <= 1
      OBVIOUS
    <3>2. <<1>> \in Seq(1..MaxRequests) /\ Len(<<1>>) <= 1
      BY <2>1
    <3>3. {<<>>, <<1>>} \subseteq BoundedSeq(1..MaxRequests, 1)
      BY <3>1, <3>2, BoundedSeqs
    <3>4. o_buffer \in [Sessions -> {<<>>, <<1>>}]
      OBVIOUS
    <3>5. QED
      BY <3>3, <3>4
  <2>5. QED
    BY <2>2, <2>3, <2>4 DEF TypeOK
<1>2. QED
  BY <1>1, Inductive, PTL

(* i_buffer is not consumed, so that process() is given a session's second *)
(* request behind its first and throws (ws_session_handler.cpp:79-104).    *)
THEOREM SecondIsNotAnswered == Spec => []OnlyFirstIsAnswered
<1>1. IInv => OnlyFirstIsAnswered
  BY DEF IInv, Types, OnlyFirstIsAnswered
<1>2. QED
  BY <1>1, Inductive, PTL
=============================================================================
