----------------------------- MODULE WsSession -----------------------------
(***************************************************************************)
(* WSServer (ws_server.cpp) and the sessions it would make of connections, *)
(* WSSessionHandler (ws_session_handler.cpp), with their clients.          *)
(*                                                                         *)
(* The call that starts an accept is commented out in WSServer::accept     *)
(* (ws_server.cpp:83-86): the code as it is has AcceptStarts = FALSE, and  *)
(* no connection is ever accepted.  Putting the line back would not do:    *)
(* shared_from_this() throws bad_weak_ptr, because the hub holds WSServer  *)
(* by a unique_ptr (xypi_hub.h:37, xypi_hub.cpp:38).  AcceptStarts = TRUE  *)
(* stands for the call in a server that a shared_ptr owns, so that the     *)
(* handlers behind it can be checked.                                      *)
(*                                                                         *)
(* A step is one completion handler.  A session owns itself through the    *)
(* handler of its pending operation: one that starts no operation is its   *)
(* end, "gone".  An exception that leaves a handler leaves the io thread,  *)
(* and ends the process.  WSApiHandler::process is WsApi's subject: here   *)
(* it answers a well-formed request, and throws on any other string.       *)
(***************************************************************************)
EXTENDS Integers, Sequences, SequencesExt

CONSTANTS
  Sessions,      \* connections that clients may make
  MaxRequests,   \* bound: requests a client sends on a connection
  AcceptStarts   \* WSServer::accept starts an accept (in the code: FALSE)

ASSUME MaxRequestsAssumption == MaxRequests \in Nat \ {0}
ASSUME AcceptStartsAssumption == AcceptStarts \in BOOLEAN

VARIABLES
  listener,    \* "new", "listening", "failed" in start(), or "closed"
  accepting,   \* accepts pending on the acceptor
  pc,          \* per session: the operation it waits for
  client,      \* per session: what its client does
  wire,        \* per session: the requests sent so far; "good" has an answer
  i_buffer,    \* per session: the requests whose bytes are in i_buffer
  o_buffer,    \* per session: numbers of the responses in o_buffer
  replies,     \* per session: what was written to its client
  processed,   \* history, per session: what process() was called with
  terminated   \* an exception has left an io thread

listenerVars == <<listener, accepting>>
sessionVars == <<pc, i_buffer, o_buffer, replies, processed>>
vars == <<listenerVars, client, wire, sessionVars, terminated>>

Requests == {"good", "bad", "binary"}

TypeOK ==
  /\ listener \in {"new", "listening", "failed", "closed"}
  /\ accepting \in 0..1
  /\ pc \in [Sessions -> {"none", "handshake", "reading", "writing", "gone"}]
  /\ client \in [Sessions -> {"new", "open", "closed", "lost"}]
  /\ wire \in [Sessions -> BoundedSeq(Requests, MaxRequests)]
  /\ i_buffer \in [Sessions -> BoundedSeq(Requests, MaxRequests)]
  /\ o_buffer \in [Sessions -> BoundedSeq(1..MaxRequests, 1)]
  /\ terminated \in BOOLEAN

Init ==
  /\ listener = "new" /\ accepting = 0
  /\ pc = [s \in Sessions |-> "none"]
  /\ client = [s \in Sessions |-> "new"]
  /\ wire = [s \in Sessions |-> <<>>]
  /\ i_buffer = [s \in Sessions |-> <<>>]
  /\ o_buffer = [s \in Sessions |-> <<>>]
  /\ replies = [s \in Sessions |-> <<>>]
  /\ processed = [s \in Sessions |-> <<>>]
  /\ terminated = FALSE

-----------------------------------------------------------------------------
(* WSServer.                                                               *)

(* accept(), with or without its async_accept.                             *)
Accept == accepting' = IF AcceptStarts THEN 1 ELSE 0

(* start(): open, set_option, bind and listen, each of which may fail.     *)
Start ==
  /\ ~terminated /\ listener = "new"
  /\ \/ listener' = "failed" /\ UNCHANGED accepting
     \/ listener' = "listening" /\ Accept
  /\ UNCHANGED <<client, wire, sessionVars, terminated>>

AcceptCompletes == ~terminated /\ accepting > 0 /\ UNCHANGED <<client, wire, terminated>>

(* accept_handler: a connection is made into a session that runs ...       *)
AcceptHandler(s) ==
  /\ AcceptCompletes
  /\ client[s] = "open" /\ pc[s] = "none"
  /\ pc' = [pc EXCEPT ![s] = "handshake"]
  /\ Accept
  /\ UNCHANGED <<listener, i_buffer, o_buffer, replies, processed>>

(* ... an error is ignored ...                                             *)
AcceptFails ==
  /\ AcceptCompletes
  /\ Accept
  /\ UNCHANGED <<listener, sessionVars>>

(* ... and the cancellation that a signal posts closes the acceptor.       *)
AcceptCanceled ==
  /\ AcceptCompletes
  /\ accepting' = 0
  /\ listener' = "closed"
  /\ UNCHANGED sessionVars

-----------------------------------------------------------------------------
(* The client of a session (the code's environment).                       *)

ClientDoes(s, from, to) ==
  /\ ~terminated
  /\ client[s] = from
  /\ client' = [client EXCEPT ![s] = to]
  /\ UNCHANGED <<listenerVars, sessionVars, terminated>>

ClientConnects(s) ==
  /\ ClientDoes(s, "new", "open")
  /\ listener = "listening"
  /\ UNCHANGED wire

ClientSends(s, request) ==
  /\ ClientDoes(s, "open", "open")
  /\ pc[s] \in {"reading", "writing"}
  /\ Len(wire[s]) < MaxRequests
  /\ wire' = [wire EXCEPT ![s] = Append(@, request)]

ClientLeaves(s) ==
  /\ pc[s] # "none"
  /\ \E to \in {"closed", "lost"} : ClientDoes(s, "open", to)
  /\ UNCHANGED wire

-----------------------------------------------------------------------------
(* WSSessionHandler.                                                       *)

Completes(s, from, to) ==
  /\ ~terminated
  /\ pc[s] = from
  /\ pc' = [pc EXCEPT ![s] = to]
  /\ UNCHANGED <<listenerVars, client, wire>>

OnAccept(s) ==
  /\ Completes(s, "handshake", "reading")
  /\ client[s] # "lost"
  /\ UNCHANGED <<i_buffer, o_buffer, replies, processed, terminated>>

(* The handshake fails: onAccept throws.                                   *)
OnAcceptThrows(s) ==
  /\ Completes(s, "handshake", "gone")
  /\ terminated' = TRUE
  /\ UNCHANGED <<i_buffer, o_buffer, replies, processed>>

(* A request's bytes are added to those that are in i_buffer.  Its number  *)
(* is the length of i_buffer, which nobody consumes.                       *)
NextRequest(s) == wire[s][Len(i_buffer[s]) + 1]

ReadCompletes(s, to) ==
  /\ Completes(s, "reading", to)
  /\ Len(i_buffer[s]) < Len(wire[s])
  /\ i_buffer' = [i_buffer EXCEPT ![s] = Append(@, NextRequest(s))]
  /\ UNCHANGED <<replies, terminated>>

(* process() is given all of i_buffer, and parses one request.             *)
Answerable(s) == i_buffer'[s] = <<"good">>

\* Mutant of OnRead: the next message is read instead of writing the answer.
OnReadDropsAnswer(s) ==
  /\ ReadCompletes(s, "reading")
  /\ NextRequest(s) # "binary"
  /\ Answerable(s)
  /\ processed' = [processed EXCEPT ![s] = Append(@, i_buffer'[s])]
  /\ UNCHANGED o_buffer

\* Mutant of OnRead: the answer is put into o_buffer twice.
OnReadAnswersTwice(s) ==
  /\ ReadCompletes(s, "writing")
  /\ NextRequest(s) # "binary"
  /\ Answerable(s)
  /\ processed' = [processed EXCEPT ![s] = Append(@, i_buffer'[s])]
  /\ o_buffer' = [o_buffer EXCEPT ![s] = @ \o <<Len(i_buffer'[s]), Len(i_buffer'[s])>>]

OnRead(s) ==
  /\ ReadCompletes(s, "writing")
  /\ NextRequest(s) # "binary"
  /\ Answerable(s)
  /\ processed' = [processed EXCEPT ![s] = Append(@, i_buffer'[s])]
  /\ o_buffer' = [o_buffer EXCEPT ![s] = Append(@, Len(i_buffer'[s]))]

(* process() throws: the exception is logged, nothing is written or read.  *)
OnReadThrows(s) ==
  /\ ReadCompletes(s, "gone")
  /\ NextRequest(s) # "binary"
  /\ ~Answerable(s)
  /\ processed' = [processed EXCEPT ![s] = Append(@, i_buffer'[s])]
  /\ UNCHANGED o_buffer

OnReadBinary(s) ==
  /\ ReadCompletes(s, "gone")
  /\ NextRequest(s) = "binary"
  /\ UNCHANGED <<o_buffer, processed>>

\* Mutant of OnReadEnds: the error is ignored and the next message read.
OnReadGoesOn(s) ==
  /\ Completes(s, "reading", "reading")
  /\ client[s] \in {"closed", "lost"}
  /\ UNCHANGED <<i_buffer, o_buffer, replies, processed, terminated>>

(* The client has closed, or the read fails: the session is given up.      *)
OnReadEnds(s) ==
  /\ Completes(s, "reading", "gone")
  /\ \/ client[s] = "lost"
     \/ client[s] = "closed" /\ Len(i_buffer[s]) = Len(wire[s])
  /\ UNCHANGED <<i_buffer, o_buffer, replies, processed, terminated>>

(* The message written is what o_buffer holds.                             *)
OnWrite(s) ==
  /\ Completes(s, "writing", "reading")
  /\ replies' = [replies EXCEPT ![s] = Append(@, o_buffer[s])]
  /\ o_buffer' = [o_buffer EXCEPT ![s] = <<>>]
  /\ UNCHANGED <<i_buffer, processed, terminated>>

(* The write fails: onWrite throws.                                        *)
OnWriteThrows(s) ==
  /\ Completes(s, "writing", "gone")
  /\ client[s] \in {"closed", "lost"}
  /\ terminated' = TRUE
  /\ UNCHANGED <<i_buffer, o_buffer, replies, processed>>

SessionStep(s) ==
  \/ OnAccept(s)
  \/ OnAcceptThrows(s)
  \/ OnRead(s)
  \/ OnReadThrows(s)
  \/ OnReadBinary(s)
  \/ OnReadEnds(s)
  \/ OnWrite(s)
  \/ OnWriteThrows(s)

-----------------------------------------------------------------------------

Next ==
  \/ Start
  \/ AcceptFails
  \/ AcceptCanceled
  \/ \E s \in Sessions :
       \/ AcceptHandler(s)
       \/ ClientConnects(s)
       \/ \E request \in Requests : ClientSends(s, request)
       \/ ClientLeaves(s)
       \/ SessionStep(s)

Spec == Init /\ [][Next]_vars

(* start() is called, an operation that can complete does, and a waiting   *)
(* connection is not kept waiting by failing accepts for ever.  A client   *)
(* that does not answer the pings is lost.  Nothing obliges a client to    *)
(* connect, to send or to leave.                                           *)
FairSpec ==
  /\ Spec
  /\ WF_vars(Start)
  /\ \A s \in Sessions : WF_vars(AcceptHandler(s)) /\ WF_vars(SessionStep(s))

-----------------------------------------------------------------------------
(* A client's first request, if it is well formed, is answered, unless the *)
(* client or the whole process goes first.                                 *)
FirstIsAnswered ==
  \A s \in Sessions :
    pc[s] = "reading" /\ wire[s] # <<>> /\ Head(wire[s]) = "good"
      ~> replies[s] # <<>> \/ client[s] # "open" \/ terminated

(* No session outlives its client: whatever it waits for, it is given up   *)
(* (and freed) once the client has gone.                                   *)
SessionsEnd ==
  \A s \in Sessions :
    client[s] \in {"closed", "lost"} ~> pc[s] = "gone" \/ terminated

(* "turns the byte stream into a command stream and sends that to the      *)
(* ApiHandler" (ws_session_handler.h:26): process() is given one request   *)
(* at a time.                                                              *)
OneCommandAtATime ==
  \A s \in Sessions : \A i \in DOMAIN processed[s] : Len(processed[s][i]) = 1
=============================================================================
