------------------------------ MODULE JobBoard ------------------------------
(***************************************************************************)
(* What the web socket api promises about the commands it defers: a job    *)
(* that was accepted waits, is then done or has failed, and a done job is  *)
(* delivered to one get.  No job is forgotten on the way, is delivered     *)
(* twice or goes back.                                                     *)
(***************************************************************************)
EXTENDS Naturals

CONSTANT Job

VARIABLES
  status,     \* where each job is
  deliveries  \* how often each job's result has been handed to a get

boardVars == <<status, deliveries>>

BoardInit ==
  /\ status = [j \in Job |-> "none"]
  /\ deliveries = [j \in Job |-> 0]

Moves(j, from, to) ==
  /\ status[j] = from
  /\ status' = [status EXCEPT ![j] = to]

Accept(j) ==
  /\ Moves(j, "none", "waiting") \/ Moves(j, "none", "done")
  /\ UNCHANGED deliveries

Finish(j) ==
  /\ Moves(j, "waiting", "done") \/ Moves(j, "waiting", "failed")
  /\ UNCHANGED deliveries

Deliver(j) ==
  /\ Moves(j, "done", "delivered")
  /\ deliveries' = [deliveries EXCEPT ![j] = @ + 1]

BoardNext == \E j \in Job : Accept(j) \/ Finish(j) \/ Deliver(j)

BoardSpec == BoardInit /\ [][BoardNext]_boardVars
=============================================================================
