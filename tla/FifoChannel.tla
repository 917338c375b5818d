---------------------------- MODULE FifoChannel ----------------------------
(***************************************************************************)
(* What a locked::queue and the one worker thread that drains it promise   *)
(* to the threads that push: each message is offered once; the channel     *)
(* either takes it or drops it there and then; what it takes it hands to   *)
(* the worker's consumer once, in the order taken, and forgets.            *)
(* Messages are numbered in the order they are offered.                    *)
(***************************************************************************)
EXTENDS Integers, Sequences

VARIABLES
  chan,       \* taken, not yet handed over
  delivered,  \* handed to the consumer, oldest first
  offered     \* how many messages have been offered

fifoVars == <<chan, delivered, offered>>

FifoInit ==
  /\ chan = <<>>
  /\ delivered = <<>>
  /\ offered = 0

Offer ==
  /\ offered' = offered + 1
  /\ chan' \in {chan, Append(chan, offered')}
  /\ UNCHANGED delivered

Deliver ==
  /\ chan # <<>>
  /\ delivered' = Append(delivered, Head(chan))
  /\ chan' = Tail(chan)
  /\ UNCHANGED offered

FifoNext == Offer \/ Deliver

FifoSpec == FifoInit /\ [][FifoNext]_fifoVars
=============================================================================
