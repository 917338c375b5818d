--------------------------- MODULE MCQueueWorker ---------------------------
(***************************************************************************)
(* QueueWorker for TLC.                                                    *)
(***************************************************************************)
EXTENDS QueueWorker

LOCAL SE == INSTANCE SequencesExt

(* Without, which is stated so that it can be proved about, is the removal *)
(* of every equal element: checked on all short lists, repetitions         *)
(* included.                                                               *)
ASSUME WithoutFilters ==
  \A s \in SE!BoundedSeq(1..3, 5), v \in 1..4 :
    Without(s, v) = SelectSeq(s, LAMBDA e : e # v)
=============================================================================
