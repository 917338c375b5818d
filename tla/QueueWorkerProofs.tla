------------------------- MODULE QueueWorkerProofs -------------------------
(***************************************************************************)
(* Theorems about QueueWorker for every number of callers, every bound on  *)
(* the messages, every initial value of the uninitialised isRunning, and   *)
(* whether or not the worker enables its queue (ServingAccepts alone is    *)
(* about a worker that does).                                              *)
(*                                                                         *)
(* The inductive invariant IInv adds to the checked invariants what they   *)
(* rest on: a worker thread exists exactly while myThread is joinable (so  *)
(* Launch never replaces a thread that holds a message), the queue and the *)
(* history are increasing, and everything handed over is older than        *)
(* everything that still waits.                                            *)
(*                                                                         *)
(* SInv, for the worker's sleep, adds what the sleep rests on: the worker  *)
(* waits only inside front() on what it saw there, and while it is there   *)
(* and told to stop, waiting is turned off or about to be.                 *)
(***************************************************************************)
EXTENDS QueueWorker, LockedQueueLemmas, SequenceTheorems

Increasing(s) == \A i, j \in DOMAIN s : i < j => s[i] < s[j]

UpTo(s, n) == \A i \in DOMAIN s : s[i] <= n

ThreadInv == joinable <=> wpc # "none"

(* Between the hand-over and the remove the head is both handed over and   *)
(* still queued.                                                           *)
OrderInv ==
  /\ Increasing(iqueue) /\ UpTo(iqueue, allocated)
  /\ Increasing(handled) /\ UpTo(handled, allocated)
  /\ \A i \in DOMAIN handled, j \in DOMAIN iqueue :
       IF wpc = "remove" THEN handled[i] <= iqueue[j]
                         ELSE handled[i] < iqueue[j]

IInv == TypeOK /\ ThreadInv /\ InFlightIsHead /\ OrderInv

-----------------------------------------------------------------------------
(* An increasing queue holds its head once, so the worker's remove() takes *)
(* out the message it has just handled and nothing else.                   *)
LEMMA RemoveIsPop ==
  ASSUME TypeOK, InFlightIsHead, OrderInv, RunnerRemoves
  PROVE  iqueue # <<>> /\ iqueue' = Tail(iqueue)
<1>1. iqueue \in Seq(Msgs) /\ iqueue # <<>> /\ cur = Head(iqueue)
  BY DEF TypeOK, QueueTypeOK, InFlightIsHead, RunnerRemoves, WorkerMoves
<1>2. OnlyAtHead(iqueue)
  <2>1. Len(iqueue) \in Nat /\ Len(iqueue) >= 1
        /\ DOMAIN iqueue = 1..Len(iqueue)
    BY <1>1
  <2>2. \A i \in DOMAIN iqueue : iqueue[i] \in Int
    BY <1>1, <2>1, MaxMsgsAssumption DEF Msgs
  <2>3. \A i \in 2..Len(iqueue) : iqueue[1] < iqueue[i]
    BY <2>1 DEF OrderInv, Increasing
  <2>4. QED
    BY <2>1, <2>2, <2>3 DEF OnlyAtHead
<1>3. QED
  BY <1>1, <1>2, WithoutHead DEF RunnerRemoves, RemoveAll

(* Every step that is neither a push nor a hand-over nor a remove leaves   *)
(* the queue, the history and the message in flight as they are, and does  *)
(* not enter or leave the section between hand-over and remove.            *)
Quiet ==
  /\ UNCHANGED <<iqueue, handled, allocated>>
  /\ wpc' = "remove" <=> wpc = "remove"
  /\ wpc' = "handle" /\ wpc # "handle" => iqueue # <<>> /\ cur' = Head(iqueue)
  /\ wpc \in {"handle", "remove"} /\ wpc' = wpc => cur' = cur

LEMMA QuietSteps ==
  ASSUME ThreadInv, [Next]_vars
  PROVE  Quiet \/ PushMsg \/ RunnerHandles \/ RunnerRemoves
<1> USE DEF Quiet
<1>1. CASE UNCHANGED vars
  BY <1>1 DEF vars
<1>2. ASSUME NEW c \in Callers, Launch(c)
      PROVE  Quiet
  BY <1>2 DEF Launch, CallerMoves, queueVars, ThreadInv
<1>3. ASSUME NEW c \in Callers, RunExchange(c) \/ StopExchange(c)
      PROVE  Quiet
  BY <1>3 DEF RunExchange, StopExchange, CallerMoves, queueVars
<1>4. ASSUME NEW c \in Callers, StopDisableWait(c) \/ StopDisable(c)
      PROVE  Quiet
  BY <1>4 DEF StopDisableWait, StopDisable, CallerMoves, DisableWait, Enable
<1>5. ASSUME NEW c \in Callers, StopJoin(c)
      PROVE  Quiet
  BY <1>5 DEF StopJoin, CallerMoves, queueVars
<1>6. CASE RunnerEnable \/ RunnerEnableWait
  BY <1>6 DEF RunnerEnable, RunnerEnableWait, WorkerMoves, Enable, EnableWait,
              queueVars
<1>7. CASE RunnerLoop \/ RunnerFindsNothing
  BY <1>7 DEF RunnerLoop, RunnerFindsNothing, WorkerMoves, FrontReturns,
              queueVars
<1>8. CASE RunnerBlocks \/ RunnerWakes
  BY <1>8 DEF RunnerBlocks, RunnerWakes, WorkerMoves, FrontBlocks,
              SpuriousWakeup
<1>9. CASE RunnerTakesHead
  BY <1>9 DEF RunnerTakesHead, WorkerMoves, FrontReturns, queueVars
<1>10. QED
  BY <1>1, <1>2, <1>3, <1>4, <1>5, <1>6, <1>7, <1>8, <1>9
  DEF Next, CallerStep, RunnerStep
-----------------------------------------------------------------------------
(* Type correctness of a step, action by action.                           *)

LEMMA CallerTypes ==
  ASSUME TypeOK, NEW c \in Callers,
         RunExchange(c) \/ StopExchange(c) \/ CallerStep(c)
  PROVE  TypeOK'
<1> USE DEF TypeOK, QueueTypeOK, CallerMoves, Idle, Stopping, WorkerPcs, queueVars
<1>1. CASE RunExchange(c)
  BY <1>1 DEF RunExchange
<1>2. CASE StopExchange(c)
  BY <1>2 DEF StopExchange
<1>3. CASE Launch(c)
  BY <1>3 DEF Launch
<1>4. CASE StopDisableWait(c)
  BY <1>4 DEF StopDisableWait, DisableWait, NotifyAll
<1>5. CASE StopDisable(c)
  BY <1>5 DEF StopDisable, Enable
<1>6. CASE StopJoin(c)
  BY <1>6 DEF StopJoin
<1>7. QED
  BY <1>1, <1>2, <1>3, <1>4, <1>5, <1>6 DEF CallerStep

LEMMA RunnerTypes ==
  ASSUME TypeOK, InFlightIsHead, OrderInv, RunnerStep \/ RunnerWakes
  PROVE  TypeOK'
<1> USE DEF TypeOK, QueueTypeOK, WorkerMoves, WorkerPcs, queueVars
<1>1. CASE RunnerEnable
  BY <1>1 DEF RunnerEnable, Enable
<1>2. CASE RunnerEnableWait
  BY <1>2 DEF RunnerEnableWait, EnableWait
<1>3. CASE RunnerLoop
  BY <1>3 DEF RunnerLoop
<1>4. CASE RunnerBlocks
  BY <1>4 DEF RunnerBlocks, FrontBlocks
<1>5. CASE RunnerWakes
  BY <1>5 DEF RunnerWakes, SpuriousWakeup
<1>6. CASE RunnerTakesHead
  <2>1. Head(iqueue) \in Msgs
    BY <1>6 DEF RunnerTakesHead
  <2>2. QED
    BY <1>6, <2>1, MaxMsgsAssumption DEF RunnerTakesHead, FrontReturns, Msgs
<1>7. CASE RunnerFindsNothing
  BY <1>7 DEF RunnerFindsNothing, FrontReturns
<1>8. CASE RunnerHandles
  <2>1. cur \in Msgs
    BY <1>8 DEF RunnerHandles, InFlightIsHead
  <2>2. QED
    BY <1>8, <2>1 DEF RunnerHandles
<1>9. CASE RunnerRemoves
  <2>1. iqueue \in Seq(Msgs) /\ iqueue # <<>> /\ iqueue' = Tail(iqueue)
    BY <1>9, RemoveIsPop
  <2>2. \A s \in Seq(Msgs) : s # <<>> => Tail(s) \in Seq(Msgs)
    OBVIOUS
  <2>3. iqueue' \in Seq(Msgs)
    BY <2>1, <2>2
  <2>4. QED
    BY <1>9, <2>3, MaxMsgsAssumption DEF RunnerRemoves, RemoveAll
<1>10. QED
  BY <1>1, <1>2, <1>3, <1>4, <1>5, <1>6, <1>7, <1>8, <1>9 DEF RunnerStep

LEMMA PushEffect ==
  ASSUME PushMsg
  PROVE  /\ iqueue' = Append(iqueue, allocated') \/ iqueue' = iqueue
         /\ waiters' = {} \/ waiters' = waiters
         /\ UNCHANGED <<isBlocking, qIsRunning>>
BY DEF PushMsg, Push, Insert, NotifyAll

LEMMA PushTypes ==
  ASSUME TypeOK, PushMsg
  PROVE  TypeOK'
<1>1. allocated' \in Msgs
  BY MaxMsgsAssumption DEF TypeOK, PushMsg, Msgs
<1>2. iqueue' \in Seq(Msgs) /\ waiters' \subseteq {Worker}
  <2>1. Append(iqueue, allocated') \in Seq(Msgs)
    BY <1>1 DEF TypeOK, QueueTypeOK
  <2>2. QED
    BY <2>1, PushEffect, Zenon DEF TypeOK, QueueTypeOK
<1>3. QED
  BY <1>1, <1>2, PushEffect, MaxMsgsAssumption
  DEF TypeOK, QueueTypeOK, PushMsg, Msgs

LEMMA TypeStep ==
  ASSUME IInv, [Next]_vars
  PROVE  TypeOK'
<1>1. CASE UNCHANGED vars
  BY <1>1 DEF IInv, TypeOK, QueueTypeOK, vars
<1>2. QED
  BY <1>1, CallerTypes, RunnerTypes, PushTypes DEF IInv, Next
-----------------------------------------------------------------------------
(* The rest of the invariant, for the three kinds of step that are not     *)
(* quiet and for the quiet ones.                                           *)

LEMMA ThreadStep ==
  ASSUME IInv, [Next]_vars
  PROVE  ThreadInv'
<1> USE DEF IInv, ThreadInv, CallerMoves, WorkerMoves
<1>1. CASE UNCHANGED vars
  BY <1>1 DEF vars
<1>2. CASE PushMsg
  BY <1>2 DEF PushMsg
<1>3. ASSUME NEW c \in Callers,
             RunExchange(c) \/ StopExchange(c) \/ CallerStep(c)
      PROVE  ThreadInv'
  <2>1. CASE Launch(c)
    <3>1. \/ joinable' = TRUE /\ wpc' = "enable"
          \/ UNCHANGED <<joinable, wpc>>
      BY <2>1 DEF Launch
    <3>2. QED
      BY <3>1
  <2>2. CASE StopJoin(c)
    <3>1. \/ joinable' = FALSE /\ wpc' = "none"
          \/ UNCHANGED <<joinable, wpc>>
      BY <2>2 DEF StopJoin
    <3>2. QED
      BY <3>1
  <2>3. CASE \/ RunExchange(c) \/ StopExchange(c)
             \/ StopDisableWait(c) \/ StopDisable(c)
    <3>1. UNCHANGED <<joinable, wpc>>
      BY <2>3 DEF RunExchange, StopExchange, StopDisableWait, StopDisable
    <3>2. QED
      BY <3>1
  <2>4. QED
    BY <1>3, <2>1, <2>2, <2>3 DEF CallerStep
<1>4. CASE RunnerStep \/ RunnerWakes
  BY <1>4 DEF RunnerStep, RunnerEnable, RunnerEnableWait, RunnerLoop,
              RunnerBlocks, RunnerWakes, RunnerTakesHead, RunnerFindsNothing,
              RunnerHandles, RunnerRemoves
<1>5. QED
  BY <1>1, <1>2, <1>3, <1>4 DEF Next

LEMMA QuietKeeps ==
  ASSUME IInv, Quiet
  PROVE  InFlightIsHead' /\ OrderInv'
<1>1. InFlightIsHead'
  BY DEF IInv, Quiet, InFlightIsHead
<1>2. OrderInv'
  BY DEF IInv, Quiet, OrderInv, Increasing, UpTo
<1>3. QED
  BY <1>1, <1>2

(* The new message is numbered above everything in the queue and in the    *)
(* history.                                                                *)
LEMMA PushKeeps ==
  ASSUME IInv, PushMsg
  PROVE  InFlightIsHead' /\ OrderInv'
<1>1. /\ iqueue \in Seq(Int) /\ handled \in Seq(Int) /\ allocated \in Int
      /\ handled' = handled /\ wpc' = wpc /\ cur' = cur
      /\ allocated' = allocated + 1
  BY MaxMsgsAssumption DEF IInv, TypeOK, QueueTypeOK, PushMsg, Msgs
<1>2. CASE iqueue' = iqueue
  BY <1>1, <1>2 DEF IInv, InFlightIsHead, OrderInv, Increasing, UpTo
<1>3. CASE iqueue' = Append(iqueue, allocated')
  <2>1. /\ DOMAIN iqueue = 1..Len(iqueue) /\ Len(iqueue) \in Nat
        /\ DOMAIN iqueue' = 1..(Len(iqueue) + 1)
        /\ iqueue'[Len(iqueue) + 1] = allocated + 1
        /\ \A i \in DOMAIN iqueue : iqueue'[i] = iqueue[i] /\ iqueue[i] \in Int
        /\ \A i \in DOMAIN handled : handled[i] \in Int
    BY <1>1, <1>3
  <2>2. InFlightIsHead'
    <3>1. ASSUME wpc' \in {"handle", "remove"}
          PROVE  iqueue' # <<>> /\ Head(iqueue') = cur'
      <4>1. iqueue # <<>> /\ Head(iqueue) = cur
        BY <1>1, <3>1 DEF IInv, InFlightIsHead
      <4>2. \A s \in Seq(Int), e \in Int :
              s # <<>> => Append(s, e) # <<>> /\ Head(Append(s, e)) = Head(s)
        OBVIOUS
      <4>3. allocated' \in Int
        BY <1>1
      <4>4. QED
        BY <1>1, <1>3, <4>1, <4>2, <4>3
    <3>2. QED
      BY <3>1 DEF InFlightIsHead
  <2>3. Increasing(iqueue')
    BY <1>1, <2>1 DEF IInv, OrderInv, Increasing, UpTo
  <2>4. UpTo(iqueue', allocated')
    BY <1>1, <2>1 DEF IInv, OrderInv, UpTo
  <2>5. Increasing(handled') /\ UpTo(handled', allocated')
    BY <1>1, <2>1 DEF IInv, OrderInv, UpTo
  <2>6. ASSUME NEW i \in DOMAIN handled', NEW j \in DOMAIN iqueue'
        PROVE  IF wpc' = "remove" THEN handled'[i] <= iqueue'[j]
                                  ELSE handled'[i] < iqueue'[j]
    <3>1. CASE j \in DOMAIN iqueue
      BY <1>1, <2>1, <2>6, <3>1 DEF IInv, OrderInv
    <3>2. CASE j = Len(iqueue) + 1
      <4>1. handled[i] <= allocated /\ handled[i] \in Int
        BY <1>1, <2>1, <2>6 DEF IInv, OrderInv, UpTo
      <4>2. QED
        BY <1>1, <2>1, <3>2, <4>1
    <3>3. QED
      BY <2>1, <2>6, <3>1, <3>2
  <2>7. QED
    BY <2>2, <2>3, <2>4, <2>5, <2>6 DEF OrderInv, Increasing, UpTo
<1>4. QED
  BY <1>2, <1>3, PushEffect
(* The message handed over is the head, older than the rest of the queue.  *)
LEMMA HandleKeeps ==
  ASSUME IInv, RunnerHandles
  PROVE  InFlightIsHead' /\ OrderInv'
<1>1. /\ iqueue \in Seq(Int) /\ handled \in Seq(Int) /\ allocated \in Int
      /\ UNCHANGED <<iqueue, cur, allocated>>
      /\ wpc = "handle" /\ wpc' = "remove" /\ handled' = Append(handled, cur)
      /\ iqueue # <<>> /\ cur = Head(iqueue)
  BY MaxMsgsAssumption
  DEF IInv, TypeOK, QueueTypeOK, RunnerHandles, WorkerMoves, InFlightIsHead,
      queueVars, Msgs
<1>2. /\ DOMAIN handled = 1..Len(handled) /\ Len(handled) \in Nat
      /\ DOMAIN handled' = 1..(Len(handled) + 1)
      /\ handled'[Len(handled) + 1] = cur
      /\ \A i \in DOMAIN handled : handled'[i] = handled[i] /\ handled[i] \in Int
  BY <1>1
<1>3. /\ 1 \in DOMAIN iqueue /\ cur = iqueue[1] /\ cur \in Int
      /\ \A j \in DOMAIN iqueue : iqueue[j] \in Int /\ j \in Nat /\ j >= 1
  BY <1>1
<1>4. InFlightIsHead'
  BY <1>1 DEF InFlightIsHead
<1>5. \A i \in DOMAIN handled : handled[i] < cur
  BY <1>1, <1>3 DEF IInv, OrderInv
<1>6. \A j \in DOMAIN iqueue : cur <= iqueue[j]
  BY <1>3 DEF IInv, OrderInv, Increasing
<1>7. Increasing(handled')
  BY <1>2, <1>3, <1>5 DEF IInv, OrderInv, Increasing
<1>8. UpTo(handled', allocated')
  BY <1>1, <1>2, <1>3 DEF IInv, OrderInv, UpTo
<1>9. ASSUME NEW i \in DOMAIN handled', NEW j \in DOMAIN iqueue'
      PROVE  handled'[i] <= iqueue'[j]
  <2>1. iqueue'[j] = iqueue[j] /\ cur <= iqueue[j] /\ iqueue[j] \in Int
    BY <1>1, <1>3, <1>6, <1>9
  <2>2. handled'[i] <= cur /\ handled'[i] \in Int
    BY <1>2, <1>3, <1>5, <1>9
  <2>3. QED
    BY <1>3, <2>1, <2>2
<1>10. QED
  BY <1>1, <1>4, <1>7, <1>8, <1>9 DEF IInv, OrderInv, Increasing, UpTo

(* What stays behind the removed head is newer than all that was handled.  *)
LEMMA RemoveKeeps ==
  ASSUME IInv, RunnerRemoves
  PROVE  InFlightIsHead' /\ OrderInv'
<1>1. /\ iqueue \in Seq(Int) /\ iqueue # <<>> /\ iqueue' = Tail(iqueue)
      /\ UNCHANGED <<handled, allocated>>
      /\ wpc = "remove" /\ wpc' = "loop"
      /\ handled \in Seq(Int)
  BY RemoveIsPop, MaxMsgsAssumption
  DEF IInv, TypeOK, QueueTypeOK, RunnerRemoves, WorkerMoves, Msgs
<1>2. /\ Len(iqueue) \in Nat /\ Len(iqueue) >= 1
      /\ DOMAIN iqueue = 1..Len(iqueue)
      /\ DOMAIN iqueue' = 1..(Len(iqueue) - 1)
      /\ \A j \in DOMAIN iqueue' : iqueue'[j] = iqueue[j + 1]
      /\ \A j \in DOMAIN iqueue : iqueue[j] \in Int
      /\ \A i \in DOMAIN handled : handled[i] \in Int
  BY <1>1
<1>3. InFlightIsHead'
  BY <1>1 DEF InFlightIsHead
<1>4. Increasing(iqueue')
  <2>1. ASSUME NEW i \in DOMAIN iqueue', NEW j \in DOMAIN iqueue', i < j
        PROVE  iqueue[i + 1] < iqueue[j + 1]
    <3>1. i + 1 \in DOMAIN iqueue /\ j + 1 \in DOMAIN iqueue /\ i + 1 < j + 1
      BY <1>2, <2>1
    <3>2. QED
      BY <3>1 DEF IInv, OrderInv, Increasing
  <2>2. QED
    BY <1>2, <2>1 DEF Increasing
<1>5. UpTo(iqueue', allocated')
  BY <1>1, <1>2 DEF IInv, OrderInv, UpTo
<1>6. ASSUME NEW i \in DOMAIN handled', NEW j \in DOMAIN iqueue'
      PROVE  handled'[i] < iqueue'[j]
  <2>1. handled[i] <= iqueue[1] /\ handled[i] \in Int /\ iqueue[1] \in Int
    <3>1. i \in DOMAIN handled /\ 1 \in DOMAIN iqueue
      BY <1>1, <1>2, <1>6
    <3>2. handled[i] <= iqueue[1]
      BY <1>1, <3>1 DEF IInv, OrderInv
    <3>3. QED
      BY <1>2, <3>1, <3>2
  <2>2. iqueue[1] < iqueue[j + 1] /\ iqueue[j + 1] \in Int
    BY <1>2, <1>6 DEF IInv, OrderInv, Increasing
  <2>3. QED
    BY <1>1, <1>2, <1>6, <2>1, <2>2
<1>7. QED
  BY <1>1, <1>3, <1>4, <1>5, <1>6 DEF IInv, OrderInv, Increasing, UpTo
-----------------------------------------------------------------------------

LEMMA InitIInv == Init => IInv
<1> SUFFICES ASSUME Init PROVE IInv
  OBVIOUS
<1>1. TypeOK
  <2>1. QueueTypeOK({Worker}, Msgs)
    <3>1. iqueue \in Seq(Msgs) /\ waiters \subseteq {Worker}
      BY DEF Init, QueueInit
    <3>2. isBlocking \in BOOLEAN /\ qIsRunning \in BOOLEAN
      BY DEF Init, QueueInit
    <3>3. QED
      BY <3>1, <3>2 DEF QueueTypeOK
  <2>2. isRunning \in BOOLEAN
    BY InitialAssumption DEF Init
  <2>3. cpc \in [Callers -> Idle \cup Stopping \cup {"launch"}]
    BY DEF Init, Idle
  <2>4. allocated \in 0..MaxMsgs /\ cur \in 0..MaxMsgs /\ handled \in Seq(Msgs)
    BY MaxMsgsAssumption DEF Init
  <2>5. joinable \in BOOLEAN /\ terminated \in BOOLEAN /\ wpc \in WorkerPcs
    BY DEF Init, WorkerPcs
  <2>6. QED
    BY <2>1, <2>2, <2>3, <2>4, <2>5 DEF TypeOK
<1>2. ThreadInv /\ InFlightIsHead /\ OrderInv
  BY DEF Init, QueueInit, ThreadInv, InFlightIsHead, OrderInv, Increasing, UpTo
<1>3. QED
  BY <1>1, <1>2 DEF IInv

LEMMA NextIInv == IInv /\ [Next]_vars => IInv'
<1> SUFFICES ASSUME IInv, [Next]_vars PROVE IInv'
  OBVIOUS
<1>1. TypeOK' /\ ThreadInv'
  BY TypeStep, ThreadStep
<1>2. InFlightIsHead' /\ OrderInv'
  BY QuietSteps, QuietKeeps, PushKeeps, HandleKeeps, RemoveKeeps DEF IInv
<1>3. QED
  BY <1>1, <1>2 DEF IInv

(* The inductive invariant of the worker and its queue.                    *)
THEOREM Inductive == Spec => []IInv
BY InitIInv, NextIInv, PTL DEF Spec

(* Type correctness: in particular the worker never hands over the default *)
(* message of an empty front() (osc_worker.cpp:62-63).                     *)
THEOREM TypeCorrect == Spec => []TypeOK
<1>1. IInv => TypeOK
  BY DEF IInv
<1>2. QED
  BY <1>1, Inductive, PTL

(* The message in flight stays at the head of the queue until it has been  *)
(* handled (osc_worker.cpp:64-72), whatever is pushed, however often the   *)
(* worker is stopped and restarted, and from however many threads.         *)
THEOREM InFlightStaysHead == Spec => []InFlightIsHead
<1>1. IInv => InFlightIsHead
  BY DEF IInv
<1>2. QED
  BY <1>1, Inductive, PTL

(* Messages are handed over at most once and in the order they were        *)
(* pushed, across stops and restarts (osc_worker.cpp:56-77).               *)
THEOREM HandledInOrderOnce == Spec => []InOrderOnce
<1>1. ASSUME IInv
      PROVE  InOrderOnce
  <2>1. /\ iqueue \in Seq(Int) /\ handled \in Seq(Int)
        /\ wpc = "remove" => iqueue # <<>>
    BY <1>1, MaxMsgsAssumption
    DEF IInv, TypeOK, QueueTypeOK, InFlightIsHead, Msgs
  <2>2. /\ Pending \in Seq(Int)
        /\ \A i, j \in 1..Len(Pending) : i < j => Pending[i] < Pending[j]
        /\ \A i \in 1..Len(handled), j \in 1..Len(Pending) :
             handled[i] < Pending[j]
    <3>1. CASE wpc # "remove"
      BY <1>1, <2>1, <3>1 DEF IInv, OrderInv, Increasing, Pending
    <3>2. CASE wpc = "remove"
      <4>1. /\ Pending = Tail(iqueue) /\ Pending \in Seq(Int)
            /\ Len(iqueue) \in Nat /\ Len(iqueue) >= 1
            /\ DOMAIN iqueue = 1..Len(iqueue) /\ DOMAIN handled = 1..Len(handled)
            /\ Len(Pending) = Len(iqueue) - 1
            /\ \A j \in 1..Len(Pending) : Pending[j] = iqueue[j + 1]
            /\ \A j \in 1..Len(iqueue) : iqueue[j] \in Int
            /\ \A i \in 1..Len(handled) : handled[i] \in Int
        BY <2>1, <3>2 DEF Pending
      <4>2. ASSUME NEW i \in 1..Len(Pending), NEW j \in 1..Len(Pending), i < j
            PROVE  Pending[i] < Pending[j]
        <5>1. i + 1 \in DOMAIN iqueue /\ j + 1 \in DOMAIN iqueue /\ i + 1 < j + 1
          BY <4>1, <4>2
        <5>2. iqueue[i + 1] < iqueue[j + 1]
          BY <1>1, <5>1 DEF IInv, OrderInv, Increasing
        <5>3. QED
          BY <4>1, <4>2, <5>2
      <4>3. ASSUME NEW i \in 1..Len(handled), NEW j \in 1..Len(Pending)
            PROVE  handled[i] < Pending[j]
        <5>1. /\ i \in DOMAIN handled
              /\ 1 \in DOMAIN iqueue /\ j + 1 \in DOMAIN iqueue /\ 1 < j + 1
          BY <4>1, <4>3
        <5>2. handled[i] <= iqueue[1]
          BY <1>1, <3>2, <5>1 DEF IInv, OrderInv
        <5>3. iqueue[1] < iqueue[j + 1]
          BY <1>1, <5>1 DEF IInv, OrderInv, Increasing
        <5>4. QED
          BY <4>1, <4>3, <5>1, <5>2, <5>3
      <4>4. QED
        BY <4>1, <4>2, <4>3
    <3>3. QED
      BY <3>1, <3>2
  <2>3. \A i, j \in 1..Len(handled) : i < j => handled[i] < handled[j]
    BY <1>1, <2>1 DEF IInv, OrderInv, Increasing
  <2> DEFINE all == handled \o Pending
  <2>4. /\ Len(all) = Len(handled) + Len(Pending)
        /\ \A i \in 1..Len(all) : all[i] = IF i <= Len(handled) THEN handled[i]
                                           ELSE Pending[i - Len(handled)]
    BY <2>1, <2>2, ConcatProperties
  <2>5. Len(handled) \in Nat /\ Len(Pending) \in Nat
    BY <2>1, <2>2
  <2> HIDE DEF all
  <2>6. ASSUME NEW i \in 1..Len(all), NEW j \in 1..Len(all), i < j
        PROVE  all[i] < all[j]
    <3>1. CASE j <= Len(handled)
      BY <2>3, <2>4, <2>5, <2>6, <3>1
    <3>2. CASE i > Len(handled)
      <4>1. /\ i - Len(handled) \in 1..Len(Pending)
            /\ j - Len(handled) \in 1..Len(Pending)
            /\ i - Len(handled) < j - Len(handled)
            /\ ~(i <= Len(handled)) /\ ~(j <= Len(handled))
        BY <2>4, <2>5, <2>6, <3>2
      <4>2. all[i] = Pending[i - Len(handled)] /\ all[j] = Pending[j - Len(handled)]
        BY <2>4, <2>6, <4>1
      <4>3. QED
        BY <2>2, <4>1, <4>2
    <3>3. CASE i <= Len(handled) /\ j > Len(handled)
      BY <2>2, <2>4, <2>5, <2>6, <3>3
    <3>4. QED
      BY <2>4, <2>5, <2>6, <3>1, <3>2, <3>3
  <2>7. QED
    BY <2>6 DEF InOrderOnce, all
<1>2. QED
  BY <1>1, Inductive, PTL
-----------------------------------------------------------------------------
(* Refinement, step by step: a push is an Offer, the hand-over is a        *)
(* Deliver, and every other step - the remove included - leaves what the   *)
(* channel holds unchanged.                                                *)

LEMMA QuietRefines ==
  ASSUME Quiet
  PROVE  UNCHANGED <<Pending, handled, allocated>>
BY DEF Quiet, Pending

LEMMA PushRefines ==
  ASSUME IInv, PushMsg
  PROVE  Fifo!Offer
<1>1. /\ iqueue \in Seq(Msgs) /\ allocated' \in Msgs
      /\ wpc = "remove" => iqueue # <<>>
      /\ UNCHANGED <<handled, wpc>> /\ allocated' = allocated + 1
  BY MaxMsgsAssumption
  DEF IInv, TypeOK, QueueTypeOK, InFlightIsHead, PushMsg, Msgs
<1>2. Pending' = Pending \/ Pending' = Append(Pending, allocated')
  <2>1. CASE iqueue' = iqueue
    BY <1>1, <2>1 DEF Pending
  <2>2. CASE iqueue' = Append(iqueue, allocated')
    <3>1. CASE wpc # "remove"
      BY <1>1, <2>2, <3>1 DEF Pending
    <3>2. CASE wpc = "remove"
      <4>1. Tail(Append(iqueue, allocated')) = Append(Tail(iqueue), allocated')
        BY <1>1, <3>2, HeadTailAppend
      <4>2. QED
        BY <1>1, <2>2, <3>2, <4>1 DEF Pending
    <3>3. QED
      BY <3>1, <3>2
  <2>3. QED
    BY <2>1, <2>2, PushEffect
<1>3. QED
  BY <1>1, <1>2 DEF Fifo!Offer

LEMMA HandleRefines ==
  ASSUME IInv, RunnerHandles
  PROVE  Fifo!Deliver
<1>1. /\ UNCHANGED <<iqueue, allocated>>
      /\ wpc = "handle" /\ wpc' = "remove" /\ handled' = Append(handled, cur)
      /\ iqueue # <<>> /\ cur = Head(iqueue)
  BY DEF IInv, RunnerHandles, WorkerMoves, InFlightIsHead, queueVars
<1>2. QED
  BY <1>1 DEF Fifo!Deliver, Pending

LEMMA RemoveRefines ==
  ASSUME IInv, RunnerRemoves
  PROVE  UNCHANGED <<Pending, handled, allocated>>
<1>1. /\ UNCHANGED <<handled, allocated>> /\ wpc = "remove" /\ wpc' = "loop"
      /\ iqueue' = Tail(iqueue)
  BY RemoveIsPop DEF IInv, RunnerRemoves, WorkerMoves
<1>2. QED
  BY <1>1 DEF Pending

(* The queue with its worker is a channel that drops a message only when   *)
(* it is offered, never afterwards, and delivers the rest once, in order.  *)
THEOREM ImplementsFifoChannel == Spec => FifoChannelSpec
<1>1. Init => Fifo!FifoInit
  BY DEF Init, QueueInit, Fifo!FifoInit, Pending
<1>2. IInv /\ [Next]_vars => [Fifo!FifoNext]_(Fifo!fifoVars)
  <2> SUFFICES ASSUME IInv, [Next]_vars
               PROVE  [Fifo!FifoNext]_(Fifo!fifoVars)
    OBVIOUS
  <2>1. CASE Quiet \/ RunnerRemoves
    BY <2>1, QuietRefines, RemoveRefines DEF Fifo!fifoVars
  <2>2. CASE PushMsg \/ RunnerHandles
    BY <2>2, PushRefines, HandleRefines DEF Fifo!FifoNext
  <2>3. QED
    BY <2>1, <2>2, QuietSteps DEF IInv
<1>3. QED
  BY <1>1, <1>2, Inductive, PTL DEF Spec, FifoChannelSpec, Fifo!FifoSpec
-----------------------------------------------------------------------------
(* run() and stop() keep their promises to a thread that makes all of the  *)
(* calls, whatever isRunning is before the first of them; with two such    *)
(* threads TLC refutes these properties.                                   *)

(* Between calls a thread means that isRunning is set - the converse fails *)
(* for an uninitialised isRunning, but only until the first stop(); run()  *)
(* is about to launch only when there is no thread.                        *)
ControlInv ==
  \A c \in Callers : Alone(c) =>
    /\ cpc[c] \in Idle => (joinable => isRunning)
    /\ cpc[c] = "launch" => isRunning /\ ~joinable
    /\ cpc[c] \in Stopping \cup {"stopped"} => ~isRunning
    /\ ~terminated

LInv == IInv /\ ControlInv

CallerActs(c) == RunExchange(c) \/ StopExchange(c) \/ CallerStep(c)

(* The steps that neither take part in run() or stop() nor change what     *)
(* those calls depend on.                                                  *)
LEMMA OtherSteps ==
  ASSUME [Next]_vars
  PROVE  \/ UNCHANGED <<cpc, isRunning, joinable, terminated>>
         \/ \E c \in Callers : CallerActs(c)
<1>1. CASE UNCHANGED vars
  BY <1>1 DEF vars
<1>2. CASE PushMsg
  BY <1>2 DEF PushMsg
<1>3. CASE RunnerStep \/ RunnerWakes
  BY <1>3 DEF RunnerStep, RunnerEnable, RunnerEnableWait, RunnerLoop,
              RunnerBlocks, RunnerWakes, RunnerTakesHead, RunnerFindsNothing,
              RunnerHandles, RunnerRemoves, WorkerMoves
<1>4. QED
  BY <1>1, <1>2, <1>3 DEF Next, CallerActs

(* A call moves its own caller, and never back to where it has made none.  *)
LEMMA CallerMovesItself ==
  ASSUME TypeOK, NEW c \in Callers, CallerActs(c)
  PROVE  cpc'[c] # "new" /\ \A d \in Callers \ {c} : cpc'[d] = cpc[d]
<1>1. DOMAIN cpc = Callers
  BY DEF TypeOK
<1> USE DEF CallerMoves
<1>2. CASE RunExchange(c) \/ StopExchange(c)
  BY <1>1, <1>2 DEF RunExchange, StopExchange
<1>3. CASE CallerStep(c)
  BY <1>1, <1>3 DEF CallerStep, Launch, StopDisableWait, StopDisable, StopJoin
<1>4. QED
  BY <1>2, <1>3 DEF CallerActs

(* What another caller does ends the time in which c was alone, so that    *)
(* only the calls of c itself have to keep the invariant for c.            *)
LEMMA ControlStep ==
  ASSUME LInv, [Next]_vars
  PROVE  ControlInv'
<1> USE DEF LInv, ControlInv, Alone
<1>1. CASE UNCHANGED <<cpc, isRunning, joinable, terminated>>
  BY <1>1
<1>2. ASSUME NEW c \in Callers, CallerActs(c),
             NEW e \in Callers, Alone(e)'
      PROVE  /\ cpc'[e] \in Idle => (joinable' => isRunning')
             /\ cpc'[e] = "launch" => isRunning' /\ ~joinable'
             /\ cpc'[e] \in Stopping \cup {"stopped"} => ~isRunning'
             /\ ~terminated'
  <2>1. DOMAIN cpc = Callers /\ isRunning \in BOOLEAN /\ joinable \in BOOLEAN
    BY DEF IInv, TypeOK
  <2>2. cpc'[c] # "new" /\ \A d \in Callers \ {c} : cpc'[d] = cpc[d]
    BY <1>2, CallerMovesItself DEF IInv
  <2>3. e = c /\ Alone(c)
    BY <1>2, <2>2
  <2> USE DEF CallerMoves, Idle, Stopping
  <2>4. CASE RunExchange(c)
    BY <2>1, <2>3, <2>4 DEF RunExchange
  <2>5. CASE StopExchange(c)
    BY <2>1, <2>3, <2>5 DEF StopExchange
  <2>6. CASE Launch(c)
    BY <2>1, <2>3, <2>6 DEF Launch
  <2>7. CASE StopDisableWait(c)
    BY <2>1, <2>3, <2>7 DEF StopDisableWait
  <2>8. CASE StopDisable(c)
    BY <2>1, <2>3, <2>8 DEF StopDisable
  <2>9. CASE StopJoin(c)
    BY <2>1, <2>3, <2>9 DEF StopJoin
  <2>10. QED
    BY <1>2, <2>4, <2>5, <2>6, <2>7, <2>8, <2>9 DEF CallerStep, CallerActs
<1>3. QED
  BY <1>1, <1>2, OtherSteps

LEMMA Control == Spec => []LInv
<1>1. Init => LInv
  <2> SUFFICES ASSUME Init PROVE LInv
    OBVIOUS
  <2>1. ControlInv
    BY DEF Init, ControlInv, Idle, Stopping
  <2>2. QED
    BY <2>1, InitIInv DEF LInv
<1>2. LInv /\ [Next]_vars => LInv'
  BY NextIInv, ControlStep DEF LInv
<1>3. QED
  BY <1>1, <1>2, PTL DEF Spec

(* No sequence of run() and stop() of one thread assigns to a std::thread  *)
(* that has not been joined (osc_worker.cpp:33-51).                        *)
THEOREM OneControllerNeverTerminates == Spec => []NeverTerminates
<1>1. LInv => NeverTerminates
  BY DEF LInv, ControlInv, NeverTerminates, OneController
<1>2. QED
  BY <1>1, Control, PTL

(* When a stop() of the one controlling thread returns, the worker thread  *)
(* is gone, and when a run() does, there is one, unless it is the first    *)
(* call of all (osc_worker.cpp:29-51).                                     *)
THEOREM OneControllerCalls == Spec => CallsKeepTheirWord
<1> DEFINE A == \A c \in Callers : Alone(c) /\ cpc'[c] # cpc[c] =>
                  /\ cpc'[c] = "ran" => wpc' # "none" \/ cpc[c] = "new"
                  /\ cpc'[c] = "stopped" => wpc' = "none"
<1>1. LInv /\ [Next]_vars => [A]_vars
  <2> SUFFICES ASSUME LInv, [Next]_vars, NEW c \in Callers, Alone(c),
                      cpc'[c] # cpc[c]
               PROVE  /\ cpc'[c] = "ran" => wpc' # "none" \/ cpc[c] = "new"
                      /\ cpc'[c] = "stopped" => wpc' = "none"
    OBVIOUS
  <2>1. CallerActs(c)
    BY OtherSteps, CallerMovesItself DEF LInv, IInv
  <2>2. DOMAIN cpc = Callers /\ (joinable <=> wpc # "none")
    BY DEF LInv, IInv, TypeOK, ThreadInv
  <2> USE DEF CallerMoves, Idle, Stopping
  <2>3. CASE RunExchange(c)
    BY <2>2, <2>3 DEF RunExchange, LInv, ControlInv
  <2>4. CASE Launch(c)
    BY <2>2, <2>4 DEF Launch, LInv, ControlInv
  <2>5. CASE StopExchange(c)
    BY <2>2, <2>5 DEF StopExchange, LInv, ControlInv
  <2>6. CASE StopJoin(c)
    BY <2>2, <2>6 DEF StopJoin
  <2>7. CASE StopDisableWait(c) \/ StopDisable(c)
    BY <2>2, <2>7 DEF StopDisableWait, StopDisable
  <2>8. QED
    BY <2>1, <2>3, <2>4, <2>5, <2>6, <2>7 DEF CallerActs, CallerStep
<1>2. QED
  BY <1>1, Control, PTL DEF Spec, CallsKeepTheirWord

(* Once the worker thread has enabled its queue, only a stop() that has    *)
(* cleared isRunning first disables it again.                              *)
Serving == {"enableWait", "loop", "front", "handle", "remove"}

ServeInv ==
  OneController /\ wpc \in Serving /\ isRunning => qIsRunning

(* The controlling thread's calls: stop() disables the queue when          *)
(* isRunning is false already, and run() sets isRunning only when there is *)
(* no thread.                                                              *)
LEMMA ServeCallerStep ==
  ASSUME LInv, ServeInv, NEW c \in Callers, CallerActs(c)
  PROVE  ServeInv'
<1> SUFFICES ASSUME NEW e \in Callers, Alone(e)', wpc' \in Serving, isRunning'
             PROVE  qIsRunning'
  BY DEF ServeInv, OneController
<1>1. cpc'[c] # "new" /\ \A d \in Callers \ {c} : cpc'[d] = cpc[d]
  BY CallerMovesItself DEF LInv, IInv
<1>2. Alone(c)
  BY <1>1 DEF Alone
<1>3. /\ wpc \in Serving /\ isRunning => qIsRunning
      /\ cpc[c] \in Stopping => ~isRunning
      /\ cpc[c] \in Idle => (joinable => isRunning)
      /\ joinable <=> wpc # "none"
  BY <1>2 DEF ServeInv, OneController, LInv, ControlInv, IInv, ThreadInv
<1> USE DEF CallerMoves, Idle, Stopping, Serving
<1>4. CASE RunExchange(c)
  BY <1>3, <1>4 DEF RunExchange, queueVars
<1>5. CASE StopExchange(c)
  BY <1>5 DEF StopExchange
<1>6. CASE Launch(c)
  BY <1>3, <1>6 DEF Launch, queueVars
<1>7. CASE StopDisableWait(c) \/ StopDisable(c)
  BY <1>3, <1>7 DEF StopDisableWait, StopDisable
<1>8. CASE StopJoin(c)
  BY <1>3, <1>8 DEF StopJoin, queueVars
<1>9. QED
  BY <1>4, <1>5, <1>6, <1>7, <1>8 DEF CallerActs, CallerStep

(* The other steps: the worker's enable() comes before all else it does.   *)
LEMMA ServeOtherStep ==
  ASSUME EnablesQueue, ServeInv, PushMsg \/ RunnerStep \/ RunnerWakes
  PROVE  ServeInv'
<1> SUFFICES ASSUME OneController', wpc' \in Serving, isRunning'
             PROVE  qIsRunning'
  BY DEF ServeInv
<1>1. UNCHANGED <<cpc, isRunning>>
  BY DEF PushMsg, RunnerStep, RunnerEnable, RunnerEnableWait, RunnerLoop,
         RunnerBlocks, RunnerWakes, RunnerTakesHead, RunnerFindsNothing,
         RunnerHandles, RunnerRemoves, WorkerMoves
<1>2. wpc \in Serving => qIsRunning
  BY <1>1 DEF ServeInv, OneController, Alone
<1> USE DEF Serving, WorkerMoves
<1>3. CASE PushMsg
  BY <1>2, <1>3 DEF PushMsg, Push, Insert
<1>4. CASE RunnerEnable
  BY <1>4 DEF RunnerEnable, Enable
<1>5. CASE RunnerEnableWait \/ RunnerLoop
  BY <1>2, <1>5 DEF RunnerEnableWait, RunnerLoop, EnableWait, queueVars
<1>6. CASE RunnerBlocks \/ RunnerWakes
  <2>1. wpc' = wpc /\ qIsRunning' = qIsRunning
    BY <1>6 DEF RunnerBlocks, RunnerWakes, FrontBlocks, SpuriousWakeup
  <2>2. QED
    BY <1>2, <2>1
<1>7. CASE RunnerTakesHead \/ RunnerFindsNothing
  BY <1>2, <1>7 DEF RunnerTakesHead, RunnerFindsNothing, FrontReturns, queueVars
<1>8. CASE RunnerHandles \/ RunnerRemoves
  BY <1>2, <1>8 DEF RunnerHandles, RunnerRemoves, RemoveAll, queueVars
<1>9. QED
  BY <1>3, <1>4, <1>5, <1>6, <1>7, <1>8 DEF RunnerStep

(* A worker that enables its queue serves one that accepts, until the one  *)
(* controlling thread asks it to stop (osc_worker.cpp:58).                 *)
THEOREM OneControllerServingAccepts ==
  ASSUME EnablesQueue
  PROVE  Spec => []ServingAccepts
<1>1. Init => ServeInv
  BY DEF Init, ServeInv, Serving
<1>2. LInv /\ ServeInv /\ [Next]_vars => ServeInv'
  <2> SUFFICES ASSUME LInv, ServeInv, [Next]_vars PROVE ServeInv'
    OBVIOUS
  <2>1. CASE UNCHANGED vars
    BY <2>1 DEF vars, queueVars, ServeInv, OneController, Alone
  <2>2. CASE PushMsg \/ RunnerStep \/ RunnerWakes
    BY <2>2, ServeOtherStep
  <2>3. CASE \E c \in Callers : CallerActs(c)
    BY <2>3, ServeCallerStep
  <2>4. QED
    BY <2>1, <2>2, <2>3 DEF Next, CallerActs
<1>3. ServeInv => ServingAccepts
  BY DEF ServeInv, ServingAccepts, Serving
<1>4. QED
  BY <1>1, <1>2, <1>3, Control, PTL DEF Spec
-----------------------------------------------------------------------------
(* Sleep and wakeup, however many threads call run() and stop().           *)

(* Whoever calls, no wakeup is missed: the worker is among the waiters     *)
(* only inside front(), and as long as what it found there holds.          *)
WakeInv ==
  Worker \in waiters => wpc = "front" /\ iqueue = <<>> /\ isBlocking

(* In front(), a worker that may sleep although it has been told to stop   *)
(* is about to be woken: the last stop() to clear isRunning did so after   *)
(* the loop test that let the worker in, and has yet to turn waiting off.  *)
WokenInv ==
  wpc = "front" /\ isBlocking /\ ~isRunning =>
    \E c \in Callers : cpc[c] = "disableWait"

SInv == IInv /\ WakeInv /\ WokenInv

LEMMA WakeStep ==
  ASSUME IInv, WakeInv, [Next]_vars
  PROVE  WakeInv'
<1> SUFFICES ASSUME Worker \in waiters'
             PROVE  wpc' = "front" /\ iqueue' = <<>> /\ isBlocking'
  BY DEF WakeInv
<1> USE DEF WakeInv
<1>1. CASE UNCHANGED vars
  BY <1>1 DEF vars
<1>2. CASE PushMsg
  <2>1. waiters' = {} \/ UNCHANGED <<iqueue, waiters>>
    BY <1>2 DEF PushMsg, Push, Insert, NotifyAll
  <2>2. UNCHANGED <<isBlocking, wpc>>
    BY <1>2 DEF PushMsg, Push, Insert
  <2>3. QED
    BY <2>1, <2>2
<1>3. ASSUME NEW c \in Callers, CallerActs(c)
      PROVE  wpc' = "front" /\ iqueue' = <<>> /\ isBlocking'
  <2>1. CASE RunExchange(c) \/ StopExchange(c)
    BY <2>1 DEF RunExchange, StopExchange, queueVars
  <2>2. CASE Launch(c)
    <3>1. UNCHANGED <<iqueue, isBlocking, waiters>> /\ wpc = "front"
      BY <2>2 DEF Launch, queueVars
    <3>2. joinable
      BY <3>1 DEF IInv, ThreadInv
    <3>3. wpc' = wpc
      BY <2>2, <3>2 DEF Launch
    <3>4. QED
      BY <3>1, <3>3
  <2>3. CASE StopDisableWait(c)
    BY <2>3 DEF StopDisableWait, DisableWait, NotifyAll
  <2>4. CASE StopDisable(c)
    BY <2>4 DEF StopDisable, Enable
  <2>5. CASE StopJoin(c)
    <3>1. UNCHANGED <<iqueue, isBlocking, waiters>> /\ wpc = "front"
      BY <2>5 DEF StopJoin, queueVars
    <3>2. wpc' = wpc
      BY <2>5, <3>1 DEF StopJoin
    <3>3. QED
      BY <3>1, <3>2
  <2>6. QED
    BY <1>3, <2>1, <2>2, <2>3, <2>4, <2>5 DEF CallerActs, CallerStep
<1>4. CASE RunnerBlocks
  <2>1. iqueue = <<>> /\ isBlocking
    BY <1>4 DEF RunnerBlocks, FrontBlocks, WaitOver
  <2>2. QED
    BY <1>4, <2>1 DEF RunnerBlocks, FrontBlocks, WorkerMoves
<1>5. CASE RunnerWakes
  BY <1>5 DEF RunnerWakes, SpuriousWakeup
<1>6. CASE RunnerTakesHead \/ RunnerFindsNothing
  BY <1>6 DEF RunnerTakesHead, RunnerFindsNothing, FrontReturns, queueVars
<1>7. CASE RunnerEnable \/ RunnerEnableWait \/ RunnerLoop
           \/ RunnerHandles \/ RunnerRemoves
  <2>1. wpc # "front" /\ waiters' = waiters
    BY <1>7 DEF RunnerEnable, RunnerEnableWait, RunnerLoop, RunnerHandles,
                RunnerRemoves, WorkerMoves, Enable, EnableWait, RemoveAll,
                queueVars
  <2>2. QED
    BY <2>1
<1>8. QED
  BY <1>1, <1>2, <1>3, <1>4, <1>5, <1>6, <1>7 DEF Next, RunnerStep, CallerActs

(* A push wakes the worker and so does a stop(), from however many threads *)
(* and with whatever initial isRunning (locked/queue.h:23-79).             *)
THEOREM NoWakeupIsMissed == Spec => []NoWakeupMissed
<1>1. Init => WakeInv
  BY DEF Init, QueueInit, WakeInv
<1>2. WakeInv => NoWakeupMissed
  BY DEF WakeInv, NoWakeupMissed
<1>3. QED
  BY <1>1, <1>2, WakeStep, Inductive, PTL DEF Spec

(* The loop test lets the worker in only while isRunning is true, and no   *)
(* stop() between its exchange(false) and its disableWait() is over.       *)
LEMMA WokenStep ==
  ASSUME IInv, WokenInv, [Next]_vars
  PROVE  WokenInv'
<1> SUFFICES ASSUME wpc' = "front", isBlocking', ~isRunning'
             PROVE  \E c \in Callers : cpc'[c] = "disableWait"
  BY DEF WokenInv
<1>1. ASSUME UNCHANGED <<cpc, isRunning>>, wpc = "front", isBlocking
      PROVE  \E c \in Callers : cpc'[c] = "disableWait"
  BY <1>1 DEF WokenInv
<1>2. CASE UNCHANGED vars
  BY <1>1, <1>2 DEF vars, queueVars
<1>3. CASE PushMsg
  BY <1>1, <1>3 DEF PushMsg, Push, Insert
<1>4. CASE RunnerBlocks \/ RunnerWakes
  BY <1>1, <1>4 DEF RunnerBlocks, RunnerWakes, WorkerMoves, FrontBlocks,
                    SpuriousWakeup
<1>5. CASE \/ RunnerEnable \/ RunnerEnableWait \/ RunnerLoop
           \/ RunnerTakesHead \/ RunnerFindsNothing \/ RunnerHandles
           \/ RunnerRemoves
  BY <1>5 DEF RunnerEnable, RunnerEnableWait, RunnerLoop, RunnerTakesHead,
              RunnerFindsNothing, RunnerHandles, RunnerRemoves, WorkerMoves
<1>6. ASSUME NEW e \in Callers, CallerActs(e)
      PROVE  \E c \in Callers : cpc'[c] = "disableWait"
  <2>1. \A d \in Callers \ {e} : cpc'[d] = cpc[d]
    BY <1>6, CallerMovesItself DEF IInv
  <2>2. CASE cpc[e] # "disableWait" /\ wpc = "front" /\ isBlocking /\ ~isRunning
    BY <2>1, <2>2 DEF WokenInv
  <2>3. CASE RunExchange(e)
    BY <2>3 DEF RunExchange
  <2>4. CASE StopExchange(e)
    <3>1. wpc = "front" /\ isBlocking /\ cpc[e] \in Idle
      BY <2>4 DEF StopExchange, CallerMoves, queueVars
    <3>2. CASE isRunning
      BY <2>4, <3>2 DEF StopExchange, CallerMoves, IInv, TypeOK
    <3>3. CASE ~isRunning
      BY <2>2, <3>1, <3>3 DEF Idle
    <3>4. QED
      BY <3>2, <3>3
  <2>5. CASE Launch(e)
    BY <2>2, <2>5 DEF Launch, CallerMoves, queueVars
  <2>6. CASE StopDisableWait(e)
    BY <2>6 DEF StopDisableWait, DisableWait
  <2>7. CASE StopDisable(e)
    BY <2>2, <2>7 DEF StopDisable, CallerMoves, Enable
  <2>8. CASE StopJoin(e)
    BY <2>2, <2>8 DEF StopJoin, CallerMoves, queueVars
  <2>9. QED
    BY <1>6, <2>3, <2>4, <2>5, <2>6, <2>7, <2>8 DEF CallerActs, CallerStep
<1>7. QED
  BY <1>2, <1>3, <1>4, <1>5, <1>6 DEF Next, RunnerStep, CallerActs

(* A worker that has been told to stop is asleep only while a stop() is    *)
(* about to wake it: with any number of callers and whatever isRunning is  *)
(* before the first call (osc_worker.cpp:46-60).                           *)
THEOREM SleeperIsWoken == Spec => []ToldToStopIsWoken
<1>1. Init => SInv
  BY InitIInv DEF Init, QueueInit, WakeInv, WokenInv, SInv
<1>2. SInv /\ [Next]_vars => SInv'
  BY NextIInv, WakeStep, WokenStep DEF SInv
<1>3. SInv => ToldToStopIsWoken
  BY DEF SInv, WakeInv, WokenInv, ToldToStopIsWoken
<1>4. QED
  BY <1>1, <1>2, <1>3, PTL DEF Spec
=============================================================================
