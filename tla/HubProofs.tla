----------------------------- MODULE HubProofs -----------------------------
(***************************************************************************)
(* Theorems about Hub for every number of io threads, every bound, and     *)
(* every initial value of the worker's uninitialised isRunning: what run() *)
(* leaves behind, and that the hub implements OscServer and QueueWorker.   *)
(***************************************************************************)
EXTENDS Hub, TLAPS

(* While XypiHub::stop() has not come to the worker, isRunning holds from  *)
(* the time that run() has started it until run() stops it, so that the    *)
(* stop() in run() is the one that joins.                                  *)
OnlyRunControls ==
  cpc[stopper] = "new" =>
    /\ cpc[main] \in {"new", "launch", "stopped"} => ~joinable
    /\ cpc[main] \in {"launch", "ran"} => isRunning

IInv ==
  /\ cpc \in [{main, stopper} -> W!Idle \cup W!Stopping \cup {"launch"}]
  /\ joinable <=> wpc # "none"
  /\ hubPc = "returned" => cpc[main] = "stopped"
  /\ OnlyRunControls
  /\ cpc[main] \in {"new", "launch"} => ~joinable

(* What the io threads, the producers and the worker leave alone.          *)
Control == <<cpc, isRunning, joinable, hubPc>>

-----------------------------------------------------------------------------

LEMMA InitInv == Init => IInv
<1> SUFFICES ASSUME Init PROVE IInv
  OBVIOUS
<1>1. cpc = [c \in {main, stopper} |-> "new"] /\ wpc = "none" /\ hubPc = "running"
  BY DEF Init, O!Init, W!Init
<1>2. joinable = FALSE
  BY DEF Init, W!Init
<1>3. QED
  BY <1>1, <1>2 DEF IInv, OnlyRunControls, W!Idle

LEMMA ControlStays ==
  ASSUME IInv, UNCHANGED Control, wpc' = "none" <=> wpc = "none"
  PROVE  IInv'
BY DEF IInv, Control, OnlyRunControls

LEMMA IoKeepsControl ==
  ASSUME NEW t \in IoThreads, O!ThreadStep(t)
  PROVE  UNCHANGED hubPc
BY DEF O!ThreadStep, O!HandleOscSignal, O!HandleWsSignal, O!HandleCancel,
       O!HandleSent, O!RecvAborted, O!RecvSkips, O!RecvPacket, O!Parse,
       O!ParseThrows, O!Answer, O!StartReceive, O!ThreadReturns, O!Takes,
       O!Moves

LEMMA WorkerKeepsControl ==
  ASSUME WorkerStep \/ PushMsg \/ WorkerWakes
  PROVE  UNCHANGED Control /\ (wpc' = "none" <=> wpc = "none")
<1> USE DEF Control, workerKeeps, serverVars, W!WorkerMoves
<1>1. CASE WorkerSends \/ WorkerSendsNothing
  BY <1>1 DEF WorkerSends, WorkerSendsNothing, W!RunnerHandles, O!WorkerSends
<1>2. CASE PushMsg
  BY <1>2 DEF PushMsg, W!PushMsg
<1>3. CASE WorkerWakes
  BY <1>3 DEF WorkerWakes, W!RunnerWakes
<1>4. CASE WorkerStep /\ ~WorkerSends /\ ~WorkerSendsNothing
  BY <1>4 DEF WorkerStep, W!RunnerEnable, W!RunnerEnableWait, W!RunnerLoop,
              W!RunnerBlocks, W!RunnerTakesHead, W!RunnerFindsNothing,
              W!RunnerRemoves
<1>5. QED
  BY <1>1, <1>2, <1>3, <1>4

(* What one step of a stop() of the worker does, whoever makes it: the     *)
(* last one leaves no thread to join.                                      *)
LEMMA StopAdvances ==
  ASSUME IInv, NEW c \in {main, stopper}, StopsWorker(c)
  PROVE  /\ UNCHANGED <<isRunning, hubPc>>
         /\ cpc[c] \in W!Stopping
         /\ joinable' <=> wpc' # "none"
         /\ cpc'[c] = "stopped" => ~joinable'
         /\ ~joinable => ~joinable'
         /\ \E to \in W!Stopping \cup {"stopped"} :
              cpc' = [cpc EXCEPT ![c] = to]
<1> USE DEF W!CallerMoves, W!Stopping, workerKeeps, serverVars
<1>1. CASE W!StopDisableWait(c) /\ UNCHANGED workerKeeps
  <2>1. PICK to \in {"disable", "join"} : cpc' = [cpc EXCEPT ![c] = to]
    BY <1>1 DEF W!StopDisableWait
  <2>2. cpc'[c] = to
    BY <2>1 DEF IInv
  <2>3. UNCHANGED <<isRunning, joinable, wpc, hubPc>> /\ cpc[c] = "disableWait"
    BY <1>1 DEF W!StopDisableWait
  <2>4. joinable' <=> wpc' # "none"
    BY <2>3 DEF IInv
  <2>5. ~joinable => ~joinable'
    BY <2>3
  <2>6. to # "stopped" /\ to \in W!Stopping
    BY <2>1
  <2>7. QED
    BY <2>1, <2>2, <2>3, <2>4, <2>5, <2>6
<1>2. CASE W!StopDisable(c) /\ UNCHANGED workerKeeps
  <2>1. cpc' = [cpc EXCEPT ![c] = "join"] /\ cpc[c] = "disable"
    BY <1>2 DEF W!StopDisable
  <2>2. cpc'[c] = "join"
    BY <2>1 DEF IInv
  <2>3. UNCHANGED <<isRunning, joinable, wpc, hubPc>>
    BY <1>2 DEF W!StopDisable
  <2>4. joinable' <=> wpc' # "none"
    BY <2>3 DEF IInv
  <2>5. ~joinable => ~joinable'
    BY <2>3
  <2>6. QED
    BY <2>1, <2>2, <2>3, <2>4, <2>5
<1>3. CASE W!StopJoin(c) /\ UNCHANGED workerKeeps
  <2>1. cpc' = [cpc EXCEPT ![c] = "stopped"] /\ cpc[c] = "join"
    BY <1>3 DEF W!StopJoin
  <2>2. UNCHANGED <<isRunning, hubPc>>
    BY <1>3 DEF W!StopJoin
  <2>3. ~joinable' /\ wpc' = "none"
    BY <1>3 DEF W!StopJoin, IInv
  <2>4. QED
    BY <2>1, <2>2, <2>3
<1>4. QED
  BY <1>1, <1>2, <1>3 DEF StopsWorker

LEMMA RunSteps ==
  ASSUME IInv,
         RunStartsWorker \/ HubStep
  PROVE  IInv'
<1> USE CallersAssumption
    DEF IInv, OnlyRunControls, W!CallerMoves, W!Idle, W!Stopping,
        workerKeeps, serverVars
<1>1. CASE cpc[main] = "new" /\ W!RunExchange(main) /\ UNCHANGED workerKeeps
  BY <1>1 DEF W!RunExchange
<1>2. CASE W!Launch(main) /\ UNCHANGED workerKeeps
  BY <1>2 DEF W!Launch
<1>3. CASE RunJoins
  BY <1>3 DEF RunJoins, serverKeeps, workerVars, O!HubJoins
<1>4. CASE RunStopsWorker
  <2>1. cpc[main] = "ran" /\ hubPc = "stopping" /\ hubPc' = hubPc
    BY <1>4 DEF RunStopsWorker
  <2>2. UNCHANGED <<joinable, wpc>>
    BY <1>4 DEF RunStopsWorker, W!StopExchange
  <2>3. cpc[stopper] = "new" => isRunning
    BY <2>1
  <2>4. cpc' = [cpc EXCEPT ![main] = IF isRunning THEN "disableWait"
                                                   ELSE "stopped"]
    BY <1>4 DEF RunStopsWorker, W!StopExchange
  <2>5. CASE isRunning
    <3>1. cpc' = [cpc EXCEPT ![main] = "disableWait"]
      BY <2>4, <2>5
    <3>2. QED
      BY <2>1, <2>2, <3>1
  <2>6. CASE ~isRunning
    <3>1. cpc' = [cpc EXCEPT ![main] = "stopped"] /\ cpc[stopper] # "new"
      BY <2>3, <2>4, <2>6
    <3>2. QED
      BY <2>1, <2>2, <3>1
  <2>7. QED
    BY <2>5, <2>6
<1>5. CASE StopsWorker(main)
  <2>1. PICK to \in W!Stopping \cup {"stopped"} :
          cpc' = [cpc EXCEPT ![main] = to]
    BY <1>5, StopAdvances
  <2>2. /\ UNCHANGED <<isRunning, hubPc>>
        /\ cpc[main] \in W!Stopping
        /\ joinable' <=> wpc' # "none"
        /\ to = "stopped" => ~joinable'
    BY <1>5, <2>1, StopAdvances
  <2>3. QED
    BY <2>1, <2>2
<1>6. CASE RunReturns
  BY <1>6 DEF RunReturns, serverKeeps, workerVars, O!HubReturns
<1>7. QED
  BY <1>1, <1>2, <1>3, <1>4, <1>5, <1>6 DEF RunStartsWorker, HubStep

LEMMA StopSteps ==
  ASSUME IInv, StopStopsContext \/ StopStopsWorker \/ StopsWorker(stopper)
  PROVE  IInv'
<1> USE CallersAssumption
    DEF IInv, OnlyRunControls, W!CallerMoves, W!Idle, W!Stopping,
        workerKeeps, serverVars
<1>1. CASE StopStopsContext
  BY <1>1 DEF StopStopsContext, workerVars, O!HubStop
<1>2. CASE StopStopsWorker
  <2>1. UNCHANGED <<joinable, wpc, hubPc>>
    BY <1>2 DEF StopStopsWorker, W!StopExchange
  <2>2. PICK to \in {"disableWait", "stopped"} :
          cpc' = [cpc EXCEPT ![stopper] = to]
    BY <1>2 DEF StopStopsWorker, W!StopExchange
  <2>3. cpc'[main] = cpc[main] /\ cpc'[stopper] # "new"
    BY <2>2
  <2>4. cpc' \in [{main, stopper} -> W!Idle \cup W!Stopping \cup {"launch"}]
    BY <2>2
  <2>5. QED
    BY <2>1, <2>3, <2>4
<1>3. CASE StopsWorker(stopper)
  <2>1. PICK to \in W!Stopping \cup {"stopped"} :
          cpc' = [cpc EXCEPT ![stopper] = to]
    BY <1>3, StopAdvances
  <2>2. /\ UNCHANGED <<isRunning, hubPc>>
        /\ joinable' <=> wpc' # "none"
        /\ ~joinable => ~joinable'
    BY <1>3, StopAdvances
  <2>3. cpc'[main] = cpc[main] /\ cpc'[stopper] # "new"
    BY <2>1
  <2>4. cpc' \in [{main, stopper} -> W!Idle \cup W!Stopping \cup {"launch"}]
    BY <2>1
  <2>5. QED
    BY <2>2, <2>3, <2>4
<1>4. QED
  BY <1>1, <1>2, <1>3

LEMMA NextInv ==
  ASSUME IInv, [Next]_vars
  PROVE  IInv'
<1>1. CASE UNCHANGED vars
  BY <1>1, ControlStays DEF vars, serverVars, workerVars, Control
<1>2. CASE Environment \/ SendCompletes
  <2>1. UNCHANGED hubPc /\ UNCHANGED serverKeeps
    BY <1>2 DEF Environment, SendCompletes, O!PacketArrives, O!SignalArrives,
                O!SendCompletes
  <2>2. QED
    BY <2>1, ControlStays DEF serverKeeps, workerVars, Control
<1>3. ASSUME NEW t \in IoThreads, IoStep(t)
      PROVE  IInv'
  BY <1>3, IoKeepsControl, ControlStays
  DEF IoStep, serverKeeps, workerVars, Control
<1>4. CASE WorkerStep \/ PushMsg \/ WorkerWakes
  BY <1>4, WorkerKeepsControl, ControlStays
<1>5. QED
  BY <1>1, <1>2, <1>3, <1>4, RunSteps, StopSteps DEF Next

(* Whatever the io threads, the worker and its producers are doing, and    *)
(* whether or not XypiHub::stop() has stopped the io_context, run() leaves *)
(* no worker thread behind if nobody else stops the worker                 *)
(* (xypi_hub.cpp:50-75).                                                   *)
THEOREM RunLeavesNoWorker == Spec => []LeavesNoWorker
<1>1. IInv => LeavesNoWorker
  BY DEF IInv, OnlyRunControls, LeavesNoWorker
<1>2. IInv /\ [Next]_vars => IInv'
  BY NextInv
<1>3. QED
  BY <1>1, <1>2, InitInv, PTL DEF Spec

-----------------------------------------------------------------------------
(* Every step is one of OscServer's, or leaves all it knows of alone.      *)

LEMMA CallerKeepsServer ==
  ASSUME IInv, RunStartsWorker \/ HubStep \/ StopStopsWorker \/ StopsWorker(stopper)
  PROVE  O!Next \/ UNCHANGED O!vars
<1> USE DEF workerKeeps, serverVars, O!vars, O!counters
<1>1. CASE cpc[main] = "new" /\ W!RunExchange(main) /\ UNCHANGED workerKeeps
  BY <1>1 DEF W!RunExchange
<1>2. CASE W!Launch(main) /\ UNCHANGED workerKeeps
  <2>1. ~joinable
    BY <1>2 DEF W!Launch, W!CallerMoves, IInv
  <2>2. UNCHANGED terminated
    BY <1>2, <2>1 DEF W!Launch
  <2>3. QED
    BY <1>2, <2>2
<1>3. CASE RunJoins \/ RunReturns
  BY <1>3 DEF RunJoins, RunReturns, O!Next
<1>4. CASE RunStopsWorker \/ StopStopsWorker
  BY <1>4 DEF RunStopsWorker, StopStopsWorker, W!StopExchange
<1>5. ASSUME NEW c \in {main, stopper}, StopsWorker(c)
      PROVE  UNCHANGED O!vars
  BY <1>5 DEF StopsWorker, W!StopDisableWait, W!StopDisable, W!StopJoin
<1>6. QED
  BY <1>1, <1>2, <1>3, <1>4, <1>5 DEF RunStartsWorker, HubStep

LEMMA WorkerKeepsServer ==
  ASSUME PushMsg \/ WorkerWakes \/ WorkerStep
  PROVE  O!Next \/ UNCHANGED O!vars
<1> USE DEF workerKeeps, serverVars, O!vars, O!counters, W!WorkerMoves
<1>1. CASE WorkerSends \/ WorkerSendsNothing
  BY <1>1 DEF WorkerSends, WorkerSendsNothing, W!RunnerHandles, O!Next
<1>2. CASE PushMsg
  BY <1>2 DEF PushMsg, W!PushMsg
<1>3. CASE WorkerWakes
  BY <1>3 DEF WorkerWakes, W!RunnerWakes
<1>4. CASE WorkerStep /\ ~WorkerSends /\ ~WorkerSendsNothing
  BY <1>4 DEF WorkerStep, W!RunnerEnable, W!RunnerEnableWait, W!RunnerLoop,
              W!RunnerBlocks, W!RunnerTakesHead, W!RunnerFindsNothing,
              W!RunnerRemoves
<1>5. QED
  BY <1>1, <1>2, <1>3, <1>4

(* Whatever the worker does and whoever stops it, the io_context and the   *)
(* server behave as OscServer describes them; run() and stop() of the      *)
(* worker never end the process (xypi_hub.cpp:50-85).                      *)
THEOREM ServerIsOscServer == Spec => OscServerSpec
<1>1. Init => O!Init
  BY DEF Init
<1>2. IInv /\ [Next]_vars => [O!Next]_O!vars
  <2> SUFFICES ASSUME IInv, [Next]_vars
               PROVE  O!Next \/ UNCHANGED O!vars
    OBVIOUS
  <2>1. CASE UNCHANGED vars
    BY <2>1 DEF vars, serverVars, O!vars, O!counters
  <2>2. CASE Environment \/ SendCompletes \/ StopStopsContext
    BY <2>2 DEF Environment, SendCompletes, StopStopsContext, O!Next
  <2>3. ASSUME NEW t \in IoThreads, IoStep(t)
        PROVE  O!Next
    BY <2>3 DEF IoStep, O!Next
  <2>4. QED
    BY <2>1, <2>2, <2>3, CallerKeepsServer, WorkerKeepsServer DEF Next
<1>3. IInv /\ [Next]_vars => IInv'
  BY NextInv
<1>4. QED
  BY <1>1, <1>2, <1>3, InitInv, PTL DEF Spec, OscServerSpec, O!Spec

-----------------------------------------------------------------------------
(* Every step is one of QueueWorker's, or leaves all it knows of alone.    *)

(* The operations of the queue do not depend on the process's end.         *)
LEMMA QueueOperationsAreEqual ==
  /\ \A v : W!Push(v) => Q!Push(v)
  /\ \A on : W!Enable(on) => Q!Enable(on)
  /\ W!EnableWait => Q!EnableWait
  /\ W!DisableWait => Q!DisableWait
  /\ W!FrontBlocks(W!Worker) => Q!FrontBlocks(Q!Worker)
  /\ W!FrontReturns(W!Worker) => Q!FrontReturns(Q!Worker)
  /\ W!SpuriousWakeup(W!Worker) => Q!SpuriousWakeup(Q!Worker)
  /\ \A v : W!RemoveAll(v) => Q!RemoveAll(v)
  /\ UNCHANGED W!queueVars <=> UNCHANGED Q!queueVars
<1>1. /\ \A v : W!Push(v) => Q!Push(v)
      /\ \A on : W!Enable(on) => Q!Enable(on)
      /\ W!EnableWait => Q!EnableWait
      /\ W!DisableWait => Q!DisableWait
  BY DEF W!Push, Q!Push, W!Insert, Q!Insert, W!NotifyAll, Q!NotifyAll,
         W!Enable, Q!Enable, W!EnableWait, Q!EnableWait, W!DisableWait,
         Q!DisableWait
<1>2. /\ W!FrontBlocks(W!Worker) => Q!FrontBlocks(Q!Worker)
      /\ W!FrontReturns(W!Worker) => Q!FrontReturns(Q!Worker)
      /\ W!SpuriousWakeup(W!Worker) => Q!SpuriousWakeup(Q!Worker)
      /\ UNCHANGED W!queueVars <=> UNCHANGED Q!queueVars
  BY DEF W!FrontBlocks, Q!FrontBlocks, W!FrontReturns, Q!FrontReturns,
         W!SpuriousWakeup, Q!SpuriousWakeup, W!WaitOver, Q!WaitOver,
         W!Worker, Q!Worker, W!queueVars, Q!queueVars
<1>3. ASSUME NEW v, W!RemoveAll(v)
      PROVE  Q!RemoveAll(v)
  <2>1. W!Without(iqueue, v) = Q!Without(iqueue, v)
    BY DEF W!Without, Q!Without, W!Cardinality, Q!Cardinality
  <2>2. QED
    BY <1>3, <2>1 DEF W!RemoveAll, Q!RemoveAll
<1>4. QED
  BY <1>1, <1>2, <1>3

LEMMA CallersCall ==
  ASSUME IInv, NEW c \in {main, stopper}
  PROVE  /\ W!RunExchange(c) => Q!RunExchange(c)
         /\ c = main /\ W!Launch(c) => Q!Launch(c)
         /\ W!StopExchange(c) => Q!StopExchange(c)
         /\ W!StopDisableWait(c) => Q!StopDisableWait(c)
         /\ W!StopDisable(c) => Q!StopDisable(c)
         /\ W!StopJoin(c) => Q!StopJoin(c)
<1> USE QueueOperationsAreEqual
    DEF W!CallerMoves, Q!CallerMoves, W!Idle, Q!Idle
<1>1. W!RunExchange(c) => Q!RunExchange(c)
  BY DEF W!RunExchange, Q!RunExchange
<1>2. ASSUME c = main, W!Launch(c)
      PROVE  Q!Launch(c)
  <2>1. ~joinable
    BY <1>2 DEF W!Launch, IInv
  <2>2. QED
    BY <1>2, <2>1 DEF W!Launch, Q!Launch
<1>3. W!StopExchange(c) => Q!StopExchange(c)
  BY DEF W!StopExchange, Q!StopExchange
<1>4. W!StopDisableWait(c) => Q!StopDisableWait(c)
  BY DEF W!StopDisableWait, Q!StopDisableWait
<1>5. W!StopDisable(c) => Q!StopDisable(c)
  BY DEF W!StopDisable, Q!StopDisable
<1>6. W!StopJoin(c) => Q!StopJoin(c)
  BY DEF W!StopJoin, Q!StopJoin
<1>7. QED
  BY <1>1, <1>2, <1>3, <1>4, <1>5, <1>6

LEMMA RunnerRuns ==
  ASSUME WorkerStep \/ PushMsg \/ WorkerWakes
  PROVE  Q!RunnerStep \/ Q!PushMsg \/ Q!RunnerWakes
<1> USE QueueOperationsAreEqual DEF W!WorkerMoves, Q!WorkerMoves
<1>1. WorkerSends \/ WorkerSendsNothing => Q!RunnerHandles
  BY DEF WorkerSends, WorkerSendsNothing, W!RunnerHandles, Q!RunnerHandles
<1>2. W!RunnerEnable => Q!RunnerEnable
  BY DEF W!RunnerEnable, Q!RunnerEnable
<1>3. W!RunnerEnableWait => Q!RunnerEnableWait
  BY DEF W!RunnerEnableWait, Q!RunnerEnableWait
<1>4. W!RunnerLoop => Q!RunnerLoop
  BY DEF W!RunnerLoop, Q!RunnerLoop
<1>5. W!RunnerBlocks => Q!RunnerBlocks
  BY DEF W!RunnerBlocks, Q!RunnerBlocks
<1>6. W!RunnerTakesHead => Q!RunnerTakesHead
  BY DEF W!RunnerTakesHead, Q!RunnerTakesHead
<1>7. W!RunnerFindsNothing => Q!RunnerFindsNothing
  BY DEF W!RunnerFindsNothing, Q!RunnerFindsNothing
<1>8. W!RunnerRemoves => Q!RunnerRemoves
  BY DEF W!RunnerRemoves, Q!RunnerRemoves
<1>9. PushMsg => Q!PushMsg
  BY DEF PushMsg, W!PushMsg, Q!PushMsg
<1>10. WorkerWakes => Q!RunnerWakes
  BY DEF WorkerWakes, W!RunnerWakes, Q!RunnerWakes
<1>11. QED
  BY <1>1, <1>2, <1>3, <1>4, <1>5, <1>6, <1>7, <1>8, <1>9, <1>10
  DEF WorkerStep, Q!RunnerStep

(* Until the process ends, the worker and the two threads that control it  *)
(* behave as QueueWorker describes them: the worker's thread is launched   *)
(* over no other, and the io_context and the server, on whose socket it    *)
(* sends, do not disturb it (xypi_hub.cpp:50-85).                          *)
THEOREM WorkerIsQueueWorker == Spec => QueueWorkerSpec
<1>1. Init => Q!Init
  BY DEF Init, W!Init, Q!Init, W!QueueInit, Q!QueueInit
<1>2. IInv /\ [Next]_vars => [Q!Next]_Q!vars
  <2> SUFFICES ASSUME IInv, [Next]_vars
               PROVE  Q!Next \/ UNCHANGED Q!vars
    OBVIOUS
  <2>1. UNCHANGED workerVars => UNCHANGED Q!vars
    BY DEF workerVars, Q!vars
  <2>2. CASE UNCHANGED vars
    BY <2>1, <2>2 DEF vars
  <2>3. CASE \/ Environment \/ SendCompletes \/ StopStopsContext
             \/ \E t \in IoThreads : IoStep(t)
    BY <2>1, <2>3 DEF Environment, SendCompletes, StopStopsContext, IoStep,
                     serverKeeps
  <2>4. CASE RunJoins \/ RunReturns
    BY <2>1, <2>4 DEF RunJoins, RunReturns, serverKeeps
  <2>5. CASE RunStartsWorker \/ StopStopsWorker \/ StopsWorker(stopper)
    BY <2>5, CallersCall
    DEF RunStartsWorker, StopStopsWorker, StopsWorker, Q!Next, Q!CallerStep
  <2>6. CASE HubStep
    BY <2>4, <2>6, CallersCall
    DEF HubStep, RunStopsWorker, StopsWorker, Q!Next, Q!CallerStep
  <2>7. CASE WorkerStep \/ PushMsg \/ WorkerWakes
    BY <2>7, RunnerRuns DEF Q!Next
  <2>8. QED
    BY <2>2, <2>3, <2>5, <2>6, <2>7 DEF Next
<1>3. IInv /\ [Next]_vars => IInv'
  BY NextInv
<1>4. QED
  BY <1>1, <1>2, <1>3, InitInv, PTL DEF Spec, QueueWorkerSpec, Q!Spec
=============================================================================
