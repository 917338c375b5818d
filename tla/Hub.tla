--------------------------------- MODULE Hub ---------------------------------
(***************************************************************************)
(* XypiHub (xypi_hub.cpp): the io_context with OSCServer (OscServer) and   *)
(* the OSCWorker with its queue (QueueWorker), started and stopped by      *)
(* XypiHub::run() and by a thread in XypiHub::stop().                      *)
(*                                                                         *)
(* The steps are those of the two modules.  Here the message that the      *)
(* worker handles is given to the server, which sends it if it can be      *)
(* packed, the calls that stop the worker come where the hub makes them,   *)
(* and an exception on an io thread ends the worker's thread as well.      *)
(***************************************************************************)
EXTENDS Integers, Sequences, FiniteSets

CONSTANTS
  IoThreads,        \* the threads that XypiHub::run() starts
  MaxPackets,       \* bound: packets received in a behaviour
  MaxMsgs,          \* bound: messages pushed in a behaviour
  InitialIsRunning, \* values the worker's uninitialised isRunning may hold
  main, stopper     \* the threads in XypiHub::run() and XypiHub::stop()

ASSUME CallersAssumption == main # stopper
ASSUME IoThreadsAssumption == IsFiniteSet(IoThreads) /\ IoThreads # {}
ASSUME BoundsAssumption == MaxPackets \in Nat /\ MaxMsgs \in Nat

VARIABLES
  armed, sending, sigArmed, ready, tpc, packet, stopped, hubPc, received,
  sent, parsed, canceled, aborted,          \* those of OscServer
  iqueue, isBlocking, qIsRunning, waiters, isRunning, joinable, wpc, cur,
  cpc, allocated, handled,                  \* those of QueueWorker
  stopCalled,                               \* XypiHub::stop() has been called
  terminated                                \* of both: the process has ended

serverVars == <<armed, sending, sigArmed, ready, tpc, packet, stopped, hubPc,
                received, sent, parsed, canceled, aborted>>
workerVars == <<iqueue, isBlocking, qIsRunning, waiters, isRunning, joinable,
                wpc, cur, cpc, allocated, handled>>
vars == <<serverVars, workerVars, stopCalled, terminated>>

(* What the server's steps leave alone, and those of the worker and its    *)
(* callers.                                                                *)
serverKeeps == <<workerVars, stopCalled>>
workerKeeps == <<serverVars, stopCalled>>

O == INSTANCE OscServer WITH MaxSends <- MaxMsgs
W == INSTANCE QueueWorker WITH Callers <- {main, stopper}, EnablesQueue <- TRUE

Init == O!Init /\ W!Init /\ stopCalled = FALSE

-----------------------------------------------------------------------------
(* XypiHub::run(): the worker is started first, then the io threads; when  *)
(* they have all been joined the worker is stopped.                        *)

\* Mutant of RunStartsWorker: a worker that has been told to stop is started
\* again before its thread has been joined.
RunRestartsWorker ==
  /\ \/ cpc[main] \in {"new", "ran"} /\ W!RunExchange(main)
     \/ W!Launch(main)
  /\ UNCHANGED workerKeeps

RunStartsWorker ==
  /\ \/ cpc[main] = "new" /\ W!RunExchange(main)
     \/ W!Launch(main)
  /\ UNCHANGED workerKeeps

RunJoins ==
  /\ cpc[main] = "ran"
  /\ O!HubJoins
  /\ UNCHANGED serverKeeps

\* Mutant of RunStopsWorker: without the stop, run() just returns.
RunForgetsWorker ==
  /\ hubPc = "stopping" /\ cpc[main] = "ran"
  /\ cpc' = [cpc EXCEPT ![main] = "stopped"]
  /\ UNCHANGED <<workerKeeps, iqueue, isBlocking, qIsRunning, waiters, isRunning,
                 joinable, wpc, cur, allocated, handled, terminated>>

RunStopsWorker ==
  /\ hubPc = "stopping"
  /\ cpc[main] = "ran" /\ W!StopExchange(main)
  /\ UNCHANGED workerKeeps

RunReturns ==
  /\ cpc[main] = "stopped"
  /\ O!HubReturns
  /\ UNCHANGED serverKeeps

(* XypiHub::stop(), once at most: the io_context is stopped, then the      *)
(* worker.                                                                 *)
StopStopsContext ==
  /\ ~stopCalled
  /\ stopCalled' = TRUE
  /\ O!HubStop
  /\ UNCHANGED workerVars

StopStopsWorker ==
  /\ stopCalled /\ cpc[stopper] = "new"
  /\ W!StopExchange(stopper)
  /\ UNCHANGED workerKeeps

(* What either does in a stop() of the worker that it has begun.           *)
StopsWorker(c) ==
  /\ W!StopDisableWait(c) \/ W!StopDisable(c) \/ W!StopJoin(c)
  /\ UNCHANGED workerKeeps

-----------------------------------------------------------------------------
(* The io_context, whose threads are started by run() ...                  *)
Environment ==
  /\ \/ \E kind \in O!Kinds : O!PacketArrives(kind)
     \/ O!SignalArrives
  /\ UNCHANGED serverKeeps

SendCompletes == O!SendCompletes /\ UNCHANGED serverKeeps

IoStep(t) ==
  /\ cpc[main] \notin {"new", "launch"}
  /\ O!ThreadStep(t)
  /\ UNCHANGED serverKeeps

(* ... and the worker, which handles a message by sending it, or without a *)
(* send when pack() refuses the message or the send throws, which runner() *)
(* catches.                                                                *)
PushMsg == W!PushMsg /\ UNCHANGED workerKeeps
WorkerWakes == W!RunnerWakes /\ UNCHANGED workerKeeps

WorkerSends == W!RunnerHandles /\ O!WorkerSends /\ UNCHANGED stopCalled
WorkerSendsNothing == W!RunnerHandles /\ UNCHANGED workerKeeps

WorkerStep ==
  \/ WorkerSends
  \/ WorkerSendsNothing
  \/ /\ \/ W!RunnerEnable \/ W!RunnerEnableWait \/ W!RunnerLoop
        \/ W!RunnerBlocks \/ W!RunnerTakesHead \/ W!RunnerFindsNothing
        \/ W!RunnerRemoves
     /\ UNCHANGED workerKeeps

-----------------------------------------------------------------------------

HubStep ==
  \/ W!Launch(main) /\ UNCHANGED workerKeeps
  \/ RunJoins \/ RunStopsWorker \/ StopsWorker(main) \/ RunReturns

Next ==
  \/ RunStartsWorker \/ HubStep
  \/ StopStopsContext \/ StopStopsWorker \/ StopsWorker(stopper)
  \/ Environment \/ SendCompletes
  \/ \E t \in IoThreads : IoStep(t)
  \/ PushMsg \/ WorkerWakes \/ WorkerStep

Spec == Init /\ [][Next]_vars

(* The fairness of the two modules.  A call of XypiHub::stop() goes on as  *)
(* well once it has stopped the io_context; nothing obliges anybody to     *)
(* make one.                                                               *)
FairSpec ==
  /\ Spec
  /\ WF_vars(HubStep)
  /\ WF_vars(StopStopsWorker \/ StopsWorker(stopper))
  /\ \A t \in IoThreads : WF_vars(IoStep(t))
  /\ WF_vars(SendCompletes)
  /\ WF_vars(WorkerStep)

-----------------------------------------------------------------------------
(* A worker's message that is sent while the hub shuts down, or a worker   *)
(* that sleeps on its queue, does not keep XypiHub::run() from returning   *)
(* once the io_context is stopped or its receive aborted, with or without  *)
(* a stop() at the same time (xypi_hub.cpp:68-75).                         *)
RunIsOver == cpc[main] = "new" \/ hubPc = "returned" \/ terminated
ShutdownEnds == stopped \/ aborted ~> RunIsOver

(* When nobody else stops the worker, it is gone when run() returns, and   *)
(* with it all use of the server that the hub is about to destroy          *)
(* (xypi_hub.cpp:73).                                                      *)
LeavesNoWorker ==
  hubPc = "returned" /\ cpc[stopper] = "new" => wpc = "none" /\ ~joinable

(* Next to the worker and the two threads that control it, the io_context  *)
(* and the server are still what OscServer says they are.  In particular   *)
(* nothing that run() and stop() do to the worker at the same time ends    *)
(* the process: run() launches over no thread, whatever isRunning started  *)
(* out as (xypi_hub.cpp:50-85).                                            *)
OscServerSpec == O!Spec

(* Until the process ends, the worker in the hub is what QueueWorker says  *)
(* it is, with the two threads as its callers: the order in which the hub  *)
(* makes its calls is one of those QueueWorker allows, the io_context      *)
(* takes no part in them, and none of them replaces a joinable thread      *)
(* (xypi_hub.cpp:50-85).                                                   *)
Q == INSTANCE QueueWorker
       WITH Callers <- {main, stopper}, EnablesQueue <- TRUE,
            terminated <- FALSE
QueueWorkerSpec == Q!Spec

(* "stop the worker thread and wait until it completes"                    *)
(* (osc_worker.cpp:42): the stop() at the end of XypiHub::run() does, and  *)
(* run() leaves no worker behind.                                          *)
NeverLeavesWorker == hubPc = "returned" => wpc = "none"
=============================================================================
