---------------------------- MODULE QueueWorker ----------------------------
(***************************************************************************)
(* One locked::queue, the worker thread that drains it and the threads     *)
(* that start and stop that worker.  OSCWorker (osc_worker.cpp) and        *)
(* MidiWorker (midi_worker.cpp) are this module with EnablesQueue = TRUE;  *)
(* WSApiWorker (wsapi_worker.cpp) is it with EnablesQueue = FALSE: its     *)
(* runner never calls enable() and its stop() never calls enable(false).   *)
(*                                                                         *)
(* A step is one critical section of the queue's mutex, one access to an   *)
(* atomic or unlocked flag, or one operation on the std::thread.           *)
(***************************************************************************)
EXTENDS LockedQueue

CONSTANTS
  Callers,          \* threads that call run() and stop() on the worker
  MaxMsgs,          \* bound: messages pushed in a behaviour
  InitialIsRunning, \* values the uninitialised atomic isRunning may hold
  EnablesQueue      \* the worker calls enable() / enable(false) on its queue

(* The hub drives a worker from the thread in XypiHub::run() and, when     *)
(* there is one, from a thread in XypiHub::stop().                         *)
ASSUME CallersAssumption == IsFiniteSet(Callers) /\ Callers # {}
ASSUME MaxMsgsAssumption == MaxMsgs \in Nat
ASSUME InitialAssumption == InitialIsRunning \in (SUBSET BOOLEAN) \ {{}}
ASSUME EnablesQueueAssumption == EnablesQueue \in BOOLEAN

VARIABLES
  isRunning,   \* the worker's std::atomic<bool>
  joinable,    \* myThread holds a thread that has not been joined
  wpc,         \* where the worker thread is; "none" when there is no thread
  cur,         \* optMsg.first in runner(), 0 when it holds no message
  cpc,         \* per caller: the call it is in, or the last one it finished
  terminated,  \* std::terminate: a joinable std::thread was assigned to
  allocated,   \* messages made so far; the n-th is message n
  handled      \* history: messages handed to send_message, oldest first

vars == <<iqueue, isBlocking, qIsRunning, waiters, isRunning, joinable, wpc,
          cur, cpc, terminated, allocated, handled>>

Worker == "worker"
Msgs == 1..MaxMsgs

Idle == {"new", "ran", "stopped"}
Stopping == {"disableWait", "disable", "join"}
WorkerPcs == {"none", "enable", "enableWait", "loop", "front", "handle",
              "remove", "done"}

TypeOK ==
  /\ QueueTypeOK({Worker}, Msgs)
  /\ isRunning \in BOOLEAN
  /\ joinable \in BOOLEAN
  /\ wpc \in WorkerPcs
  /\ cur \in 0..MaxMsgs
  /\ cpc \in [Callers -> Idle \cup Stopping \cup {"launch"}]
  /\ terminated \in BOOLEAN
  /\ allocated \in 0..MaxMsgs
  /\ handled \in Seq(Msgs)

Init ==
  /\ QueueInit
  /\ isRunning \in InitialIsRunning
  /\ joinable = FALSE
  /\ wpc = "none"
  /\ cur = 0
  /\ cpc = [c \in Callers |-> "new"]
  /\ terminated = FALSE
  /\ allocated = 0
  /\ handled = <<>>

-----------------------------------------------------------------------------
(* Producers: the RtMidi callback thread makes a message and pushes it.    *)

PushMsg ==
  /\ ~terminated
  /\ allocated < MaxMsgs
  /\ allocated' = allocated + 1
  /\ Push(allocated')
  /\ UNCHANGED <<isRunning, joinable, wpc, cur, cpc, terminated, handled>>

-----------------------------------------------------------------------------
(* run() and stop().                                                       *)

CallerMoves(c, from, to) ==
  /\ ~terminated
  /\ cpc[c] \in from
  /\ cpc' = [cpc EXCEPT ![c] = to]
  /\ UNCHANGED <<cur, allocated, handled>>

(* isRunning.exchange(true): only the call that finds it false launches.   *)
RunExchange(c) ==
  /\ CallerMoves(c, Idle, IF isRunning THEN "ran" ELSE "launch")
  /\ isRunning' = TRUE
  /\ UNCHANGED <<queueVars, joinable, wpc, terminated>>

(* myThread = std::thread(runner): terminates the process when myThread    *)
(* still holds a thread.                                                   *)
Launch(c) ==
  /\ CallerMoves(c, {"launch"}, "ran")
  /\ \/ ~joinable /\ joinable' = TRUE /\ wpc' = "enable" /\ UNCHANGED terminated
     \/ joinable /\ terminated' = TRUE /\ UNCHANGED <<joinable, wpc>>
  /\ UNCHANGED <<queueVars, isRunning>>

(* isRunning.exchange(false): only the call that finds it true goes on.    *)
StopExchange(c) ==
  /\ CallerMoves(c, Idle, IF isRunning THEN "disableWait" ELSE "stopped")
  /\ isRunning' = FALSE
  /\ UNCHANGED <<queueVars, joinable, wpc, terminated>>

StopDisableWait(c) ==
  /\ CallerMoves(c, {"disableWait"}, IF EnablesQueue THEN "disable" ELSE "join")
  /\ DisableWait
  /\ UNCHANGED <<isRunning, joinable, wpc, terminated>>

StopDisable(c) ==
  /\ CallerMoves(c, {"disable"}, "join")
  /\ Enable(FALSE)
  /\ UNCHANGED <<isRunning, joinable, wpc, terminated>>

\* Mutant of StopJoin: the thread is not waited for.
StopSkipsJoin(c) ==
  /\ CallerMoves(c, {"join"}, "stopped")
  /\ UNCHANGED <<queueVars, isRunning, joinable, wpc, terminated>>

(* if (myThread.joinable()) myThread.join()                                *)
StopJoin(c) ==
  /\ CallerMoves(c, {"join"}, "stopped")
  /\ \/ ~joinable /\ UNCHANGED <<joinable, wpc>>
     \/ joinable /\ wpc = "done" /\ joinable' = FALSE /\ wpc' = "none"
  /\ UNCHANGED <<queueVars, isRunning, terminated>>

CallerStep(c) ==
  \/ Launch(c)
  \/ StopDisableWait(c)
  \/ StopDisable(c)
  \/ StopJoin(c)

-----------------------------------------------------------------------------
(* runner(), on the worker thread.                                         *)

WorkerMoves(from, to) ==
  /\ ~terminated
  /\ wpc = from
  /\ wpc' = to
  /\ UNCHANGED <<isRunning, joinable, cpc, terminated, allocated>>

\* Mutant of RunnerEnable: the queue is never enabled.
RunnerSkipsEnable ==
  /\ WorkerMoves("enable", "enableWait")
  /\ UNCHANGED <<queueVars, cur, handled>>

RunnerEnable ==
  /\ WorkerMoves("enable", "enableWait")
  /\ IF EnablesQueue THEN Enable(TRUE) ELSE UNCHANGED queueVars
  /\ UNCHANGED <<cur, handled>>

RunnerEnableWait ==
  /\ WorkerMoves("enableWait", "loop")
  /\ EnableWait
  /\ UNCHANGED <<cur, handled>>

RunnerLoop ==
  /\ WorkerMoves("loop", IF isRunning THEN "front" ELSE "done")
  /\ UNCHANGED <<queueVars, cur, handled>>

RunnerBlocks ==
  /\ WorkerMoves("front", "front")
  /\ FrontBlocks(Worker)
  /\ UNCHANGED <<cur, handled>>

RunnerWakes ==
  /\ WorkerMoves("front", "front")
  /\ SpuriousWakeup(Worker)
  /\ UNCHANGED <<cur, handled>>

\* Mutant of RunnerTakesHead: optMsg.second is not looked at.
RunnerTakesAny ==
  /\ WorkerMoves("front", "handle")
  /\ FrontReturns(Worker)
  /\ cur' = IF iqueue = <<>> THEN 0 ELSE Head(iqueue)
  /\ UNCHANGED handled

RunnerTakesHead ==
  /\ WorkerMoves("front", "handle")
  /\ FrontReturns(Worker)
  /\ iqueue # <<>>
  /\ cur' = Head(iqueue)
  /\ UNCHANGED handled

(* front() came back empty: the sleep that may follow changes nothing.     *)
RunnerFindsNothing ==
  /\ WorkerMoves("front", "loop")
  /\ FrontReturns(Worker)
  /\ iqueue = <<>>
  /\ UNCHANGED <<cur, handled>>

(* send_message / sendMIDI / process: whether it returns or throws a       *)
(* std::exception, the loop goes on to remove the message.                 *)
RunnerHandles ==
  /\ WorkerMoves("handle", "remove")
  /\ handled' = Append(handled, cur)
  /\ UNCHANGED <<queueVars, cur>>

\* Mutant of RunnerRemoves: the handled message is left in the queue.
RunnerForgetsRemove ==
  /\ WorkerMoves("remove", "loop")
  /\ cur' = 0
  /\ UNCHANGED <<queueVars, handled>>

RunnerRemoves ==
  /\ WorkerMoves("remove", "loop")
  /\ RemoveAll(cur)
  /\ cur' = 0
  /\ UNCHANGED handled

RunnerStep ==
  \/ RunnerEnable
  \/ RunnerEnableWait
  \/ RunnerLoop
  \/ RunnerBlocks
  \/ RunnerTakesHead
  \/ RunnerFindsNothing
  \/ RunnerHandles
  \/ RunnerRemoves

-----------------------------------------------------------------------------

Next ==
  \/ PushMsg
  \/ \E c \in Callers : RunExchange(c) \/ StopExchange(c) \/ CallerStep(c)
  \/ RunnerStep
  \/ RunnerWakes

Spec == Init /\ [][Next]_vars

(* A started call and the worker thread keep being scheduled.  Nothing     *)
(* obliges a thread to push, to call run() or stop(), or to wake up        *)
(* without being notified.                                                 *)
Fairness ==
  /\ WF_vars(RunnerStep)
  /\ \A c \in Callers : WF_vars(CallerStep(c))

FairSpec == Spec /\ Fairness

-----------------------------------------------------------------------------
(* The message being handled stays at the head of the queue until it has   *)
(* been handled, so whoever inspects the queue still finds it, and remove  *)
(* takes out exactly that message (osc_worker.cpp:64-72).                  *)
InFlightIsHead ==
  wpc \in {"handle", "remove"} => iqueue # <<>> /\ Head(iqueue) = cur

(* c makes all the calls so far: run() and stop() were not written for     *)
(* more than one controlling thread.                                       *)
Alone(c) == \A d \in Callers \ {c} : cpc[d] = "new"
OneController == \E c \in Callers : Alone(c)

(* No call sequence of run() and stop() by one thread assigns to a         *)
(* std::thread that has not been joined (osc_worker.cpp:33-51).            *)
NeverTerminates == OneController => ~terminated

(* The pushed messages that the worker has yet to hand over: remove comes  *)
(* after the hand-over, so the head no longer counts in between.           *)
Pending == IF wpc = "remove" THEN Tail(iqueue) ELSE iqueue

(* Messages reach the consumer at most once and in the order they were     *)
(* pushed, across any number of stops and restarts of the worker.          *)
InOrderOnce ==
  LET all == handled \o Pending
  IN  \A i, j \in 1..Len(all) : i < j => all[i] < all[j]

(* While the worker serves the queue and the controlling thread has not    *)
(* asked it to stop, a push is accepted, whatever stop() came before       *)
(* (osc_worker.cpp:58).                                                    *)
ServingAccepts ==
  OneController /\ wpc \in {"front", "handle", "remove"} /\ isRunning => qIsRunning

(* "we have a running worker to remove things from the queue"              *)
(* (locked/queue.h:136): the queue takes messages only while there is a    *)
(* worker thread.                                                          *)
RunningMeansWorker == qIsRunning => joinable

(* "stop the worker thread and wait until it completes"                     *)
(* (osc_worker.cpp:42): when a stop() by the controlling thread returns,   *)
(* the worker thread is gone; and when a run() does, there is one, except  *)
(* for the very first call, whose exchange may find the uninitialised      *)
(* isRunning true.                                                         *)
CallsKeepTheirWord ==
  [][\A c \in Callers : Alone(c) /\ cpc'[c] # cpc[c] =>
       /\ cpc'[c] = "ran" => wpc' # "none" \/ cpc[c] = "new"
       /\ cpc'[c] = "stopped" => wpc' = "none"]_vars

(* The worker sleeps only on an empty queue, and only while front() is to  *)
(* wait: no push comes between its look at the queue and its sleep, and    *)
(* stop() does not leave it asleep (locked/queue.h:23-79).                 *)
NoWakeupMissed == Worker \in waiters => iqueue = <<>> /\ isBlocking

(* A worker that has been told to stop sleeps only while a stop() is still *)
(* about to wake it, although the thread turns waiting on when it starts,  *)
(* which may be after that stop() has turned it off                        *)
(* (osc_worker.cpp:46-60).                                                 *)
ToldToStopIsWoken ==
  Worker \in waiters /\ ~isRunning =>
    \E c \in Callers : cpc[c] = "disableWait"

(* Every stop() returns, unless a run() starts the worker again meanwhile: *)
(* the worker cannot sleep through its own shutdown (osc_worker.cpp:47).   *)
StopReturns ==
  \A c \in Callers :
    cpc[c] \in Stopping ~> cpc[c] = "stopped" \/ isRunning \/ terminated

(* A queued message leaves the queue unless the worker is told to stop: no *)
(* push is missed by a sleeping worker.                                    *)
Queued(m) == \E i \in DOMAIN iqueue : iqueue[i] = m

Drains ==
  \A m \in Msgs :
    Queued(m) /\ isRunning ~> ~Queued(m) \/ ~isRunning \/ terminated

-----------------------------------------------------------------------------
(* The queue and its worker implement the FIFO channel.                    *)
Fifo == INSTANCE FifoChannel
          WITH chan <- Pending, delivered <- handled, offered <- allocated

FifoChannelSpec == Fifo!FifoSpec
=============================================================================
