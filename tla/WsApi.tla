------------------------------- MODULE WsApi -------------------------------
(***************************************************************************)
(* The web socket api: WSApiHandler::process, called by every session on   *)
(* an io thread, the command queue and the results map it shares with the  *)
(* WSApiWorker, and that worker's loop (wsapi_handler.cpp,                 *)
(* wsapi_worker.cpp).                                                      *)
(*                                                                         *)
(* The api table has entries that answer at once (get, list) and may have  *)
(* entries with a work queue factory; the one such entry, ping, is         *)
(* commented out (wsapi_handler.cpp:29), and this module is about the code *)
(* that serves them.  Starting and stopping the worker is QueueWorker's    *)
(* subject; here it is running.                                            *)
(*                                                                         *)
(* A step is one critical section of the queue or of the map, one access   *)
(* to the atomic cmdid, or one call of a command's process().              *)
(***************************************************************************)
EXTENDS LockedQueue, LockedMap

CONSTANTS
  Sessions,     \* sessions whose io thread may be inside process()
  MaxJobs,      \* bound: deferred commands submitted in a behaviour
  IdLimit,      \* number of values of wsapi::cmd_id, 2^32 in the code
  CmdqEnabled   \* somebody has called enable() on the command queue

ASSUME SessionsAssumption == "worker" \notin Sessions
ASSUME MaxJobsAssumption == MaxJobs \in Nat
ASSUME IdLimitAssumption == IdLimit \in Nat \ {0}
ASSUME CmdqEnabledAssumption == CmdqEnabled \in BOOLEAN

VARIABLES
  cmdid,    \* jobs made so far; the uint32 holds JobId(cmdid)
  urgent,   \* per job: pushed to the front of the queue
  spc,      \* per session: where process() is
  sarg,     \* per session: the job it submits, or the id it looks for
  listed,   \* per session: ids that listCmd has collected
  reply,    \* per session: kind of the last response
  wpc,      \* where the worker's loop is
  cur,      \* optWork.first, 0 when it holds no job
  told,     \* history: jobs whose id was returned to a client
  failed,   \* history: jobs whose second process() threw
  fetched,  \* history: per job, how many gets were given its result
  dropped,  \* history: jobs that a disabled queue did not take
  known     \* history, per session: told when its list began

jobVars == <<cmdid, urgent>>
sessionVars == <<spc, sarg, listed, reply, known>>
workerVars == <<wpc, cur, failed>>
vars == <<queueVars, imap, jobVars, sessionVars, workerVars, told, dropped, fetched>>

Worker == "worker"
Jobs == 1..MaxJobs
Ids == 0..(IdLimit - 1)
JobId(j) == j % IdLimit

Replies == {"none", "id", "done", "enqueued", "missing", "badId", "list", "threw"}

TypeOK ==
  /\ QueueTypeOK({Worker}, Jobs)
  /\ MapTypeOK(Ids, Jobs)
  /\ cmdid \in 0..MaxJobs
  /\ urgent \in [Jobs -> BOOLEAN]
  /\ spc \in [Sessions -> {"idle", "first", "enqueue", "store", "find", "results"}]
  /\ sarg \in [Sessions -> Ids \cup 0..MaxJobs]
  /\ listed \in [Sessions -> SUBSET Ids]
  /\ reply \in [Sessions -> Replies]
  /\ wpc \in {"front", "process", "store", "remove"}
  /\ cur \in 0..MaxJobs
  /\ told \subseteq Jobs
  /\ dropped \subseteq Jobs
  /\ failed \subseteq Jobs
  /\ fetched \in [Jobs -> Nat]
  /\ known \in [Sessions -> SUBSET Jobs]

(* The hub is constructed, XypiHub::run() has called cmdQ.enableWait().    *)
Init ==
  /\ iqueue = <<>> /\ isBlocking = TRUE /\ waiters = {}
  /\ qIsRunning = CmdqEnabled
  /\ MapInit
  /\ cmdid = 0
  /\ urgent = [j \in Jobs |-> FALSE]
  /\ spc = [s \in Sessions |-> "idle"]
  /\ sarg = [s \in Sessions |-> 0]
  /\ listed = [s \in Sessions |-> {}]
  /\ reply = [s \in Sessions |-> "none"]
  /\ wpc = "front"
  /\ cur = 0
  /\ told = {}
  /\ dropped = {}
  /\ failed = {}
  /\ fetched = [j \in Jobs |-> 0]
  /\ known = [s \in Sessions |-> {}]

-----------------------------------------------------------------------------
(* WSApiHandler::process.  A request that arrives moves its session out of *)
(* "idle", the response moves it back.                                     *)

Continues(s, from, to, arg) ==
  /\ spc[s] = from
  /\ spc' = [spc EXCEPT ![s] = to]
  /\ sarg' = [sarg EXCEPT ![s] = arg]
  /\ reply' = [reply EXCEPT ![s] = "none"]
  /\ UNCHANGED workerVars

Responds(s, from, kind) ==
  /\ spc[s] = from
  /\ spc' = [spc EXCEPT ![s] = "idle"]
  /\ sarg' = [sarg EXCEPT ![s] = 0]
  /\ reply' = [reply EXCEPT ![s] = kind]
  /\ UNCHANGED workerVars

(* auto id = ++cmdid                                                       *)
Submit(s) ==
  /\ cmdid < MaxJobs
  /\ cmdid' = cmdid + 1
  /\ urgent' \in {urgent, [urgent EXCEPT ![cmdid'] = TRUE]}
  /\ Continues(s, "idle", "first", cmdid')
  /\ UNCHANGED <<queueVars, imap, listed, told, dropped, fetched, known>>

(* work->process() decides: scheduled, or done at once.                    *)
FirstProcess(s) ==
  /\ \E to \in {"enqueue", "store"} : Continues(s, "first", to, sarg[s])
  /\ UNCHANGED <<queueVars, imap, jobVars, listed, told, dropped, fetched, known>>

(* The factory or process() throws.  The handlers at lines 76-82 convert a *)
(* json object to a pair, which throws in turn, so that process() never    *)
(* returns and the client gets no response.                                *)
FirstThrows(s) ==
  /\ Responds(s, "first", "threw")
  /\ UNCHANGED <<queueVars, imap, jobVars, listed, told, dropped, fetched, known>>

Enqueue(s) ==
  LET j == sarg[s] IN
  /\ Responds(s, "enqueue", "id")
  /\ IF urgent[j] THEN PushFront(j) ELSE Push(j)
  /\ told' = told \cup {j}
  /\ dropped' = IF qIsRunning THEN dropped ELSE dropped \cup {j}
  /\ UNCHANGED <<imap, jobVars, listed, fetched, known>>

Store(s) ==
  LET j == sarg[s] IN
  /\ Responds(s, "store", "id")
  /\ MapInsert(JobId(j), j)
  /\ told' = told \cup {j}
  /\ UNCHANGED <<queueVars, jobVars, listed, dropped, fetched, known>>

(* getCmd: id 0 is refused, then the results map is asked ...              *)
GetBadId(s) ==
  /\ Responds(s, "idle", "badId")
  /\ UNCHANGED <<queueVars, imap, jobVars, listed, told, dropped, fetched, known>>

GetFetches(s, id) ==
  /\ id # 0
  /\ MapHas(id)
  /\ Responds(s, "idle", "done")
  /\ fetched' = [fetched EXCEPT ![imap[id]] = @ + 1]
  /\ MapErase(id)
  /\ UNCHANGED <<queueVars, jobVars, listed, told, dropped, known>>

GetLooksFurther(s, id) ==
  /\ id # 0
  /\ ~MapHas(id)
  /\ Continues(s, "idle", "find", id)
  /\ UNCHANGED <<queueVars, imap, jobVars, listed, told, dropped, fetched, known>>

(* ... and, in another critical section, the queue.                        *)
GetFinds(s) ==
  LET qorder == FindQOrder({j \in Jobs : JobId(j) = sarg[s]}) IN
  /\ Responds(s, "find", IF qorder >= 0 THEN "enqueued" ELSE "missing")
  /\ UNCHANGED <<queueVars, imap, jobVars, listed, told, dropped, fetched, known>>

(* listCmd: the queue, then the map.                                       *)
ListQueue(s) ==
  /\ Continues(s, "idle", "results", 0)
  /\ listed' = [listed EXCEPT ![s] = {JobId(j) : j \in Elements}]
  /\ known' = [known EXCEPT ![s] = told]
  /\ UNCHANGED <<queueVars, imap, jobVars, told, dropped, fetched>>

ListResults(s) ==
  /\ Responds(s, "results", "list")
  /\ listed' = [listed EXCEPT ![s] = @ \cup DOMAIN imap]
  /\ known' = [known EXCEPT ![s] = {}]
  /\ UNCHANGED <<queueVars, imap, jobVars, told, dropped, fetched>>

SessionStep(s) ==
  \/ Submit(s)
  \/ FirstProcess(s)
  \/ FirstThrows(s)
  \/ Enqueue(s)
  \/ Store(s)
  \/ GetBadId(s)
  \/ \E id \in Ids : GetFetches(s, id) \/ GetLooksFurther(s, id)
  \/ GetFinds(s)
  \/ ListQueue(s)
  \/ ListResults(s)

-----------------------------------------------------------------------------
(* WSApiWorker::runner.                                                    *)

WorkerMoves(from, to) ==
  /\ wpc = from
  /\ wpc' = to
  /\ UNCHANGED <<jobVars, sessionVars, told, dropped, fetched>>

WorkerBlocks ==
  /\ WorkerMoves("front", "front")
  /\ FrontBlocks(Worker)
  /\ UNCHANGED <<imap, cur, failed>>

WorkerWakes ==
  /\ WorkerMoves("front", "front")
  /\ SpuriousWakeup(Worker)
  /\ UNCHANGED <<imap, cur, failed>>

\* Mutant of WorkerTakesHead: front() does not wait and optWork.second is not
\* looked at.
WorkerTakesAny ==
  /\ WorkerMoves("front", "process")
  /\ cur' = IF iqueue = <<>> THEN 0 ELSE Head(iqueue)
  /\ UNCHANGED <<queueVars, imap, failed>>

\* Mutant of WorkerTakesHead: the job is taken off the queue to work on it.
WorkerPopsHead ==
  /\ WorkerMoves("front", "process")
  /\ Worker \notin waiters /\ iqueue # <<>>
  /\ cur' = Head(iqueue)
  /\ iqueue' = Tail(iqueue)
  /\ UNCHANGED <<isBlocking, qIsRunning, waiters, imap, failed>>

WorkerTakesHead ==
  /\ WorkerMoves("front", "process")
  /\ FrontReturns(Worker)
  /\ cur' = Head(iqueue)
  /\ UNCHANGED <<imap, failed>>

\* Mutant of WorkerProcesses: the job leaves the queue before its result is
\* stored.
WorkerRemovesEarly ==
  /\ WorkerMoves("process", "store")
  /\ RemoveAll(cur)
  /\ UNCHANGED <<imap, cur, failed>>

WorkerProcesses ==
  /\ WorkerMoves("process", "store")
  /\ UNCHANGED <<queueVars, imap, cur, failed>>

(* process() throws, or its error is not a string (line 70): the result is *)
(* not stored and the job is removed all the same.                         *)
WorkerThrows ==
  /\ WorkerMoves("process", "remove")
  /\ failed' = failed \cup {cur}
  /\ UNCHANGED <<queueVars, imap, cur>>

WorkerStores ==
  /\ WorkerMoves("store", "remove")
  /\ MapInsert(JobId(cur), cur)
  /\ UNCHANGED <<queueVars, cur, failed>>

\* Mutant of WorkerRemoves: the finished job is left in the queue.
WorkerForgetsRemove ==
  /\ WorkerMoves("remove", "front")
  /\ cur' = 0
  /\ UNCHANGED <<queueVars, imap, failed>>

WorkerRemoves ==
  /\ WorkerMoves("remove", "front")
  /\ RemoveAll(cur)
  /\ cur' = 0
  /\ UNCHANGED <<imap, failed>>

WorkerStep ==
  \/ WorkerBlocks
  \/ WorkerTakesHead
  \/ WorkerProcesses
  \/ WorkerThrows
  \/ WorkerStores
  \/ WorkerRemoves

-----------------------------------------------------------------------------

Next ==
  \/ \E s \in Sessions : SessionStep(s)
  \/ WorkerStep
  \/ WorkerWakes

Spec == Init /\ [][Next]_vars

(* The worker thread keeps being scheduled and process() returns.  Nothing *)
(* obliges a client to send a request.                                     *)
FairSpec == Spec /\ WF_vars(WorkerStep)

-----------------------------------------------------------------------------

Queued(j) == j \in Elements
Stored(j) == JobId(j) \in DOMAIN imap /\ imap[JobId(j)] = j

(* A client was given the job's id, the api took the job in, and its       *)
(* result is still to be had.                                              *)
Owed(j) ==
  j \in told /\ j \notin dropped /\ fetched[j] = 0 /\ j \notin failed

(* A command that is owed is at every moment in the queue or in the map,   *)
(* although the worker moves it from the one to the other in two critical  *)
(* sections (wsapi_worker.cpp:72-79).                                      *)
OwedIsHeld == \A j \in Jobs : Owed(j) => Queued(j) \/ Stored(j)

(* "work in process should still be marked as in queue"                    *)
(* (wsapi_worker.cpp:60): although urgent commands are pushed in front of  *)
(* it, the job that the worker is at stays queued until its result is      *)
(* stored.                                                                 *)
InProcessStillQueued == wpc # "front" => cur \in Elements

(* A list shows every command that the api took in and its client could    *)
(* know of when it asked, and whose result nobody has taken by the time it *)
(* is answered, however the worker moves it from the queue to the results  *)
(* in between (wsapi_handler.cpp:127-128).                                 *)
ListComplete ==
  [][\A s \in Sessions : \A j \in known[s] :
       spc[s] = "results" /\ spc'[s] = "idle" /\ Owed(j)
         => JobId(j) \in listed'[s]]_vars

(* "it would be highly embarassing for a "get" to not be able to find an   *)
(* item just because we were working on it" (wsapi_worker.cpp:60-61): a    *)
(* get answers "neither queued or completed" only about a command that was *)
(* never accepted, has failed, or whose result has been taken.             *)
GetFindsOwed ==
  [][\A s \in Sessions, j \in Jobs :
       spc[s] = "find" /\ reply'[s] = "missing" /\ JobId(j) = sarg[s]
         => ~Owed(j)]_vars

(* The worker starts no ordinary command while an urgent one waits.        *)
UrgentFirst ==
  [][\A j \in Elements :
       wpc = "front" /\ wpc' = "process" /\ urgent[j] => urgent[cur']]_vars

(* The result is stored or fetched, or process() has failed.               *)
Finished(j) == Stored(j) \/ fetched[j] > 0 \/ j \in failed

(* A get tells its client to wait only for a command that is yet to        *)
(* finish. The one exception is the command that the worker has stored and *)
(* is about to remove: its result may be gone by then, and the next get    *)
(* will not find the command any more (wsapi_worker.cpp:66-79).            *)
EnqueuedIsUnfinished ==
  [][\A s \in Sessions, j \in Jobs :
       spc[s] = "find" /\ spc'[s] = "idle" /\ reply'[s] = "enqueued"
         /\ JobId(j) = sarg[s]
       => ~Finished(j) \/ (wpc = "remove" /\ cur = j)]_vars

(* Every queued command is processed: it leaves the queue, and then it has *)
(* finished.                                                               *)
JobsFinish == \A j \in Jobs : Queued(j) ~> ~Queued(j) /\ Finished(j)

-----------------------------------------------------------------------------
(* The queue, the map and the two sides of the api implement the board of  *)
(* jobs.                                                                   *)
JobStatus(j) ==
  CASE fetched[j] > 0 -> "delivered"
    [] Stored(j) -> "done"
    [] j \in failed -> "failed"
    [] fetched[j] = 0 /\ ~Stored(j) /\ j \notin failed /\ Queued(j) -> "waiting"
    [] OTHER -> "none"

Board == INSTANCE JobBoard
           WITH Job <- Jobs,
                status <- [j \in Jobs |-> JobStatus(j)],
                deliveries <- fetched

JobBoardSpec == Board!BoardSpec
=============================================================================
