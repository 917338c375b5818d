---------------------------- MODULE WsApiProofs ----------------------------
(***************************************************************************)
(* Theorems about WsApi for every set of sessions and every number of      *)
(* deferred commands.                                                      *)
(*                                                                         *)
(* QInv, about the queue, holds whatever the ids do.  JInv, about where    *)
(* each job is, needs ids that do not wrap: with fewer deferred commands   *)
(* than the uint32 has values, every job has an id of its own; and so does *)
(* KInv, that what a client is owed is held.  None of them needs the queue *)
(* to be enabled: what a disabled queue drops is owed to nobody.           *)
(***************************************************************************)
EXTENDS WsApi, LockedQueueLemmas

(* Fewer commands are deferred than there are ids.                         *)
NoWrap == MaxJobs < IdLimit

Holds(s) == spc[s] \in {"first", "enqueue", "store"}

(* A job that a session has not handed over yet is held by that session    *)
(* only, and is not in the queue.                                          *)
HeldInv ==
  /\ \A s \in Sessions : Holds(s) => sarg[s] \in 1..cmdid
                                     /\ sarg[s] \notin Elements
  /\ \A s, u \in Sessions : Holds(s) /\ Holds(u) /\ sarg[s] = sarg[u] => s = u

QueueInv ==
  /\ isBlocking = TRUE /\ qIsRunning = CmdqEnabled
  /\ Elements \subseteq 1..cmdid

UrgentInFront ==
  \A i, k \in DOMAIN iqueue : i < k /\ urgent[iqueue[k]] => urgent[iqueue[i]]

QInv == TypeOK /\ HeldInv /\ QueueInv /\ UrgentInFront
          /\ InProcessStillQueued

-----------------------------------------------------------------------------
(* Where a job is.  Without wrapping a job's number is its id.             *)

Done(j) == j \in DOMAIN imap \/ fetched[j] > 0 \/ j \in failed

(* A job has one fate: its result waits, has been fetched, or there is     *)
(* none because process() threw.                                           *)
FateInv ==
  /\ \A id \in DOMAIN imap : imap[id] = id
  /\ \A j \in DOMAIN imap : fetched[j] = 0 /\ j \notin failed
  /\ \A j \in failed : fetched[j] = 0

(* A job has no fate before the worker or the session gives it one, and    *)
(* has one when the worker takes it off the queue.                         *)
PendingInv ==
  /\ \A j \in Jobs : j > cmdid => ~Done(j) /\ j \notin told
  /\ \A s \in Sessions : Holds(s) => ~Done(sarg[s]) /\ sarg[s] \notin told
  /\ \A j \in Elements : Done(j) <=> wpc = "remove" /\ j = cur

JInv == QInv /\ FateInv /\ PendingInv

(* What a client is owed is queued or stored, and a list that is being put *)
(* together has it already or will find it in the map.                     *)
KeptInv ==
  /\ \A j \in Jobs : Owed(j) => j \in Elements \cup DOMAIN imap
  /\ \A s \in Sessions : known[s] \subseteq told
  /\ \A s \in Sessions : spc[s] = "results" =>
       \A j \in known[s] : Owed(j) => j \in listed[s] \cup DOMAIN imap

KInv == JInv /\ KeptInv

-----------------------------------------------------------------------------
(* What the operations of the queue and of the map do.                     *)

(* A push makes room for one job at either end, or drops it.               *)
LEMMA PushEffect ==
  ASSUME QueueTypeOK({Worker}, Jobs), NEW j \in Jobs, Push(j) \/ PushFront(j)
  PROVE  /\ QueueTypeOK({Worker}, Jobs)'
         /\ UNCHANGED <<isBlocking, qIsRunning>>
         /\ Elements' = IF qIsRunning THEN Elements \cup {j} ELSE Elements
<1>1. /\ iqueue \in Seq(Jobs) /\ qIsRunning \in BOOLEAN /\ isBlocking \in BOOLEAN
      /\ waiters \subseteq {Worker}
  BY DEF QueueTypeOK
<1>2. UNCHANGED <<isBlocking, qIsRunning>>
  BY DEF Push, PushFront, Insert
<1>3. waiters' \subseteq {Worker}
  BY <1>1 DEF Push, PushFront, Insert, NotifyAll
<1>4. CASE qIsRunning
  <2>1. iqueue' = Append(iqueue, j) \/ iqueue' = <<j>> \o iqueue
    BY <1>4 DEF Push, PushFront, Insert
  <2>2. CASE iqueue' = Append(iqueue, j)
    <3>1. /\ iqueue' \in Seq(Jobs)
          /\ Len(iqueue) \in Nat /\ DOMAIN iqueue = 1..Len(iqueue)
          /\ DOMAIN iqueue' = 1..(Len(iqueue) + 1)
          /\ iqueue'[Len(iqueue) + 1] = j
          /\ \A i \in 1..Len(iqueue) : iqueue'[i] = iqueue[i]
      BY <1>1, <2>2
    <3>2. \A i \in DOMAIN iqueue' : i \in DOMAIN iqueue \/ i = Len(iqueue) + 1
      BY <3>1
    <3>3. \A i \in DOMAIN iqueue : i \in DOMAIN iqueue'
      BY <3>1
    <3>4. Len(iqueue) + 1 \in DOMAIN iqueue'
      BY <3>1
    <3>5. Elements' = Elements \cup {j}
      BY <3>1, <3>2, <3>3, <3>4 DEF Elements
    <3>6. QED
      BY <1>1, <1>2, <1>3, <1>4, <3>1, <3>5 DEF QueueTypeOK
  <2>3. CASE iqueue' = <<j>> \o iqueue
    <3>1. /\ iqueue' \in Seq(Jobs)
          /\ Len(iqueue) \in Nat /\ DOMAIN iqueue = 1..Len(iqueue)
          /\ DOMAIN iqueue' = 1..(Len(iqueue) + 1)
          /\ iqueue'[1] = j
          /\ \A i \in 1..Len(iqueue) : iqueue'[i + 1] = iqueue[i]
      BY <1>1, <2>3
    <3>2. \A i \in DOMAIN iqueue' : i = 1 \/ (i - 1 \in DOMAIN iqueue /\ (i - 1) + 1 = i)
      BY <3>1
    <3>3. \A i \in DOMAIN iqueue : i + 1 \in DOMAIN iqueue'
      BY <3>1
    <3>4. 1 \in DOMAIN iqueue'
      BY <3>1
    <3>5. \A i \in DOMAIN iqueue' : iqueue'[i] = j \/ iqueue'[i] \in Elements
      BY <3>1, <3>2 DEF Elements
    <3>6. \A i \in DOMAIN iqueue : iqueue[i] \in Elements'
      BY <3>1, <3>3 DEF Elements
    <3>7. j \in Elements'
      BY <3>1, <3>4 DEF Elements
    <3>8. Elements' = Elements \cup {j}
      BY <3>5, <3>6, <3>7 DEF Elements
    <3>9. QED
      BY <1>1, <1>2, <1>3, <1>4, <3>1, <3>8 DEF QueueTypeOK
  <2>4. QED
    BY <2>1, <2>2, <2>3
<1>5. CASE ~qIsRunning
  <2>1. iqueue' = iqueue
    BY <1>5 DEF Push, PushFront, Insert
  <2>2. QED
    BY <1>1, <1>2, <1>3, <1>5, <2>1 DEF Elements, QueueTypeOK
<1>6. QED
  BY <1>4, <1>5

LEMMA RemoveEffect ==
  ASSUME QueueTypeOK({Worker}, Jobs), NEW v, RemoveAll(v)
  PROVE  /\ QueueTypeOK({Worker}, Jobs)'
         /\ UNCHANGED <<isBlocking, qIsRunning>>
         /\ Elements' = Elements \ {v}
<1>1. iqueue \in Seq(Jobs) /\ iqueue' = Without(iqueue, v)
  BY DEF QueueTypeOK, RemoveAll
<1>2. iqueue' \in Seq(Jobs) /\ \E at : KeepsAt(at, iqueue, v)
  BY <1>1, WithoutKeepsRest
<1>3. PICK at : KeepsAt(at, iqueue, v)
  BY <1>2
<1>4. DOMAIN at = DOMAIN iqueue'
  BY <1>1, <1>2, <1>3 DEF KeepsAt
<1>5. /\ \A j \in DOMAIN iqueue' : /\ at[j] \in DOMAIN iqueue
                                   /\ iqueue[at[j]] # v
                                   /\ iqueue'[j] = iqueue[at[j]]
      /\ \A i \in DOMAIN iqueue : iqueue[i] # v => \E j \in DOMAIN iqueue' : at[j] = i
  BY <1>1, <1>3, <1>4 DEF KeepsAt
<1>6. Elements' = Elements \ {v}
  BY <1>5 DEF Elements
<1>7. UNCHANGED <<isBlocking, qIsRunning, waiters>>
  BY DEF RemoveAll
<1>8. QED
  BY <1>2, <1>6, <1>7 DEF QueueTypeOK

LEMMA MapInsertEffect ==
  ASSUME MapTypeOK(Ids, Jobs), NEW id \in Ids, NEW j \in Jobs, MapInsert(id, j)
  PROVE  /\ MapTypeOK(Ids, Jobs)'
         /\ DOMAIN imap' = DOMAIN imap \cup {id}
         /\ imap'[id] = j
         /\ \A k \in DOMAIN imap : k # id => imap'[k] = imap[k]
BY DEF MapInsert, MapTypeOK

LEMMA MapEraseEffect ==
  ASSUME MapTypeOK(Ids, Jobs), NEW id, MapErase(id)
  PROVE  /\ MapTypeOK(Ids, Jobs)'
         /\ DOMAIN imap' = DOMAIN imap \ {id}
         /\ \A k \in DOMAIN imap' : imap'[k] = imap[k]
BY DEF MapErase, MapTypeOK

LEMMA JobIdType ==
  ASSUME NEW j \in Nat
  PROVE  JobId(j) \in Ids
BY IdLimitAssumption DEF JobId, Ids

LEMMA JobIdIsOwn ==
  ASSUME NoWrap, NEW j \in Jobs
  PROVE  JobId(j) = j
<1>1. j \in Nat /\ j < IdLimit
  BY MaxJobsAssumption, IdLimitAssumption DEF NoWrap, Jobs
<1>2. \A a \in Nat, b \in Nat \ {0} : a < b => a % b = a
  OBVIOUS
<1>3. QED
  BY <1>1, <1>2, IdLimitAssumption DEF JobId
-----------------------------------------------------------------------------
(* Type correctness of a step, action by action.                           *)

SessionPcs == {"idle", "first", "enqueue", "store", "find", "results"}

LEMMA SessionMoves ==
  ASSUME TypeOK, NEW s \in Sessions,
         NEW from, NEW to \in SessionPcs, NEW arg \in Ids \cup 0..MaxJobs,
         \/ Continues(s, from, to, arg)
         \/ (\E kind \in Replies : Responds(s, from, kind)) /\ to = "idle" /\ arg = 0
  PROVE  /\ spc[s] = from
         /\ spc' = [spc EXCEPT ![s] = to] /\ sarg' = [sarg EXCEPT ![s] = arg]
         /\ spc' \in [Sessions -> SessionPcs]
         /\ sarg' \in [Sessions -> Ids \cup 0..MaxJobs]
         /\ reply' \in [Sessions -> Replies]
         /\ UNCHANGED <<wpc, cur, failed>>
<1>1. /\ spc[s] = from
      /\ spc' = [spc EXCEPT ![s] = to] /\ sarg' = [sarg EXCEPT ![s] = arg]
      /\ UNCHANGED <<wpc, cur, failed>>
  BY DEF Continues, Responds, workerVars
<1>2. reply' \in [Sessions -> Replies]
  BY DEF Continues, Responds, TypeOK, Replies
<1>3. /\ spc \in [Sessions -> SessionPcs]
      /\ sarg \in [Sessions -> Ids \cup 0..MaxJobs]
  BY DEF TypeOK, SessionPcs
<1>4. QED
  BY <1>1, <1>2, <1>3

LEMMA SubmitTypes ==
  ASSUME TypeOK, NEW s \in Sessions, Submit(s)
  PROVE  TypeOK'
<1>1. cmdid' \in Jobs /\ cmdid' \in 0..MaxJobs
  BY MaxJobsAssumption DEF Submit, TypeOK, Jobs
<1>2. Continues(s, "idle", "first", cmdid')
  BY DEF Submit
<1>3. /\ spc' \in [Sessions -> SessionPcs]
      /\ sarg' \in [Sessions -> Ids \cup 0..MaxJobs]
      /\ reply' \in [Sessions -> Replies]
      /\ UNCHANGED <<wpc, cur, failed>>
  BY <1>1, <1>2, SessionMoves DEF SessionPcs
<1>4. urgent' \in [Jobs -> BOOLEAN]
  BY DEF Submit, TypeOK
<1>5. UNCHANGED <<queueVars, imap, listed, told, dropped, fetched, known>>
  BY DEF Submit
<1>6. QED
  BY <1>1, <1>3, <1>4, <1>5
  DEF TypeOK, QueueTypeOK, MapTypeOK, queueVars, SessionPcs

LEMMA ProcessTypes ==
  ASSUME TypeOK, HeldInv, NEW s \in Sessions,
         FirstProcess(s) \/ FirstThrows(s) \/ Enqueue(s) \/ Store(s)
  PROVE  TypeOK'
<1>1. sarg[s] \in Jobs /\ sarg[s] \in Ids \cup 0..MaxJobs
  <2>1. Holds(s)
    BY DEF FirstProcess, FirstThrows, Enqueue, Store, Continues, Responds, Holds
  <2>2. QED
    BY <2>1, MaxJobsAssumption DEF HeldInv, TypeOK, Jobs
<1>2. 0 \in Ids \cup 0..MaxJobs /\ "id" \in Replies /\ "threw" \in Replies
  BY MaxJobsAssumption DEF Replies
<1>3. /\ spc' \in [Sessions -> SessionPcs]
      /\ sarg' \in [Sessions -> Ids \cup 0..MaxJobs]
      /\ reply' \in [Sessions -> Replies]
      /\ UNCHANGED <<wpc, cur, failed>>
  <2>1. CASE FirstProcess(s)
    <3>1. PICK to \in {"enqueue", "store"} : Continues(s, "first", to, sarg[s])
      BY <2>1 DEF FirstProcess
    <3>2. QED
      BY <1>1, <3>1, SessionMoves DEF SessionPcs
  <2>2. CASE FirstThrows(s) \/ Enqueue(s) \/ Store(s)
    <3>1. PICK from \in SessionPcs, kind \in Replies : Responds(s, from, kind)
      BY <1>2, <2>2 DEF FirstThrows, Enqueue, Store, SessionPcs
    <3>2. QED
      BY <1>2, <3>1, SessionMoves DEF SessionPcs
  <2>3. QED
    BY <2>1, <2>2
<1>4. UNCHANGED <<cmdid, urgent, listed, fetched, known>>
  BY DEF FirstProcess, FirstThrows, Enqueue, Store, jobVars
<1>5. QueueTypeOK({Worker}, Jobs)'
  <2>1. CASE UNCHANGED queueVars
    BY <2>1 DEF TypeOK, QueueTypeOK, queueVars
  <2>2. CASE Enqueue(s)
    BY <1>1, <2>2, PushEffect DEF Enqueue, TypeOK
  <2>3. QED
    BY <2>1, <2>2 DEF FirstProcess, FirstThrows, Store
<1>6. MapTypeOK(Ids, Jobs)'
  <2>1. CASE UNCHANGED imap
    BY <2>1 DEF TypeOK, MapTypeOK
  <2>2. CASE Store(s)
    <3>1. JobId(sarg[s]) \in Ids
      BY <1>1, JobIdType DEF Jobs
    <3>2. QED
      BY <1>1, <2>2, <3>1, MapInsertEffect DEF Store, TypeOK
  <2>3. QED
    BY <2>1, <2>2 DEF FirstProcess, FirstThrows, Enqueue
<1>7. told' \subseteq Jobs /\ dropped' \subseteq Jobs
  BY <1>1 DEF FirstProcess, FirstThrows, Enqueue, Store, TypeOK
<1>8. QED
  BY <1>3, <1>4, <1>5, <1>6, <1>7 DEF TypeOK, SessionPcs

LEMMA GetTypes ==
  ASSUME TypeOK, NEW s \in Sessions,
         \/ GetBadId(s) \/ GetFinds(s)
         \/ \E id \in Ids : GetFetches(s, id) \/ GetLooksFurther(s, id)
  PROVE  TypeOK'
<1>1. 0 \in Ids \cup 0..MaxJobs
  BY MaxJobsAssumption
<1>2. /\ spc' \in [Sessions -> SessionPcs]
      /\ sarg' \in [Sessions -> Ids \cup 0..MaxJobs]
      /\ reply' \in [Sessions -> Replies]
      /\ UNCHANGED <<wpc, cur, failed>>
  <2>1. CASE \E id \in Ids : GetLooksFurther(s, id)
    <3>1. PICK id \in Ids : Continues(s, "idle", "find", id)
      BY <2>1 DEF GetLooksFurther
    <3>2. QED
      BY <3>1, SessionMoves DEF SessionPcs
  <2>2. CASE GetBadId(s) \/ GetFinds(s) \/ \E id \in Ids : GetFetches(s, id)
    <3>1. PICK from \in SessionPcs, kind \in Replies : Responds(s, from, kind)
      BY <2>2 DEF GetBadId, GetFinds, GetFetches, SessionPcs, Replies
    <3>2. QED
      BY <1>1, <3>1, SessionMoves DEF SessionPcs
  <2>3. QED
    BY <2>1, <2>2
<1>3. UNCHANGED <<queueVars, jobVars, listed, told, dropped, known>>
  BY DEF GetBadId, GetFinds, GetFetches, GetLooksFurther
<1>4. MapTypeOK(Ids, Jobs)' /\ fetched' \in [Jobs -> Nat]
  <2>1. CASE UNCHANGED <<imap, fetched>>
    BY <2>1 DEF TypeOK, MapTypeOK
  <2>2. ASSUME NEW id \in Ids, GetFetches(s, id)
        PROVE  MapTypeOK(Ids, Jobs)' /\ fetched' \in [Jobs -> Nat]
    <3>1. MapTypeOK(Ids, Jobs) /\ MapErase(id) /\ id \in DOMAIN imap
      BY <2>2 DEF GetFetches, MapHas, TypeOK
    <3>2. MapTypeOK(Ids, Jobs)'
      BY <3>1, MapEraseEffect
    <3>3. imap[id] \in Jobs /\ fetched \in [Jobs -> Nat]
      BY <3>1 DEF MapTypeOK, TypeOK
    <3>4. fetched' = [fetched EXCEPT ![imap[id]] = @ + 1]
      BY <2>2 DEF GetFetches
    <3>5. fetched' \in [Jobs -> Nat]
      BY <3>3, <3>4
    <3>6. QED
      BY <3>2, <3>5
  <2>3. QED
    BY <2>1, <2>2 DEF GetBadId, GetFinds, GetLooksFurther
<1>5. QED
  BY <1>2, <1>3, <1>4 DEF TypeOK, QueueTypeOK, queueVars, jobVars, SessionPcs

LEMMA ListTypes ==
  ASSUME TypeOK, NEW s \in Sessions, ListQueue(s) \/ ListResults(s)
  PROVE  TypeOK'
<1>1. 0 \in Ids \cup 0..MaxJobs /\ "list" \in Replies
  BY MaxJobsAssumption DEF Replies
<1>2. /\ spc' \in [Sessions -> SessionPcs]
      /\ sarg' \in [Sessions -> Ids \cup 0..MaxJobs]
      /\ reply' \in [Sessions -> Replies]
      /\ UNCHANGED <<wpc, cur, failed>>
  <2>1. CASE ListQueue(s)
    BY <1>1, <2>1, SessionMoves DEF ListQueue, SessionPcs
  <2>2. CASE ListResults(s)
    BY <1>1, <2>2, SessionMoves DEF ListResults, SessionPcs
  <2>3. QED
    BY <2>1, <2>2
<1>3. UNCHANGED <<queueVars, imap, jobVars, told, dropped, fetched>>
  BY DEF ListQueue, ListResults
<1>4. listed' \in [Sessions -> SUBSET Ids]
  <2>1. {JobId(j) : j \in Elements} \subseteq Ids
    <3>1. \A j \in Elements : j \in Nat
      <4>1. \A i \in DOMAIN iqueue : iqueue[i] \in Jobs
        BY DEF TypeOK, QueueTypeOK
      <4>2. QED
        BY <4>1 DEF Elements, Jobs
    <3>2. QED
      BY <3>1, JobIdType
  <2>2. DOMAIN imap \subseteq Ids
    BY DEF TypeOK, MapTypeOK
  <2>3. QED
    BY <2>1, <2>2 DEF ListQueue, ListResults, TypeOK
<1>5. known' \in [Sessions -> SUBSET Jobs]
  BY DEF ListQueue, ListResults, TypeOK
<1>6. QED
  BY <1>2, <1>3, <1>4, <1>5
  DEF TypeOK, QueueTypeOK, MapTypeOK, queueVars, jobVars, SessionPcs

LEMMA WorkerTypes ==
  ASSUME TypeOK, QueueInv, InProcessStillQueued, WorkerStep \/ WorkerWakes
  PROVE  TypeOK'
<1>1. UNCHANGED <<jobVars, sessionVars, told, dropped, fetched>>
  BY DEF WorkerStep, WorkerWakes, WorkerBlocks, WorkerTakesHead, WorkerProcesses,
         WorkerThrows, WorkerStores, WorkerRemoves, WorkerMoves
<1>2. wpc # "front" => cur \in Jobs
  BY DEF InProcessStillQueued, Elements, TypeOK, QueueTypeOK
<1>3. wpc' \in {"front", "process", "store", "remove"}
  BY DEF WorkerStep, WorkerWakes, WorkerBlocks, WorkerTakesHead, WorkerProcesses,
         WorkerThrows, WorkerStores, WorkerRemoves, WorkerMoves
<1>4. QueueTypeOK({Worker}, Jobs)'
  <2>1. CASE WorkerBlocks \/ WorkerWakes
    BY <2>1 DEF WorkerBlocks, WorkerWakes, FrontBlocks, SpuriousWakeup, TypeOK,
                QueueTypeOK
  <2>2. CASE UNCHANGED queueVars
    BY <2>2 DEF TypeOK, QueueTypeOK, queueVars
  <2>3. CASE WorkerRemoves
    BY <2>3, RemoveEffect DEF WorkerRemoves, TypeOK
  <2>4. QED
    BY <2>1, <2>2, <2>3
    DEF WorkerStep, WorkerTakesHead, WorkerProcesses, WorkerThrows, WorkerStores,
        FrontReturns
<1>5. MapTypeOK(Ids, Jobs)'
  <2>1. CASE UNCHANGED imap
    BY <2>1 DEF TypeOK, MapTypeOK
  <2>2. CASE WorkerStores
    <3>1. cur \in Jobs /\ JobId(cur) \in Ids
      BY <1>2, <2>2, JobIdType DEF WorkerStores, WorkerMoves, Jobs
    <3>2. QED
      BY <2>2, <3>1, MapInsertEffect DEF WorkerStores, TypeOK
  <2>3. QED
    BY <2>1, <2>2
    DEF WorkerStep, WorkerWakes, WorkerBlocks, WorkerTakesHead, WorkerProcesses,
        WorkerThrows, WorkerRemoves
<1>6. cur' \in 0..MaxJobs
  <2>1. CASE UNCHANGED cur
    BY <2>1 DEF TypeOK
  <2>2. CASE WorkerTakesHead
    <3>1. iqueue # <<>> => Head(iqueue) \in Jobs
      BY DEF TypeOK, QueueTypeOK
    <3>2. iqueue # <<>>
      BY <2>2 DEF WorkerTakesHead, FrontReturns, WaitOver, QueueInv
    <3>3. QED
      BY <2>2, <3>1, <3>2, MaxJobsAssumption DEF WorkerTakesHead, Jobs
  <2>3. CASE WorkerRemoves
    BY <2>3, MaxJobsAssumption DEF WorkerRemoves
  <2>4. QED
    BY <2>1, <2>2, <2>3
    DEF WorkerStep, WorkerWakes, WorkerBlocks, WorkerProcesses, WorkerThrows,
        WorkerStores
<1>7. failed' \subseteq Jobs
  <2>1. CASE UNCHANGED failed
    BY <2>1 DEF TypeOK
  <2>2. CASE WorkerThrows
    BY <1>2, <2>2 DEF WorkerThrows, WorkerMoves, TypeOK
  <2>3. QED
    BY <2>1, <2>2
    DEF WorkerStep, WorkerWakes, WorkerBlocks, WorkerTakesHead, WorkerProcesses,
        WorkerStores, WorkerRemoves
<1>8. QED
  BY <1>1, <1>3, <1>4, <1>5, <1>6, <1>7 DEF TypeOK, jobVars, sessionVars
-----------------------------------------------------------------------------
(* Every step but a Submit makes no jobs and gives none to a session; and  *)
(* every step but an Enqueue or a remove leaves the queue as it is.        *)
NoNewJob ==
  /\ UNCHANGED <<cmdid, urgent, isBlocking, qIsRunning>>
  /\ \A s \in Sessions : Holds(s)' => Holds(s) /\ sarg'[s] = sarg[s]

Advances ==
  /\ NoNewJob
  /\ UNCHANGED iqueue
  /\ wpc = "front" /\ wpc' # "front" => iqueue # <<>> /\ cur' = Head(iqueue)
  /\ wpc # "front" /\ wpc' # "front" => cur' = cur

LEMMA SessionAdvances ==
  ASSUME TypeOK, NEW s \in Sessions, SessionStep(s), ~Submit(s), ~Enqueue(s)
  PROVE  Advances
<1>1. /\ UNCHANGED <<queueVars, jobVars, wpc, cur>>
      /\ \A u \in Sessions : u # s => spc'[u] = spc[u] /\ sarg'[u] = sarg[u]
      /\ Holds(s)' => Holds(s) /\ sarg'[s] = sarg[s]
  <2>1. CASE FirstProcess(s)
    BY <2>1 DEF FirstProcess, Continues, Holds, TypeOK, workerVars
  <2>2. CASE FirstThrows(s) \/ Store(s) \/ GetBadId(s) \/ GetFinds(s)
             \/ ListResults(s) \/ \E id \in Ids : GetFetches(s, id)
    <3>1. PICK from, kind : Responds(s, from, kind) /\ UNCHANGED <<queueVars, jobVars>>
      BY <2>2 DEF FirstThrows, Store, GetBadId, GetFinds, ListResults, GetFetches
    <3>2. QED
      BY <3>1 DEF Responds, Holds, TypeOK, workerVars
  <2>3. CASE ListQueue(s) \/ \E id \in Ids : GetLooksFurther(s, id)
    <3>1. PICK to \in {"find", "results"}, arg \in Ids \cup {0} :
            Continues(s, "idle", to, arg) /\ UNCHANGED <<queueVars, jobVars>>
      BY <2>3 DEF ListQueue, GetLooksFurther
    <3>2. QED
      BY <3>1 DEF Continues, Holds, TypeOK, workerVars
  <2>4. QED
    BY <2>1, <2>2, <2>3 DEF SessionStep
<1>2. \A u \in Sessions : Holds(u)' => Holds(u) /\ sarg'[u] = sarg[u]
  BY <1>1 DEF Holds
<1>3. QED
  BY <1>1, <1>2 DEF Advances, NoNewJob, queueVars, jobVars

LEMMA WorkerAdvances ==
  ASSUME TypeOK, QueueInv, WorkerStep \/ WorkerWakes, ~WorkerRemoves
  PROVE  Advances
<1>1. UNCHANGED <<jobVars, sessionVars>>
  BY DEF WorkerStep, WorkerWakes, WorkerBlocks, WorkerTakesHead, WorkerProcesses,
         WorkerThrows, WorkerStores, WorkerMoves
<1>2. UNCHANGED <<iqueue, isBlocking, qIsRunning>>
  BY DEF WorkerStep, WorkerWakes, WorkerBlocks, WorkerTakesHead, WorkerProcesses,
         WorkerThrows, WorkerStores, FrontBlocks, FrontReturns, SpuriousWakeup,
         queueVars
<1>3. \/ wpc = "front" /\ wpc' = "front"
      \/ WorkerTakesHead
      \/ wpc # "front" /\ cur' = cur
  BY DEF WorkerStep, WorkerWakes, WorkerBlocks, WorkerProcesses, WorkerThrows,
         WorkerStores, WorkerMoves
<1>4. WorkerTakesHead => wpc = "front" /\ iqueue # <<>> /\ cur' = Head(iqueue)
  BY DEF WorkerTakesHead, WorkerMoves, FrontReturns, WaitOver, QueueInv
<1>5. NoNewJob
  BY <1>1, <1>2 DEF NoNewJob, Holds, jobVars, sessionVars
<1>6. QED
  BY <1>2, <1>3, <1>4, <1>5 DEF Advances

LEMMA Steps ==
  ASSUME TypeOK, QueueInv, [Next]_vars
  PROVE  \/ Advances
         \/ \E s \in Sessions : Submit(s) \/ Enqueue(s)
         \/ WorkerRemoves
<1>1. CASE UNCHANGED vars
  <2>1. UNCHANGED <<queueVars, jobVars, sessionVars, workerVars>>
    BY <1>1 DEF vars
  <2>2. QED
    BY <2>1 DEF queueVars, jobVars, sessionVars, workerVars, Advances, NoNewJob,
                Holds
<1>2. CASE Next
  BY <1>2, SessionAdvances, WorkerAdvances DEF Next
<1>3. QED
  BY <1>1, <1>2

LEMMA AdvanceKeeps ==
  ASSUME TypeOK, HeldInv, QueueInv, UrgentInFront, InProcessStillQueued, Advances
  PROVE  HeldInv' /\ QueueInv' /\ UrgentInFront' /\ InProcessStillQueued'
<1>1. Elements' = Elements
  BY DEF Advances, Elements
<1>2. HeldInv'
  BY <1>1 DEF HeldInv, Advances, NoNewJob
<1>3. QueueInv'
  BY <1>1 DEF QueueInv, Advances, NoNewJob
<1>4. UrgentInFront'
  BY DEF UrgentInFront, Advances, NoNewJob
<1>5. InProcessStillQueued'
  <2>1. iqueue # <<>> => Head(iqueue) \in Elements
    <3>1. iqueue # <<>> => 1 \in DOMAIN iqueue /\ Head(iqueue) = iqueue[1]
      BY DEF TypeOK, QueueTypeOK
    <3>2. QED
      BY <3>1 DEF Elements
  <2>2. QED
    BY <1>1, <2>1 DEF InProcessStillQueued, Advances
<1>6. QED
  BY <1>2, <1>3, <1>4, <1>5

(* A new job is one no session holds and the queue does not have.          *)
LEMMA SubmitKeeps ==
  ASSUME TypeOK, HeldInv, QueueInv, UrgentInFront, InProcessStillQueued,
         NEW s \in Sessions, Submit(s)
  PROVE  HeldInv' /\ QueueInv' /\ UrgentInFront' /\ InProcessStillQueued'
<1>1. /\ cmdid \in Nat /\ cmdid' = cmdid + 1 /\ cmdid' \in Jobs
      /\ spc' = [spc EXCEPT ![s] = "first"] /\ sarg' = [sarg EXCEPT ![s] = cmdid']
  BY MaxJobsAssumption DEF Submit, Continues, TypeOK, Jobs
<1>2. UNCHANGED <<iqueue, isBlocking, qIsRunning, wpc, cur>>
  BY DEF Submit, Continues, queueVars, workerVars
<1>3. Elements' = Elements
  BY <1>2 DEF Elements
<1>4. cmdid' \notin Elements
  BY <1>1 DEF QueueInv
<1>5. HeldInv'
  <2>1. \A u \in Sessions : u # s => spc'[u] = spc[u] /\ sarg'[u] = sarg[u]
    BY <1>1 DEF TypeOK
  <2>2. sarg'[s] = cmdid'
    BY <1>1 DEF TypeOK
  <2>3. \A u \in Sessions : u # s /\ Holds(u)' =>
          sarg'[u] \in 1..cmdid /\ sarg'[u] \notin Elements /\ sarg'[u] = sarg[u] /\ Holds(u)
    BY <2>1 DEF HeldInv, Holds
  <2>4. \A u \in Sessions : u # s /\ Holds(u)' => sarg'[u] # cmdid' /\ sarg'[u] \in 1..cmdid'
    BY <1>1, <2>3
  <2>5. cmdid' \in 1..cmdid'
    BY <1>1
  <2>6. \A u \in Sessions : Holds(u)' => sarg'[u] \in 1..cmdid' /\ sarg'[u] \notin Elements'
    BY <1>3, <1>4, <2>2, <2>3, <2>4, <2>5
  <2>7. \A u, w \in Sessions : Holds(u)' /\ Holds(w)' /\ sarg'[u] = sarg'[w] => u = w
    BY <2>2, <2>3, <2>4 DEF HeldInv
  <2>8. QED
    BY <2>6, <2>7 DEF HeldInv
<1>6. QueueInv'
  BY <1>1, <1>2, <1>3 DEF QueueInv
<1>7. UrgentInFront'
  <2>1. \A i \in DOMAIN iqueue : iqueue[i] # cmdid'
    BY <1>4 DEF Elements
  <2>2. \A i \in DOMAIN iqueue : urgent'[iqueue[i]] = urgent[iqueue[i]]
    <3>1. urgent' = urgent \/ urgent' = [urgent EXCEPT ![cmdid'] = TRUE]
      BY DEF Submit
    <3>2. \A i \in DOMAIN iqueue : iqueue[i] \in Jobs
      BY DEF TypeOK, QueueTypeOK
    <3>3. DOMAIN urgent = Jobs
      BY DEF TypeOK
    <3>4. QED
      BY <2>1, <3>1, <3>2, <3>3, Zenon
  <2>3. QED
    BY <1>2, <2>2 DEF UrgentInFront
<1>8. InProcessStillQueued'
  BY <1>2, <1>3 DEF InProcessStillQueued
<1>9. QED
  BY <1>5, <1>6, <1>7, <1>8

(* An urgent job goes in front of all others, an ordinary one behind them. *)
LEMMA EnqueueOrder ==
  ASSUME TypeOK, UrgentInFront, NEW s \in Sessions, Enqueue(s), sarg[s] \in Jobs
  PROVE  UrgentInFront'
<1> DEFINE j == sarg[s]
<1>1. iqueue \in Seq(Jobs) /\ urgent' = urgent
  BY DEF Enqueue, TypeOK, QueueTypeOK, jobVars
<1>2. \/ iqueue' = iqueue
      \/ urgent[j] /\ iqueue' = <<j>> \o iqueue
      \/ ~urgent[j] /\ iqueue' = Append(iqueue, j)
  BY DEF Enqueue, Push, PushFront, Insert
<1> HIDE DEF j
<1>3. j \in Jobs
  BY DEF j
<1>4. CASE iqueue' = iqueue
  BY <1>1, <1>4 DEF UrgentInFront
<1>5. CASE urgent[j] /\ iqueue' = <<j>> \o iqueue
  <2>1. /\ Len(iqueue) \in Nat /\ DOMAIN iqueue = 1..Len(iqueue)
        /\ DOMAIN iqueue' = 1..(Len(iqueue) + 1)
        /\ iqueue'[1] = j
        /\ \A i \in DOMAIN iqueue' : i # 1
             => i - 1 \in DOMAIN iqueue /\ iqueue'[i] = iqueue[i - 1]
    BY <1>1, <1>3, <1>5
  <2>2. ASSUME NEW i \in DOMAIN iqueue', NEW k \in DOMAIN iqueue', i < k,
               urgent[iqueue'[k]]
        PROVE  urgent[iqueue'[i]]
    <3>1. CASE i = 1
      BY <1>5, <2>1, <3>1
    <3>2. CASE i # 1
      <4>1. k # 1 /\ i - 1 < k - 1
        BY <2>1, <2>2, <3>2
      <4>2. /\ i - 1 \in DOMAIN iqueue /\ iqueue'[i] = iqueue[i - 1]
            /\ k - 1 \in DOMAIN iqueue /\ iqueue'[k] = iqueue[k - 1]
        BY <2>1, <2>2, <3>2, <4>1
      <4>3. QED
        BY <2>2, <4>1, <4>2 DEF UrgentInFront
    <3>3. QED
      BY <3>1, <3>2
  <2>3. QED
    BY <1>1, <2>2 DEF UrgentInFront
<1>6. CASE ~urgent[j] /\ iqueue' = Append(iqueue, j)
  <2>1. /\ Len(iqueue) \in Nat /\ DOMAIN iqueue = 1..Len(iqueue)
        /\ DOMAIN iqueue' = 1..(Len(iqueue) + 1)
        /\ iqueue'[Len(iqueue) + 1] = j
        /\ \A i \in DOMAIN iqueue' : i # Len(iqueue) + 1
             => i \in DOMAIN iqueue /\ iqueue'[i] = iqueue[i]
    BY <1>1, <1>3, <1>6
  <2>2. ASSUME NEW i \in DOMAIN iqueue', NEW k \in DOMAIN iqueue', i < k,
               urgent[iqueue'[k]]
        PROVE  urgent[iqueue'[i]]
    <3>1. k # Len(iqueue) + 1
      BY <1>6, <2>1, <2>2
    <3>2. i # Len(iqueue) + 1
      BY <2>1, <2>2, <3>1
    <3>3. QED
      BY <2>1, <2>2, <3>1, <3>2 DEF UrgentInFront
  <2>3. QED
    BY <1>1, <2>2 DEF UrgentInFront
<1>7. QED
  BY <1>2, <1>4, <1>5, <1>6

LEMMA EnqueueKeeps ==
  ASSUME TypeOK, HeldInv, QueueInv, UrgentInFront, InProcessStillQueued,
         NEW s \in Sessions, Enqueue(s)
  PROVE  HeldInv' /\ QueueInv' /\ UrgentInFront' /\ InProcessStillQueued'
<1>1. /\ Responds(s, "enqueue", "id")
      /\ Push(sarg[s]) \/ PushFront(sarg[s])
      /\ UNCHANGED jobVars
  BY DEF Enqueue
<1>2. Holds(s) /\ sarg[s] \in 1..cmdid
  BY <1>1 DEF Responds, Holds, HeldInv
<1>3. sarg[s] \in Jobs
  BY <1>2, MaxJobsAssumption DEF TypeOK, Jobs
<1>4. /\ UNCHANGED <<isBlocking, qIsRunning>>
      /\ Elements \subseteq Elements'
      /\ Elements' \subseteq Elements \cup {sarg[s]}
  <2>1. /\ UNCHANGED <<isBlocking, qIsRunning>>
        /\ Elements' = IF qIsRunning THEN Elements \cup {sarg[s]} ELSE Elements
    BY <1>1, <1>3, PushEffect DEF TypeOK
  <2>2. QED
    BY <2>1
<1>5. /\ \A u \in Sessions : u # s => spc'[u] = spc[u] /\ sarg'[u] = sarg[u]
      /\ ~Holds(s)'
  BY <1>1 DEF Responds, Holds, TypeOK
<1>6. UNCHANGED <<cmdid, wpc, cur>>
  BY <1>1 DEF Responds, jobVars, workerVars
<1>7. HeldInv'
  <2>1. \A u \in Sessions : Holds(u)' => u # s /\ Holds(u) /\ sarg'[u] = sarg[u]
    BY <1>5 DEF Holds
  <2>2. \A u \in Sessions : Holds(u)' => sarg'[u] # sarg[s]
    BY <1>2, <2>1 DEF HeldInv
  <2>3. \A u \in Sessions : Holds(u)' => sarg'[u] \in 1..cmdid' /\ sarg'[u] \notin Elements'
    BY <1>4, <1>6, <2>1, <2>2 DEF HeldInv
  <2>4. \A u, w \in Sessions : Holds(u)' /\ Holds(w)' /\ sarg'[u] = sarg'[w] => u = w
    BY <2>1 DEF HeldInv
  <2>5. QED
    BY <2>3, <2>4 DEF HeldInv
<1>8. QueueInv'
  BY <1>2, <1>4, <1>6 DEF QueueInv
<1>9. UrgentInFront'
  BY <1>3, EnqueueOrder
<1>10. InProcessStillQueued'
  BY <1>4, <1>6 DEF InProcessStillQueued
<1>11. QED
  BY <1>7, <1>8, <1>9, <1>10

LEMMA RemoveKeeps ==
  ASSUME TypeOK, HeldInv, QueueInv, UrgentInFront, WorkerRemoves
  PROVE  HeldInv' /\ QueueInv' /\ UrgentInFront' /\ InProcessStillQueued'
<1>1. RemoveAll(cur) /\ wpc' = "front" /\ UNCHANGED <<jobVars, sessionVars>>
  BY DEF WorkerRemoves, WorkerMoves
<1>2. /\ UNCHANGED <<isBlocking, qIsRunning>>
      /\ Elements' \subseteq Elements
  BY <1>1, RemoveEffect DEF TypeOK
<1>3. HeldInv' /\ QueueInv'
  BY <1>1, <1>2 DEF HeldInv, QueueInv, Holds, jobVars, sessionVars
<1>4. InProcessStillQueued'
  BY <1>1 DEF InProcessStillQueued
<1>5. UrgentInFront'
  <2>1. iqueue \in Seq(Jobs) /\ iqueue' = Without(iqueue, cur) /\ urgent' = urgent
    BY <1>1 DEF TypeOK, QueueTypeOK, RemoveAll, jobVars
  <2>2. iqueue' \in Seq(Jobs) /\ \E at : KeepsAt(at, iqueue, cur)
    BY <2>1, WithoutKeepsRest
  <2>3. PICK at : KeepsAt(at, iqueue, cur)
    BY <2>2
  <2>4. DOMAIN at = DOMAIN iqueue'
    BY <2>1, <2>2, <2>3 DEF KeepsAt
  <2>5. \A i \in DOMAIN iqueue' : at[i] \in DOMAIN iqueue /\ iqueue'[i] = iqueue[at[i]]
    BY <2>1, <2>3, <2>4 DEF KeepsAt
  <2>6. \A i, k \in DOMAIN iqueue' : i < k => at[i] < at[k]
    BY <2>3, <2>4 DEF KeepsAt
  <2>7. QED
    BY <2>1, <2>5, <2>6 DEF UrgentInFront
<1>6. QED
  BY <1>3, <1>4, <1>5
-----------------------------------------------------------------------------

LEMMA InitQInv == Init => QInv
<1> SUFFICES ASSUME Init PROVE QInv
  OBVIOUS
<1>1. TypeOK
  <2>1. QueueTypeOK({Worker}, Jobs)
    <3>1. iqueue \in Seq(Jobs) /\ waiters \subseteq {Worker} /\ isBlocking \in BOOLEAN
      BY DEF Init
    <3>2. qIsRunning \in BOOLEAN
      BY CmdqEnabledAssumption DEF Init
    <3>3. QED
      BY <3>1, <3>2 DEF QueueTypeOK
  <2>2. MapTypeOK(Ids, Jobs)
    BY DEF Init, MapInit, MapTypeOK
  <2>3. /\ cmdid \in 0..MaxJobs /\ cur \in 0..MaxJobs
        /\ sarg \in [Sessions -> Ids \cup 0..MaxJobs]
    BY MaxJobsAssumption DEF Init
  <2>4. /\ urgent \in [Jobs -> BOOLEAN]
        /\ spc \in [Sessions -> {"idle", "first", "enqueue", "store", "find", "results"}]
        /\ listed \in [Sessions -> SUBSET Ids]
        /\ reply \in [Sessions -> Replies]
        /\ wpc \in {"front", "process", "store", "remove"}
        /\ told \subseteq Jobs /\ dropped \subseteq Jobs /\ failed \subseteq Jobs
        /\ fetched \in [Jobs -> Nat] /\ known \in [Sessions -> SUBSET Jobs]
    BY DEF Init, Replies
  <2>5. QED
    BY <2>1, <2>2, <2>3, <2>4 DEF TypeOK
<1>2. Elements = {}
  BY DEF Init, Elements
<1>3. HeldInv
  BY DEF Init, HeldInv, Holds
<1>4. QueueInv /\ UrgentInFront /\ InProcessStillQueued
  BY <1>2 DEF Init, QueueInv, UrgentInFront, InProcessStillQueued
<1>5. QED
  BY <1>1, <1>3, <1>4 DEF QInv

LEMMA NextQInv == QInv /\ [Next]_vars => QInv'
<1> SUFFICES ASSUME QInv, [Next]_vars PROVE QInv'
  OBVIOUS
<1>1. TypeOK /\ HeldInv /\ QueueInv /\ UrgentInFront /\ InProcessStillQueued
  BY DEF QInv
<1>2. TypeOK'
  <2>1. CASE UNCHANGED vars
    BY <1>1, <2>1
    DEF vars, queueVars, jobVars, sessionVars, workerVars, TypeOK, QueueTypeOK,
        MapTypeOK
  <2>2. ASSUME NEW s \in Sessions, SessionStep(s)
        PROVE  TypeOK'
    BY <1>1, <2>2, SubmitTypes, ProcessTypes, GetTypes, ListTypes DEF SessionStep
  <2>3. CASE WorkerStep \/ WorkerWakes
    BY <1>1, <2>3, WorkerTypes
  <2>4. QED
    BY <2>1, <2>2, <2>3 DEF Next
<1>3. HeldInv' /\ QueueInv' /\ UrgentInFront' /\ InProcessStillQueued'
  BY <1>1, Steps, AdvanceKeeps, SubmitKeeps, EnqueueKeeps, RemoveKeeps
<1>4. QED
  BY <1>2, <1>3 DEF QInv

LEMMA QueueInductive == Spec => []QInv
BY InitQInv, NextQInv, PTL DEF Spec

(* Type correctness: in particular the worker's optWork always holds a job *)
(* when it processes, stores or removes one (wsapi_worker.cpp:56-76).      *)
THEOREM TypeCorrect == Spec => []TypeOK
<1>1. QInv => TypeOK
  BY DEF QInv
<1>2. QED
  BY <1>1, QueueInductive, PTL

(* The job that the worker is at stays in the queue, whatever the sessions *)
(* push in front of it or behind it (wsapi_worker.cpp:60-61).              *)
THEOREM WorkInProcessStaysQueued == Spec => []InProcessStillQueued
<1>1. QInv => InProcessStillQueued
  BY DEF QInv
<1>2. QED
  BY <1>1, QueueInductive, PTL

(* The worker starts no ordinary command while an urgent one waits         *)
(* (wsapi_handler.cpp:64-68).                                              *)
THEOREM UrgentOvertakes == Spec => UrgentFirst
<1> DEFINE A == \A j \in Elements :
                  wpc = "front" /\ wpc' = "process" /\ urgent[j] => urgent[cur']
<1>1. QInv /\ [Next]_vars => [A]_vars
  <2> SUFFICES ASSUME QInv, [Next]_vars, NEW j \in Elements,
                      wpc = "front", wpc' = "process", urgent[j]
               PROVE  urgent[cur']
    OBVIOUS
  <2>1. TypeOK /\ QueueInv /\ UrgentInFront
    BY DEF QInv
  <2>2. Advances
    <3>1. ~WorkerRemoves
      BY DEF WorkerRemoves, WorkerMoves
    <3>2. ASSUME NEW s \in Sessions
          PROVE  ~(Submit(s) \/ Enqueue(s))
      BY DEF Submit, Enqueue, Continues, Responds, workerVars
    <3>3. QED
      BY <2>1, <3>1, <3>2, Steps
  <2>3. iqueue # <<>> /\ cur' = Head(iqueue)
    BY <2>2 DEF Advances
  <2>4. 1 \in DOMAIN iqueue /\ cur' = iqueue[1] /\ \A i \in DOMAIN iqueue : i = 1 \/ 1 < i
    BY <2>1, <2>3 DEF TypeOK, QueueTypeOK
  <2>5. QED
    BY <2>1, <2>4 DEF UrgentInFront, Elements
<1>2. QED
  BY <1>1, QueueInductive, PTL DEF Spec, UrgentFirst
-----------------------------------------------------------------------------
(* Where a job is, step by step.                                           *)

FateSame == UNCHANGED <<imap, fetched, failed>>

(* Steps that neither move a job nor tell anybody about one.               *)
Calm ==
  /\ Advances
  /\ FateSame /\ UNCHANGED <<told, dropped>>
  /\ wpc' = "remove" <=> wpc = "remove"

MovesJob ==
  \/ \E s \in Sessions : \/ Submit(s) \/ Enqueue(s) \/ Store(s)
                         \/ \E id \in Ids : GetFetches(s, id)
  \/ WorkerThrows \/ WorkerStores \/ WorkerRemoves

LEMMA JobSteps ==
  ASSUME TypeOK, QueueInv, [Next]_vars
  PROVE  Calm \/ MovesJob
<1>1. CASE UNCHANGED vars
  <2>1. UNCHANGED <<queueVars, jobVars, sessionVars, workerVars, imap, told, dropped, fetched>>
    BY <1>1 DEF vars
  <2>2. QED
    BY <2>1 DEF queueVars, jobVars, sessionVars, workerVars, Calm, FateSame, Advances,
                NoNewJob, Holds
<1>2. ASSUME NEW s \in Sessions, SessionStep(s), ~MovesJob
      PROVE  Calm
  <2>1. ~Submit(s) /\ ~Enqueue(s)
    BY <1>2 DEF MovesJob
  <2>2. \/ FirstProcess(s) \/ FirstThrows(s) \/ GetBadId(s) \/ GetFinds(s)
        \/ ListQueue(s) \/ ListResults(s) \/ \E id \in Ids : GetLooksFurther(s, id)
    BY <1>2 DEF SessionStep, MovesJob
  <2>3. UNCHANGED <<imap, fetched, told, dropped, workerVars>>
    BY <2>2 DEF FirstProcess, FirstThrows, GetBadId, GetFinds, ListQueue, ListResults,
                GetLooksFurther, Continues, Responds
  <2>4. Advances
    BY <1>2, <2>1, SessionAdvances
  <2>5. QED
    BY <2>3, <2>4 DEF Calm, FateSame, workerVars
<1>3. CASE (WorkerStep \/ WorkerWakes) /\ ~MovesJob
  <2>1. Advances
    BY <1>3, WorkerAdvances DEF MovesJob
  <2>2. WorkerBlocks \/ WorkerTakesHead \/ WorkerProcesses \/ WorkerWakes
    BY <1>3 DEF WorkerStep, MovesJob
  <2>3. /\ UNCHANGED <<imap, fetched, told, dropped, failed>>
        /\ wpc' = "remove" <=> wpc = "remove"
    BY <2>2 DEF WorkerBlocks, WorkerTakesHead, WorkerProcesses, WorkerWakes, WorkerMoves
  <2>4. QED
    BY <2>1, <2>3 DEF Calm, FateSame
<1>4. QED
  BY <1>1, <1>2, <1>3 DEF Next

LEMMA CalmKeeps ==
  ASSUME JInv, Calm
  PROVE  FateInv' /\ PendingInv'
<1>1. UNCHANGED <<imap, fetched, failed, told, dropped, cmdid>> /\ Elements' = Elements
  BY DEF Calm, FateSame, Advances, NoNewJob, Elements
<1>2. \A j \in Jobs : Done(j)' <=> Done(j)
  BY <1>1 DEF Done
<1>3. FateInv'
  BY <1>1 DEF JInv, FateInv
<1>4. \A s \in Sessions : Holds(s)' => Holds(s) /\ sarg'[s] = sarg[s]
  BY DEF Calm, Advances, NoNewJob
<1>5. wpc = "remove" => cur' = cur
  BY DEF Calm, Advances
<1>6. wpc' = "remove" <=> wpc = "remove"
  BY DEF Calm
<1>7. PendingInv'
  BY <1>1, <1>4, <1>5, <1>6 DEF JInv, PendingInv, Done
<1>8. QED
  BY <1>3, <1>7

LEMMA SubmitPending ==
  ASSUME JInv, NEW s \in Sessions, Submit(s)
  PROVE  FateInv' /\ PendingInv'
<1>1. /\ cmdid \in Nat /\ cmdid' = cmdid + 1 /\ cmdid' \in Jobs
      /\ spc' = [spc EXCEPT ![s] = "first"] /\ sarg' = [sarg EXCEPT ![s] = cmdid']
      /\ UNCHANGED <<imap, fetched, failed, told, iqueue, wpc, cur>>
  BY MaxJobsAssumption
  DEF Submit, Continues, JInv, QInv, TypeOK, Jobs, queueVars, workerVars
<1>2. FateInv' /\ Elements' = Elements
  BY <1>1 DEF JInv, FateInv, Elements
<1>3. /\ \A u \in Sessions : u # s => spc'[u] = spc[u] /\ sarg'[u] = sarg[u]
      /\ sarg'[s] = cmdid'
  BY <1>1 DEF JInv, QInv, TypeOK
<1>4. \A j \in Jobs : j > cmdid' => j > cmdid
  BY <1>1 DEF Jobs
<1>5. cmdid' > cmdid
  BY <1>1
<1>6. \A j \in Jobs : j > cmdid' => ~Done(j)' /\ j \notin told'
  BY <1>1, <1>4 DEF JInv, PendingInv, Done
<1>7. ~Done(cmdid') /\ cmdid' \notin told
  BY <1>1, <1>5 DEF JInv, PendingInv
<1>8. \A u \in Sessions : Holds(u)' => ~Done(sarg'[u]) /\ sarg'[u] \notin told
  BY <1>3, <1>7 DEF JInv, PendingInv, Holds
<1>9. \A u \in Sessions : Holds(u)' => ~Done(sarg[u])' /\ sarg'[u] \notin told'
  BY <1>1, <1>8 DEF Done
<1>10. \A j \in Elements' : Done(j)' <=> wpc' = "remove" /\ j = cur'
  BY <1>1, <1>2 DEF JInv, PendingInv, Done
<1>11. QED
  BY <1>2, <1>6, <1>9, <1>10 DEF PendingInv

LEMMA EnqueuePending ==
  ASSUME JInv, NEW s \in Sessions, Enqueue(s)
  PROVE  FateInv' /\ PendingInv'
<1> DEFINE j == sarg[s]
<1>1. /\ Responds(s, "enqueue", "id")
      /\ Push(j) \/ PushFront(j)
      /\ told' = told \cup {j}
      /\ UNCHANGED <<imap, fetched, failed, cmdid, wpc, cur>>
  BY DEF Enqueue, Responds, jobVars, workerVars
<1>2. Holds(s) /\ j \in 1..cmdid /\ j \notin Elements /\ cmdid \in Nat
  BY <1>1, MaxJobsAssumption DEF Responds, Holds, JInv, QInv, HeldInv, TypeOK
<1>3. j \in Jobs
  BY <1>2, MaxJobsAssumption DEF JInv, QInv, TypeOK, Jobs
<1>4. Elements' \subseteq Elements \cup {j}
  <2>1. Elements' = IF qIsRunning THEN Elements \cup {j} ELSE Elements
    BY <1>1, <1>3, PushEffect DEF JInv, QInv, TypeOK
  <2>2. QED
    BY <2>1
<1>5. \A u \in Sessions : Holds(u)' => u # s /\ Holds(u) /\ sarg'[u] = sarg[u]
  BY <1>1 DEF Responds, Holds, JInv, QInv, TypeOK
<1>6. \A u \in Sessions : Holds(u)' => sarg'[u] # j
  BY <1>2, <1>5 DEF JInv, QInv, HeldInv
<1>7. FateInv'
  BY <1>1 DEF JInv, FateInv
<1>8. ~Done(j)
  BY <1>2 DEF JInv, PendingInv
<1>9. ~(wpc = "remove" /\ j = cur)
  BY <1>2 DEF JInv, QInv, InProcessStillQueued
<1> HIDE DEF j
<1>10. \A k \in Jobs : k > cmdid' => ~Done(k)' /\ k \notin told'
  BY <1>1, <1>2 DEF JInv, PendingInv, Done
<1>11. \A u \in Sessions : Holds(u)' => ~Done(sarg[u])' /\ sarg'[u] \notin told'
  BY <1>1, <1>5, <1>6 DEF JInv, PendingInv, Done
<1>12. \A k \in Elements' : Done(k)' <=> wpc' = "remove" /\ k = cur'
  BY <1>1, <1>4, <1>8, <1>9 DEF JInv, PendingInv, Done
<1>13. QED
  BY <1>7, <1>10, <1>11, <1>12 DEF PendingInv

(* The session stores the result of a job that was done at once.           *)
LEMMA StorePending ==
  ASSUME NoWrap, JInv, NEW s \in Sessions, Store(s)
  PROVE  /\ FateInv' /\ PendingInv'
         /\ sarg[s] \in Jobs /\ ~Done(sarg[s]) /\ sarg[s] \notin Elements
         /\ DOMAIN imap' = DOMAIN imap \cup {sarg[s]}
<1> DEFINE j == sarg[s]
<1>1. /\ Responds(s, "store", "id")
      /\ MapInsert(JobId(j), j)
      /\ told' = told \cup {j}
      /\ UNCHANGED <<iqueue, fetched, failed, cmdid, wpc, cur>>
  BY DEF Store, Responds, jobVars, workerVars, queueVars
<1>2. Holds(s) /\ j \in 1..cmdid /\ j \notin Elements /\ cmdid \in Nat
  BY <1>1, MaxJobsAssumption DEF Responds, Holds, JInv, QInv, HeldInv, TypeOK
<1>3. j \in Jobs
  BY <1>2, MaxJobsAssumption DEF JInv, QInv, TypeOK, Jobs
<1>4. /\ DOMAIN imap' = DOMAIN imap \cup {j} /\ imap'[j] = j
      /\ \A k \in DOMAIN imap : k # j => imap'[k] = imap[k]
  BY <1>1, <1>3, JobIdIsOwn DEF MapInsert
<1>5. \A u \in Sessions : Holds(u)' => u # s /\ Holds(u) /\ sarg'[u] = sarg[u]
  BY <1>1 DEF Responds, Holds, JInv, QInv, TypeOK
<1>6. \A u \in Sessions : Holds(u)' => sarg'[u] # j
  BY <1>2, <1>5 DEF JInv, QInv, HeldInv
<1>7. ~Done(j) /\ Elements' = Elements
  BY <1>1, <1>2 DEF JInv, PendingInv, Elements
<1>8. fetched[j] = 0
  BY <1>3, <1>7 DEF Done, JInv, QInv, TypeOK
<1> HIDE DEF j
<1>9. \A k : Done(k)' => Done(k) \/ k = j
  BY <1>1, <1>4 DEF Done
<1>10. \A k : Done(k) => Done(k)'
  BY <1>1, <1>4 DEF Done
<1>11. FateInv'
  <2>1. \A id \in DOMAIN imap' : imap'[id] = id
    BY <1>4 DEF JInv, FateInv
  <2>2. \A k \in DOMAIN imap' : fetched'[k] = 0 /\ k \notin failed'
    BY <1>1, <1>4, <1>7, <1>8 DEF JInv, FateInv, Done
  <2>3. QED
    BY <1>1, <2>1, <2>2 DEF JInv, FateInv
<1>12. \A k \in Jobs : k > cmdid' => ~Done(k)' /\ k \notin told'
  BY <1>1, <1>2, <1>9 DEF JInv, PendingInv
<1>13. \A u \in Sessions : Holds(u)' => ~Done(sarg'[u]) /\ sarg'[u] \notin told'
  BY <1>1, <1>5, <1>6 DEF JInv, PendingInv
<1>14. \A u \in Sessions : Holds(u)' => ~Done(sarg[u])' /\ sarg'[u] \notin told'
  BY <1>6, <1>9, <1>13
<1>15. \A k \in Elements' : Done(k)' <=> wpc' = "remove" /\ k = cur'
  BY <1>1, <1>2, <1>7, <1>9, <1>10 DEF JInv, PendingInv
<1>16. PendingInv'
  BY <1>12, <1>14, <1>15 DEF PendingInv
<1>17. QED
  BY <1>2, <1>3, <1>4, <1>7, <1>11, <1>16 DEF j

(* A get takes the result out of the map and counts it.                    *)
LEMMA FetchPending ==
  ASSUME JInv, NEW s \in Sessions, NEW id \in Ids, GetFetches(s, id)
  PROVE  /\ FateInv' /\ PendingInv'
         /\ id \in DOMAIN imap /\ id \in Jobs
         /\ DOMAIN imap' = DOMAIN imap \ {id}
         /\ fetched' = [fetched EXCEPT ![id] = @ + 1]
         /\ UNCHANGED <<iqueue, failed, told, dropped, wpc, cur>>
<1>1. /\ Responds(s, "idle", "done") /\ id \in DOMAIN imap /\ MapErase(id)
      /\ fetched' = [fetched EXCEPT ![imap[id]] = @ + 1]
      /\ UNCHANGED <<iqueue, failed, told, dropped, cmdid, wpc, cur>>
  BY DEF GetFetches, MapHas, Responds, workerVars, queueVars, jobVars
<1>2. imap[id] = id /\ id \in Jobs
  BY <1>1 DEF JInv, FateInv, QInv, TypeOK, MapTypeOK
<1>3. fetched' = [fetched EXCEPT ![id] = @ + 1] /\ fetched \in [Jobs -> Nat]
  BY <1>1, <1>2 DEF JInv, QInv, TypeOK
<1>4. /\ DOMAIN imap' = DOMAIN imap \ {id}
      /\ \A k \in DOMAIN imap' : imap'[k] = imap[k]
  BY <1>1 DEF MapErase
<1>5. DOMAIN imap \subseteq Jobs
  BY DEF JInv, FateInv, QInv, TypeOK, MapTypeOK
<1>6. fetched'[id] > 0 /\ \A k \in Jobs : k # id => fetched'[k] = fetched[k]
  BY <1>2, <1>3
<1>7. \A k \in Jobs : Done(k)' <=> Done(k)
  BY <1>1, <1>4, <1>6 DEF Done
<1>8. \A u \in Sessions : Holds(u)' => Holds(u) /\ sarg'[u] = sarg[u]
  BY <1>1 DEF Responds, Holds, JInv, QInv, TypeOK
<1>9. \A u \in Sessions : Holds(u) => sarg[u] \in Jobs
  BY MaxJobsAssumption DEF JInv, QInv, HeldInv, TypeOK, Jobs
<1>10. Elements' = Elements /\ Elements \subseteq Jobs
  <2>1. \A i \in DOMAIN iqueue : iqueue[i] \in Jobs
    BY DEF JInv, QInv, TypeOK, QueueTypeOK
  <2>2. QED
    BY <1>1, <2>1 DEF Elements
<1>11. FateInv'
  <2>1. \A k \in DOMAIN imap' : k # id /\ k \in DOMAIN imap /\ k \in Jobs
    BY <1>4, <1>5
  <2>2. \A k \in DOMAIN imap' : imap'[k] = k /\ fetched'[k] = 0 /\ k \notin failed'
    BY <1>1, <1>4, <1>6, <2>1 DEF JInv, FateInv
  <2>3. \A k \in failed' : k # id /\ k \in Jobs /\ fetched[k] = 0
    BY <1>1 DEF JInv, FateInv, QInv, TypeOK
  <2>4. QED
    BY <1>6, <2>2, <2>3 DEF FateInv
<1>12. \A k \in Jobs : k > cmdid' => ~Done(k)' /\ k \notin told'
  BY <1>1, <1>7 DEF JInv, PendingInv
<1>13. \A u \in Sessions : Holds(u)' => ~Done(sarg[u])' /\ sarg'[u] \notin told'
  <2>1. \A u \in Sessions : Holds(u)' =>
          sarg'[u] \in Jobs /\ ~Done(sarg'[u]) /\ sarg'[u] \notin told'
    BY <1>1, <1>8, <1>9 DEF JInv, PendingInv
  <2>2. QED
    BY <1>7, <2>1
<1>14. \A k \in Elements' : Done(k)' <=> wpc' = "remove" /\ k = cur'
  BY <1>1, <1>7, <1>10 DEF JInv, PendingInv
<1>15. PendingInv'
  BY <1>12, <1>13, <1>14 DEF PendingInv
<1>16. QED
  BY <1>1, <1>2, <1>3, <1>4, <1>11, <1>15

(* The worker gives the job in process its fate ...                        *)
LEMMA FatePending ==
  ASSUME NoWrap, JInv, WorkerThrows \/ WorkerStores
  PROVE  /\ FateInv' /\ PendingInv'
         /\ cur \in Jobs /\ ~Done(cur) /\ cur \in Elements
         /\ UNCHANGED <<iqueue, fetched, told, dropped, sessionVars>>
         /\ WorkerThrows => failed' = failed \cup {cur} /\ imap' = imap
         /\ WorkerStores => failed' = failed /\ DOMAIN imap' = DOMAIN imap \cup {cur}
<1>1. /\ wpc # "front" /\ wpc # "remove" /\ wpc' = "remove"
      /\ UNCHANGED <<iqueue, cur, fetched, told, dropped, cmdid, sessionVars>>
  BY DEF WorkerThrows, WorkerStores, WorkerMoves, queueVars, jobVars
<1>2. cur \in Elements /\ Elements' = Elements
  BY <1>1 DEF JInv, QInv, InProcessStillQueued, Elements
<1>3. cur \in Jobs /\ cur <= cmdid /\ cmdid \in Nat
  BY <1>2, MaxJobsAssumption DEF JInv, QInv, QueueInv, TypeOK, Jobs
<1>4. ~Done(cur)
  BY <1>1, <1>2 DEF JInv, PendingInv
<1>5. fetched[cur] = 0
  BY <1>3, <1>4 DEF Done, JInv, QInv, TypeOK
<1>6. WorkerThrows => failed' = failed \cup {cur} /\ imap' = imap
  BY DEF WorkerThrows
<1>7. WorkerStores => /\ failed' = failed /\ DOMAIN imap' = DOMAIN imap \cup {cur}
                      /\ imap'[cur] = cur
                      /\ \A k \in DOMAIN imap : k # cur => imap'[k] = imap[k]
  BY <1>3, JobIdIsOwn DEF WorkerStores, MapInsert
<1>8. \A k : Done(k)' <=> Done(k) \/ k = cur
  BY <1>1, <1>6, <1>7 DEF Done
<1>9. FateInv'
  <2>1. CASE WorkerThrows
    BY <1>1, <1>4, <1>5, <1>6, <2>1 DEF JInv, FateInv, Done
  <2>2. CASE WorkerStores
    BY <1>1, <1>4, <1>5, <1>7, <2>2 DEF JInv, FateInv, Done
  <2>3. QED
    BY <2>1, <2>2
<1>10. \A u \in Sessions : Holds(u)' <=> Holds(u)
  BY <1>1 DEF Holds, sessionVars
<1>11. \A u \in Sessions : Holds(u)' => ~Done(sarg[u])' /\ sarg'[u] \notin told'
  <2>1. \A u \in Sessions : Holds(u)' =>
          /\ sarg'[u] = sarg[u] /\ sarg[u] # cur
          /\ ~Done(sarg'[u]) /\ sarg'[u] \notin told'
    BY <1>1, <1>2, <1>10 DEF JInv, QInv, HeldInv, PendingInv, sessionVars
  <2>2. QED
    BY <1>8, <2>1
<1>12. \A k \in Jobs : k > cmdid' => ~Done(k)' /\ k \notin told'
  BY <1>1, <1>3, <1>8 DEF JInv, PendingInv, Jobs
<1>13. \A k \in Elements' : Done(k)' <=> wpc' = "remove" /\ k = cur'
  BY <1>1, <1>2, <1>8 DEF JInv, PendingInv
<1>14. PendingInv'
  BY <1>11, <1>12, <1>13 DEF PendingInv
<1>15. QED
  BY <1>1, <1>2, <1>3, <1>4, <1>6, <1>7, <1>9, <1>14

(* ... and only then takes it off the queue.                               *)
LEMMA RemovePending ==
  ASSUME JInv, WorkerRemoves
  PROVE  /\ FateInv' /\ PendingInv'
         /\ Done(cur) /\ Elements' = Elements \ {cur}
         /\ FateSame /\ UNCHANGED <<told, dropped, sessionVars>>
<1>1. /\ wpc = "remove" /\ wpc' = "front" /\ RemoveAll(cur)
      /\ UNCHANGED <<imap, fetched, failed, told, dropped, cmdid, sessionVars>>
  BY DEF WorkerRemoves, WorkerMoves, jobVars
<1>2. Elements' = Elements \ {cur}
  BY <1>1, RemoveEffect DEF JInv, QInv, TypeOK
<1>3. Done(cur)
  BY <1>1 DEF JInv, QInv, InProcessStillQueued, PendingInv
<1>4. FateInv'
  BY <1>1 DEF JInv, FateInv
<1>5. PendingInv'
  BY <1>1, <1>2 DEF JInv, PendingInv, Done, Holds, sessionVars
<1>6. QED
  BY <1>1, <1>2, <1>3, <1>4, <1>5 DEF FateSame

LEMMA InitJInv == Init => JInv
<1> SUFFICES ASSUME Init PROVE JInv
  OBVIOUS
<1>1. QInv
  BY InitQInv
<1>2. FateInv
  BY DEF Init, MapInit, FateInv
<1>3. PendingInv
  <2>1. \A j \in Jobs : ~Done(j) /\ j \notin told
    BY DEF Init, MapInit, Done
  <2>2. Elements = {} /\ \A s \in Sessions : ~Holds(s)
    BY DEF Init, Elements, Holds
  <2>3. QED
    BY <2>1, <2>2 DEF PendingInv
<1>4. QED
  BY <1>1, <1>2, <1>3 DEF JInv

LEMMA NextJInv ==
  ASSUME NoWrap
  PROVE  JInv /\ [Next]_vars => JInv'
<1> SUFFICES ASSUME JInv, [Next]_vars PROVE JInv'
  OBVIOUS
<1>1. QInv'
  BY NextQInv DEF JInv
<1>2. Calm \/ MovesJob
  BY JobSteps DEF JInv, QInv
<1>3. FateInv' /\ PendingInv'
  BY <1>2, CalmKeeps, SubmitPending, EnqueuePending, StorePending, FetchPending,
     FatePending, RemovePending DEF MovesJob
<1>4. QED
  BY <1>1, <1>3 DEF JInv

LEMMA JobsInductive ==
  ASSUME NoWrap
  PROVE  Spec => []JInv
BY InitJInv, NextJInv, PTL DEF Spec
-----------------------------------------------------------------------------
(* Refinement, step by step: at most one job's status changes, and as the  *)
(* board of jobs allows.                                                   *)

StatusOK ==
  \A j \in Jobs :
    /\ fetched[j] > 0 => JobStatus(j) = "delivered"
    /\ j \in DOMAIN imap => JobStatus(j) = "done"
    /\ j \in failed => JobStatus(j) = "failed"
    /\ ~Done(j) /\ j \in Elements => JobStatus(j) = "waiting"
    /\ ~Done(j) /\ j \notin Elements => JobStatus(j) = "none"

LEMMA StoredIsInMap ==
  ASSUME NoWrap, JInv, NEW j \in Jobs
  PROVE  Stored(j) <=> j \in DOMAIN imap
BY JobIdIsOwn DEF Stored, JInv, FateInv

LEMMA StatusIs ==
  ASSUME NoWrap
  PROVE  JInv => StatusOK
<1> SUFFICES ASSUME JInv, NEW j \in Jobs
             PROVE  /\ fetched[j] > 0 => JobStatus(j) = "delivered"
                    /\ j \in DOMAIN imap => JobStatus(j) = "done"
                    /\ j \in failed => JobStatus(j) = "failed"
                    /\ ~Done(j) /\ j \in Elements => JobStatus(j) = "waiting"
                    /\ ~Done(j) /\ j \notin Elements => JobStatus(j) = "none"
  BY DEF StatusOK
<1>1. /\ Stored(j) <=> j \in DOMAIN imap
      /\ Queued(j) <=> j \in Elements
  BY StoredIsInMap DEF Queued
<1>2. /\ j \in DOMAIN imap => ~(fetched[j] > 0) /\ j \notin failed
      /\ j \in failed => ~(fetched[j] > 0)
      /\ ~(fetched[j] > 0) => fetched[j] = 0
  BY DEF JInv, FateInv, QInv, TypeOK
<1>3. QED
  BY <1>1, <1>2 DEF JobStatus, Done

LEMMA SameStatus ==
  ASSUME StatusOK, StatusOK', NEW j \in Jobs,
         fetched'[j] > 0 <=> fetched[j] > 0,
         j \in DOMAIN imap' <=> j \in DOMAIN imap,
         j \in failed' <=> j \in failed,
         Done(j) \/ (j \in Elements' <=> j \in Elements)
  PROVE  JobStatus(j)' = JobStatus(j)
<1>1. Done(j)' <=> Done(j)
  BY DEF Done
<1>2. CASE Done(j)
  BY <1>1, <1>2 DEF StatusOK, Done
<1>3. CASE ~Done(j)
  BY <1>1, <1>3 DEF StatusOK
<1>4. QED
  BY <1>2, <1>3

LEMMA NoMoves ==
  ASSUME \A k \in Jobs : JobStatus(k)' = JobStatus(k), UNCHANGED fetched
  PROVE  UNCHANGED Board!boardVars
BY DEF Board!boardVars

LEMMA OneMoves ==
  ASSUME NEW j \in Jobs, NEW from, NEW to,
         JobStatus(j) = from, JobStatus(j)' = to,
         \A k \in Jobs : k # j => JobStatus(k)' = JobStatus(k)
  PROVE  Board!Moves(j, from, to)
BY DEF Board!Moves

LEMMA AcceptRefines ==
  ASSUME NoWrap, JInv, StatusOK, StatusOK',
         NEW s \in Sessions, Enqueue(s) \/ Store(s)
  PROVE  [Board!BoardNext]_(Board!boardVars)
<1>1. PICK j \in Jobs : j = sarg[s] /\ ~Done(j) /\ j \notin Elements
  <2>1. sarg[s] \in Jobs /\ ~Done(sarg[s]) /\ sarg[s] \notin Elements
    BY MaxJobsAssumption
    DEF Enqueue, Store, Responds, Holds, JInv, QInv, HeldInv, PendingInv, TypeOK,
        Jobs
  <2>2. QED
    BY <2>1
<1>2. UNCHANGED <<fetched, failed>>
  BY DEF Enqueue, Store, Responds, workerVars
<1>3. JobStatus(j) = "none"
  BY <1>1 DEF StatusOK
<1>4. CASE Enqueue(s)
  <2>1. /\ imap' = imap
        /\ Elements' = IF qIsRunning THEN Elements \cup {j} ELSE Elements
    BY <1>1, <1>4, PushEffect DEF Enqueue, JInv, QInv, TypeOK
  <2>2. \A k \in Jobs : k # j => JobStatus(k)' = JobStatus(k)
    BY <1>2, <2>1, SameStatus
  <2>3. CASE qIsRunning
    <3>1. j \in Elements' /\ ~Done(j)'
      BY <1>1, <1>2, <2>1, <2>3 DEF Done
    <3>2. JobStatus(j)' = "waiting"
      BY <1>1, <3>1 DEF StatusOK
    <3>3. Board!Moves(j, "none", "waiting")
      BY <1>1, <1>3, <2>2, <3>2, OneMoves
    <3>4. QED
      BY <1>1, <1>2, <3>3 DEF Board!BoardNext, Board!Accept
  <2>4. CASE ~qIsRunning
    <3>1. \A k \in Jobs : JobStatus(k)' = JobStatus(k)
      BY <1>2, <2>1, <2>4, SameStatus
    <3>2. QED
      BY <1>2, <3>1, NoMoves
  <2>5. QED
    BY <2>3, <2>4
<1>5. CASE Store(s)
  <2>1. /\ DOMAIN imap' = DOMAIN imap \cup {j}
        /\ Elements' = Elements
    BY <1>1, <1>5, StorePending DEF Store, Elements, queueVars
  <2>2. \A k \in Jobs : k # j => JobStatus(k)' = JobStatus(k)
    BY <1>2, <2>1, SameStatus
  <2>3. JobStatus(j)' = "done"
    BY <1>1, <2>1 DEF StatusOK
  <2>4. Board!Moves(j, "none", "done")
    BY <1>1, <1>3, <2>2, <2>3, OneMoves
  <2>5. QED
    BY <1>1, <1>2, <2>4 DEF Board!BoardNext, Board!Accept
<1>6. QED
  BY <1>4, <1>5

LEMMA DeliverRefines ==
  ASSUME JInv, StatusOK, StatusOK',
         NEW s \in Sessions, NEW id \in Ids, GetFetches(s, id)
  PROVE  Board!BoardNext
<1>1. /\ id \in DOMAIN imap /\ id \in Jobs
      /\ DOMAIN imap' = DOMAIN imap \ {id}
      /\ fetched' = [fetched EXCEPT ![id] = @ + 1]
      /\ UNCHANGED <<iqueue, failed>>
  BY FetchPending
<1>2. fetched \in [Jobs -> Nat] /\ Elements' = Elements
  BY <1>1 DEF JInv, QInv, TypeOK, Elements
<1>3. fetched'[id] > 0 /\ \A k \in Jobs : k # id => fetched'[k] = fetched[k]
  BY <1>1, <1>2
<1>4. \A k \in Jobs : k # id => JobStatus(k)' = JobStatus(k)
  BY <1>1, <1>2, <1>3, SameStatus
<1>5. JobStatus(id) = "done" /\ JobStatus(id)' = "delivered"
  BY <1>1, <1>3 DEF StatusOK
<1>6. Board!Moves(id, "done", "delivered")
  BY <1>1, <1>4, <1>5, OneMoves
<1>7. QED
  BY <1>1, <1>6 DEF Board!BoardNext, Board!Deliver

LEMMA FinishRefines ==
  ASSUME NoWrap, JInv, StatusOK, StatusOK', WorkerThrows \/ WorkerStores
  PROVE  Board!BoardNext
<1>1. /\ cur \in Jobs /\ ~Done(cur) /\ cur \in Elements
      /\ UNCHANGED <<iqueue, fetched>> /\ Elements' = Elements
      /\ WorkerThrows => failed' = failed \cup {cur} /\ imap' = imap
      /\ WorkerStores => failed' = failed /\ DOMAIN imap' = DOMAIN imap \cup {cur}
  BY FatePending DEF Elements
<1>2. \A k \in Jobs : k # cur => JobStatus(k)' = JobStatus(k)
  BY <1>1, SameStatus
<1>3. JobStatus(cur) = "waiting"
  BY <1>1 DEF StatusOK
<1>4. \/ cur \in failed' /\ WorkerThrows
      \/ cur \in DOMAIN imap' /\ WorkerStores
  BY <1>1
<1>5. PICK to \in {"done", "failed"} :
        \A k \in Jobs : k = cur => JobStatus(k)' = to
  BY <1>1, <1>4 DEF StatusOK
<1>6. \A k \in Jobs : k = cur => Board!Moves(k, "waiting", to)
  BY <1>2, <1>3, <1>5, OneMoves
<1>7. QED
  BY <1>1, <1>5, <1>6 DEF Board!BoardNext, Board!Finish

LEMMA QuietRefines ==
  ASSUME JInv, StatusOK, StatusOK',
         Calm \/ WorkerRemoves \/ \E s \in Sessions : Submit(s)
  PROVE  UNCHANGED Board!boardVars
<1>1. CASE WorkerRemoves
  <2>1. /\ Done(cur) /\ Elements' = Elements \ {cur}
        /\ UNCHANGED <<imap, fetched, failed>>
    BY <1>1, RemovePending DEF FateSame
  <2>2. \A k \in Jobs : JobStatus(k)' = JobStatus(k)
    BY <2>1, SameStatus
  <2>3. QED
    BY <2>1, <2>2, NoMoves
<1>2. CASE Calm \/ \E s \in Sessions : Submit(s)
  <2>1. UNCHANGED <<imap, fetched, failed, iqueue>>
    BY <1>2 DEF Calm, FateSame, Advances, Submit, Continues, workerVars, queueVars
  <2>2. Elements' = Elements
    BY <2>1 DEF Elements
  <2>3. \A k \in Jobs : JobStatus(k)' = JobStatus(k)
    BY <2>1, <2>2, SameStatus
  <2>4. QED
    BY <2>1, <2>3, NoMoves
<1>3. QED
  BY <1>1, <1>2

(* While the ids do not wrap, the queue, the map, the worker and any       *)
(* number of sessions are a board of jobs: no accepted job is forgotten,   *)
(* goes back, or is delivered twice (wsapi_handler.cpp:36-128,             *)
(* wsapi_worker.cpp:54-77).                                                *)
THEOREM ImplementsJobBoard ==
  ASSUME NoWrap
  PROVE  Spec => JobBoardSpec
<1>1. Init => Board!BoardInit
  <2> SUFFICES ASSUME Init PROVE Board!BoardInit
    OBVIOUS
  <2>1. StatusOK
    BY InitJInv, StatusIs
  <2>2. \A j \in Jobs : ~Done(j) /\ j \notin Elements
    BY DEF Init, MapInit, Done, Elements
  <2>3. \A j \in Jobs : JobStatus(j) = "none"
    BY <2>1, <2>2 DEF StatusOK
  <2>4. QED
    BY <2>3 DEF Board!BoardInit, Init
<1>2. JInv => StatusOK
  BY StatusIs
<1>3. (JInv => StatusOK)'
  BY <1>2, PTL
<1>4. JInv /\ JInv' /\ [Next]_vars => [Board!BoardNext]_(Board!boardVars)
  <2> SUFFICES ASSUME JInv, JInv', [Next]_vars
               PROVE  [Board!BoardNext]_(Board!boardVars)
    OBVIOUS
  <2>1. StatusOK /\ StatusOK'
    BY <1>2, <1>3
  <2>2. Calm \/ MovesJob
    BY JobSteps DEF JInv, QInv
  <2>3. CASE Calm \/ WorkerRemoves \/ \E s \in Sessions : Submit(s)
    BY <2>1, <2>3, QuietRefines
  <2>4. CASE WorkerThrows \/ WorkerStores
    BY <2>1, <2>4, FinishRefines
  <2>5. CASE \E s \in Sessions : Enqueue(s) \/ Store(s)
    BY <2>1, <2>5, AcceptRefines
  <2>6. CASE \E s \in Sessions, id \in Ids : GetFetches(s, id)
    BY <2>1, <2>6, DeliverRefines
  <2>7. QED
    BY <2>2, <2>3, <2>4, <2>5, <2>6 DEF MovesJob
<1>5. QED
  BY <1>1, <1>4, JobsInductive, PTL DEF Spec, JobBoardSpec, Board!BoardSpec
-----------------------------------------------------------------------------
(* What a client is owed, and what a list finds of it.                     *)

(* An owed job does not leave the map, and leaves the queue only for it;   *)
(* a job whose id is told is in one of them or was dropped.                *)
KeepsOwed ==
  /\ told \subseteq told' /\ dropped \subseteq dropped'
  /\ \A j \in told : Owed(j)' => Owed(j)
  /\ \A j \in DOMAIN imap : Owed(j)' => j \in DOMAIN imap'
  /\ \A j \in Elements : Owed(j)' => j \in Elements' \cup DOMAIN imap'
  /\ \A j \in told' \ told : j \in Elements' \cup DOMAIN imap' \cup dropped'

LEMMA StepKeepsOwed ==
  ASSUME NoWrap, JInv, [Next]_vars
  PROVE  KeepsOwed
<1>1. Calm \/ MovesJob
  BY JobSteps DEF JInv, QInv
<1>2. ASSUME FateSame, UNCHANGED <<told, dropped>>, Elements \subseteq Elements'
      PROVE  KeepsOwed
  BY <1>2 DEF KeepsOwed, Owed, FateSame
<1>3. CASE Calm \/ \E s \in Sessions : Submit(s)
  <2>1. FateSame /\ UNCHANGED <<told, dropped, iqueue>>
    BY <1>3 DEF Calm, FateSame, Advances, Submit, Continues, workerVars, queueVars
  <2>2. Elements' = Elements
    BY <2>1 DEF Elements
  <2>3. QED
    BY <1>2, <2>1, <2>2
<1>4. ASSUME NEW s \in Sessions, Enqueue(s)
      PROVE  KeepsOwed
  <2>1. sarg[s] \in Jobs /\ told' = told \cup {sarg[s]} /\ UNCHANGED <<imap, fetched, failed>>
    BY <1>4, MaxJobsAssumption
    DEF Enqueue, Responds, Holds, JInv, QInv, HeldInv, TypeOK, Jobs, workerVars
  <2>2. /\ Elements' = IF qIsRunning THEN Elements \cup {sarg[s]} ELSE Elements
        /\ dropped' = IF qIsRunning THEN dropped ELSE dropped \cup {sarg[s]}
    BY <1>4, <2>1, PushEffect DEF Enqueue, JInv, QInv, TypeOK
  <2>3. /\ Elements \subseteq Elements' /\ dropped \subseteq dropped'
        /\ sarg[s] \in Elements' \cup dropped'
    BY <2>2
  <2>4. QED
    BY <2>1, <2>3 DEF KeepsOwed, Owed
<1>5. ASSUME NEW s \in Sessions, Store(s)
      PROVE  KeepsOwed
  <2>1. told' = told \cup {sarg[s]} /\ UNCHANGED <<iqueue, dropped, fetched, failed>>
    BY <1>5 DEF Store, Responds, workerVars, queueVars
  <2>2. DOMAIN imap' = DOMAIN imap \cup {sarg[s]} /\ Elements' = Elements
    BY <1>5, <2>1, StorePending DEF Elements
  <2>3. QED
    BY <2>1, <2>2 DEF KeepsOwed, Owed
<1>6. ASSUME NEW s \in Sessions, NEW id \in Ids, GetFetches(s, id)
      PROVE  KeepsOwed
  <2>1. /\ id \in Jobs /\ DOMAIN imap' = DOMAIN imap \ {id}
        /\ fetched' = [fetched EXCEPT ![id] = @ + 1]
        /\ UNCHANGED <<iqueue, failed, told, dropped>>
    BY <1>6, FetchPending
  <2>2. fetched \in [Jobs -> Nat] /\ Elements' = Elements /\ told \subseteq Jobs
        /\ Elements \subseteq Jobs
    <3>1. \A i \in DOMAIN iqueue : iqueue[i] \in Jobs
      BY DEF JInv, QInv, TypeOK, QueueTypeOK
    <3>2. QED
      BY <2>1, <3>1 DEF JInv, QInv, TypeOK, Elements
  <2>3. fetched'[id] # 0 /\ \A k \in Jobs : k # id => fetched'[k] = fetched[k]
    BY <2>1, <2>2
  <2>4. ~Owed(id)' /\ \A k \in Jobs : k # id => (Owed(k)' <=> Owed(k))
    BY <2>1, <2>3 DEF Owed
  <2>5. \A k \in Elements : Owed(k)' => k \in Elements'
    BY <2>2
  <2>6. \A k \in told : Owed(k)' => Owed(k)
    BY <2>2, <2>4
  <2>7. \A k \in DOMAIN imap : Owed(k)' => k \in DOMAIN imap'
    BY <2>1, <2>4
  <2>8. QED
    BY <2>1, <2>5, <2>6, <2>7 DEF KeepsOwed
<1>7. CASE WorkerThrows \/ WorkerStores
  <2>1. /\ UNCHANGED <<fetched, told, dropped>> /\ Elements' = Elements
        /\ failed \subseteq failed' /\ DOMAIN imap \subseteq DOMAIN imap'
    BY <1>7, FatePending DEF Elements
  <2>2. QED
    BY <2>1 DEF KeepsOwed, Owed
<1>8. CASE WorkerRemoves
  <2>1. /\ Done(cur) /\ Elements' = Elements \ {cur}
        /\ UNCHANGED <<imap, fetched, failed, told, dropped>>
    BY <1>8, RemovePending DEF FateSame
  <2>2. cur \in DOMAIN imap \/ ~Owed(cur)
    <3>1. fetched[cur] > 0 => fetched[cur] # 0
      <4>1. cur \in Elements /\ Elements \subseteq Jobs
        <5>1. \A i \in DOMAIN iqueue : iqueue[i] \in Jobs
          BY DEF JInv, QInv, TypeOK, QueueTypeOK
        <5>2. QED
          BY <1>8, <5>1
          DEF JInv, QInv, InProcessStillQueued, WorkerRemoves, WorkerMoves, Elements
      <4>2. QED
        BY <4>1 DEF JInv, QInv, TypeOK
    <3>2. QED
      BY <2>1, <3>1 DEF Done, Owed
  <2>3. QED
    BY <2>1, <2>2 DEF KeepsOwed, Owed
<1>9. QED
  BY <1>1, <1>3, <1>4, <1>5, <1>6, <1>7, <1>8 DEF MovesJob

(* A list begins with what is in the queue.                                *)
ListStep(s) ==
  \/ /\ known'[s] = known[s] /\ listed'[s] = listed[s]
     /\ spc'[s] = "results" => spc[s] = "results"
  \/ known'[s] = told /\ Elements \subseteq listed'[s]
  \/ known'[s] = {}

LEMMA ListSteps ==
  ASSUME NoWrap, TypeOK, [Next]_vars, NEW s \in Sessions
  PROVE  ListStep(s)
<1>1. CASE UNCHANGED vars
  BY <1>1 DEF vars, sessionVars, ListStep
<1>2. CASE WorkerStep \/ WorkerWakes
  <2>1. UNCHANGED sessionVars
    BY <1>2 DEF WorkerStep, WorkerWakes, WorkerBlocks, WorkerTakesHead,
                WorkerProcesses, WorkerThrows, WorkerStores, WorkerRemoves, WorkerMoves
  <2>2. QED
    BY <2>1 DEF sessionVars, ListStep
<1>3. ASSUME NEW u \in Sessions, SessionStep(u)
      PROVE  ListStep(s)
  <2>1. /\ spc \in [Sessions -> SessionPcs]
        /\ listed \in [Sessions -> SUBSET Ids] /\ known \in [Sessions -> SUBSET Jobs]
    BY DEF TypeOK, SessionPcs
  <2>2. CASE ListQueue(u)
    <3>1. /\ spc' = [spc EXCEPT ![u] = "results"]
          /\ listed' = [listed EXCEPT ![u] = {JobId(j) : j \in Elements}]
          /\ known' = [known EXCEPT ![u] = told]
      BY <2>2 DEF ListQueue, Continues
    <3>2. Elements \subseteq {JobId(j) : j \in Elements}
      <4>1. \A i \in DOMAIN iqueue : iqueue[i] \in Jobs
        BY DEF TypeOK, QueueTypeOK
      <4>2. \A j \in Elements : JobId(j) = j
        BY <4>1, JobIdIsOwn DEF Elements
      <4>3. QED
        BY <4>2
    <3>3. QED
      BY <2>1, <3>1, <3>2 DEF ListStep
  <2>3. CASE ListResults(u)
    <3>1. /\ spc' = [spc EXCEPT ![u] = "idle"]
          /\ known' = [known EXCEPT ![u] = {}]
          /\ \A w \in Sessions : w # u => listed'[w] = listed[w]
      BY <2>1, <2>3 DEF ListResults, Responds
    <3>2. QED
      BY <2>1, <3>1 DEF ListStep
  <2>4. CASE ~ListQueue(u) /\ ~ListResults(u)
    <3>1. UNCHANGED <<listed, known>>
      BY <1>3, <2>4 DEF SessionStep, Submit, FirstProcess, FirstThrows, Enqueue, Store,
                        GetBadId, GetFetches, GetLooksFurther, GetFinds
    <3>2. PICK to \in SessionPcs \ {"results"} : spc' = [spc EXCEPT ![u] = to]
      BY <1>3, <2>4 DEF SessionStep, Submit, FirstProcess, FirstThrows, Enqueue, Store,
                        GetBadId, GetFetches, GetLooksFurther, GetFinds, Continues,
                        Responds, SessionPcs
    <3>3. spc'[s] = "results" => spc[s] = "results"
      BY <2>1, <3>2
    <3>4. QED
      BY <3>1, <3>3 DEF ListStep
  <2>5. QED
    BY <2>2, <2>3, <2>4
<1>4. QED
  BY <1>1, <1>2, <1>3 DEF Next

LEMMA NextKeptInv ==
  ASSUME NoWrap, JInv, KeptInv, [Next]_vars
  PROVE  KeptInv'
<1>1. KeepsOwed /\ \A s \in Sessions : ListStep(s)
  BY StepKeepsOwed, ListSteps DEF JInv, QInv
<1>2. told \subseteq Jobs /\ \A j : Owed(j)' => j \in told' /\ j \notin dropped'
  BY DEF JInv, QInv, TypeOK, Owed
<1>3. \A j \in told : Owed(j)' => j \in Elements' \cup DOMAIN imap'
  <2>1. \A j \in told : Owed(j)' => j \in Elements \cup DOMAIN imap
    BY <1>1, <1>2 DEF KeepsOwed, KeptInv
  <2>2. QED
    BY <1>1, <2>1 DEF KeepsOwed
<1>4. \A j \in Jobs : Owed(j)' => j \in Elements' \cup DOMAIN imap'
  BY <1>1, <1>2, <1>3 DEF KeepsOwed
<1>5. ASSUME NEW s \in Sessions
      PROVE  known'[s] \subseteq told'
  BY <1>1 DEF KeptInv, KeepsOwed, ListStep
<1>6. ASSUME NEW s \in Sessions, spc'[s] = "results", NEW j \in known'[s], Owed(j)'
      PROVE  j \in listed'[s] \cup DOMAIN imap'
  <2>1. CASE known'[s] = known[s] /\ listed'[s] = listed[s] /\ spc[s] = "results"
    <3>1. j \in told /\ j \in known[s]
      BY <1>6, <2>1 DEF KeptInv
    <3>2. j \in listed[s] \cup DOMAIN imap
      BY <1>1, <1>6, <2>1, <3>1 DEF KeptInv, KeepsOwed
    <3>3. QED
      BY <1>1, <1>6, <2>1, <3>2 DEF KeepsOwed
  <2>2. CASE known'[s] = told /\ Elements \subseteq listed'[s]
    <3>1. j \in told /\ j \in Jobs
      BY <1>2, <1>6, <2>2
    <3>2. j \in Elements \cup DOMAIN imap
      BY <1>1, <1>6, <3>1 DEF KeptInv, KeepsOwed
    <3>3. QED
      BY <1>1, <1>6, <2>2, <3>2 DEF KeepsOwed
  <2>3. QED
    BY <1>1, <1>6, <2>1, <2>2 DEF ListStep
<1>7. QED
  BY <1>4, <1>5, <1>6 DEF KeptInv

LEMMA KeptInductive ==
  ASSUME NoWrap
  PROVE  Spec => []KInv
<1>1. Init => KInv
  <2> SUFFICES ASSUME Init PROVE KInv
    OBVIOUS
  <2>1. KeptInv
    BY DEF Init, KeptInv, Owed
  <2>2. QED
    BY <2>1, InitJInv DEF KInv
<1>2. KInv /\ [Next]_vars => KInv'
  BY NextJInv, NextKeptInv DEF KInv
<1>3. QED
  BY <1>1, <1>2, PTL DEF Spec

(* Whatever a client is owed is in the queue or in the results at every    *)
(* moment (wsapi_worker.cpp:72-79).                                        *)
THEOREM OwedStaysHeld ==
  ASSUME NoWrap
  PROVE  Spec => []OwedIsHeld
<1>1. KInv => OwedIsHeld
  BY StoredIsInMap DEF KInv, KeptInv, OwedIsHeld, Queued
<1>2. QED
  BY <1>1, KeptInductive, PTL

(* However the worker moves commands from the queue to the results while a *)
(* list is put together, the list misses none that its client knows of and *)
(* is still owed (wsapi_handler.cpp:127-128).                              *)
THEOREM ListsAreComplete ==
  ASSUME NoWrap
  PROVE  Spec => ListComplete
<1> DEFINE A == \A s \in Sessions : \A j \in known[s] :
                  spc[s] = "results" /\ spc'[s] = "idle" /\ Owed(j)
                    => JobId(j) \in listed'[s]
<1>1. KInv /\ [Next]_vars => [A]_vars
  <2> SUFFICES ASSUME KInv, [Next]_vars, NEW s \in Sessions, NEW j \in known[s],
                      spc[s] = "results", spc'[s] = "idle", Owed(j)
               PROVE  JobId(j) \in listed'[s]
    OBVIOUS
  <2>1. TypeOK
    BY DEF KInv, JInv, QInv
  <2>2. ListResults(s)
    <3>1. CASE UNCHANGED vars \/ WorkerStep \/ WorkerWakes
      <4>1. UNCHANGED spc
        BY <3>1 DEF vars, sessionVars, WorkerStep, WorkerWakes, WorkerBlocks,
                    WorkerTakesHead, WorkerProcesses, WorkerThrows, WorkerStores,
                    WorkerRemoves, WorkerMoves
      <4>2. QED
        BY <4>1
    <3>2. ASSUME NEW u \in Sessions, SessionStep(u)
          PROVE  ListResults(s)
      <4>1. PICK to \in SessionPcs : spc' = [spc EXCEPT ![u] = to]
        BY <3>2 DEF SessionStep, Submit, FirstProcess, FirstThrows, Enqueue, Store,
                    GetBadId, GetFetches, GetLooksFurther, GetFinds, ListQueue,
                    ListResults, Continues, Responds, SessionPcs
      <4>2. u = s
        BY <2>1, <4>1 DEF TypeOK
      <4>3. QED
        BY <3>2, <4>2 DEF SessionStep, Submit, FirstProcess, FirstThrows, Enqueue,
                          Store, GetBadId, GetFetches, GetLooksFurther, GetFinds,
                          ListQueue, Continues, Responds
    <3>3. QED
      BY <3>1, <3>2 DEF Next
  <2>3. listed'[s] = listed[s] \cup DOMAIN imap
    BY <2>1, <2>2 DEF ListResults, TypeOK
  <2>4. j \in Jobs /\ JobId(j) = j
    BY <2>1, JobIdIsOwn DEF TypeOK
  <2>5. j \in listed[s] \cup DOMAIN imap
    BY DEF KInv, KeptInv
  <2>6. QED
    BY <2>3, <2>4, <2>5
<1>2. QED
  BY <1>1, KeptInductive, PTL DEF Spec, ListComplete

(* A get answers "enqueued" only from the queue, and only for the id that  *)
(* it looks for.                                                           *)
LEMMA EnqueuedIsInQueue ==
  ASSUME TypeOK, [Next]_vars, NEW s \in Sessions,
         spc[s] = "find", spc'[s] = "idle", reply'[s] = "enqueued"
  PROVE  \E k \in Elements : JobId(k) = sarg[s]
<1> DEFINE matching == {j \in Jobs : JobId(j) = sarg[s]}
<1>1. GetFinds(s)
  <2>1. CASE UNCHANGED vars \/ WorkerStep \/ WorkerWakes
    <3>1. UNCHANGED spc
      BY <2>1 DEF vars, sessionVars, WorkerStep, WorkerWakes, WorkerBlocks,
                  WorkerTakesHead, WorkerProcesses, WorkerThrows, WorkerStores,
                  WorkerRemoves, WorkerMoves
    <3>2. QED
      BY <3>1
  <2>2. ASSUME NEW u \in Sessions, SessionStep(u)
        PROVE  GetFinds(s)
    <3>1. PICK to \in SessionPcs : spc' = [spc EXCEPT ![u] = to]
      BY <2>2 DEF SessionStep, Submit, FirstProcess, FirstThrows, Enqueue, Store,
                  GetBadId, GetFetches, GetLooksFurther, GetFinds, ListQueue,
                  ListResults, Continues, Responds, SessionPcs
    <3>2. u = s
      BY <3>1 DEF TypeOK
    <3>3. QED
      BY <2>2, <3>2 DEF SessionStep, Submit, FirstProcess, FirstThrows, Enqueue,
                        Store, GetBadId, GetFetches, GetLooksFurther, ListQueue,
                        ListResults, Continues, Responds
  <2>3. QED
    BY <2>1, <2>2 DEF Next
<1>2. reply'[s] = IF FindQOrder(matching) >= 0 THEN "enqueued" ELSE "missing"
  BY <1>1 DEF GetFinds, Responds, TypeOK
<1>3. FindQOrder(matching) >= 0
  BY <1>2
<1>4. {i \in DOMAIN iqueue : iqueue[i] \in matching} # {}
  BY <1>3 DEF FindQOrder
<1>5. QED
  BY <1>4 DEF Elements

(* A get sends its client away with "enqueued" only for a command that is  *)
(* yet to finish or that the worker is just about to remove                *)
(* (wsapi_worker.cpp:66-79).                                               *)
THEOREM EnqueuedIsYetToFinish ==
  ASSUME NoWrap
  PROVE  Spec => EnqueuedIsUnfinished
<1> DEFINE A == \A s \in Sessions, j \in Jobs :
                  spc[s] = "find" /\ spc'[s] = "idle" /\ reply'[s] = "enqueued"
                    /\ JobId(j) = sarg[s]
                  => ~Finished(j) \/ (wpc = "remove" /\ cur = j)
<1>1. JInv /\ [Next]_vars => [A]_vars
  <2> SUFFICES ASSUME JInv, [Next]_vars, NEW s \in Sessions, NEW j \in Jobs,
                      spc[s] = "find", spc'[s] = "idle", reply'[s] = "enqueued",
                      JobId(j) = sarg[s], Finished(j)
               PROVE  wpc = "remove" /\ cur = j
    OBVIOUS
  <2>1. TypeOK /\ Elements \subseteq Jobs
    BY DEF JInv, QInv, TypeOK, QueueTypeOK, Elements
  <2>2. PICK k \in Elements : JobId(k) = sarg[s]
    BY <2>1, EnqueuedIsInQueue
  <2>3. j \in Elements
    BY <2>1, <2>2, JobIdIsOwn
  <2>4. Done(j)
    BY StoredIsInMap DEF Finished, Done
  <2>5. QED
    BY <2>3, <2>4 DEF JInv, PendingInv
<1>2. QED
  BY <1>1, JobsInductive, PTL DEF Spec, EnqueuedIsUnfinished
-----------------------------------------------------------------------------
(* Sleep and wakeup: the worker is among the waiters only inside front(),  *)
(* and only while the queue that it found empty is empty.                  *)
SleepInv == Worker \in waiters => wpc = "front" /\ iqueue = <<>>

LEMMA SleepStep ==
  ASSUME SleepInv, [Next]_vars
  PROVE  SleepInv'
<1> SUFFICES ASSUME Worker \in waiters'
             PROVE  wpc' = "front" /\ iqueue' = <<>>
  BY DEF SleepInv
<1> USE DEF SleepInv
<1>1. ASSUME UNCHANGED <<iqueue, waiters, wpc>>
      PROVE  wpc' = "front" /\ iqueue' = <<>>
  BY <1>1
<1>2. CASE UNCHANGED vars
  BY <1>1, <1>2 DEF vars, queueVars, workerVars
<1>3. ASSUME NEW s \in Sessions, SessionStep(s)
      PROVE  wpc' = "front" /\ iqueue' = <<>>
  <2>1. UNCHANGED wpc
    BY <1>3 DEF SessionStep, Submit, FirstProcess, FirstThrows, Enqueue, Store,
                GetBadId, GetFetches, GetLooksFurther, GetFinds, ListQueue,
                ListResults, Continues, Responds, workerVars
  <2>2. CASE Enqueue(s)
    <3>1. PICK q : Insert(q) \/ UNCHANGED queueVars
      BY <2>2 DEF Enqueue, Push, PushFront
    <3>2. waiters' = {} \/ UNCHANGED <<iqueue, waiters>>
      BY <3>1 DEF Insert, NotifyAll, queueVars
    <3>3. QED
      BY <1>1, <2>1, <3>2
  <2>3. CASE ~Enqueue(s)
    <3>1. UNCHANGED queueVars
      BY <1>3, <2>3 DEF SessionStep, Submit, FirstProcess, FirstThrows, Store,
                        GetBadId, GetFetches, GetLooksFurther, GetFinds,
                        ListQueue, ListResults
    <3>2. QED
      BY <1>1, <2>1, <3>1 DEF queueVars
  <2>4. QED
    BY <2>2, <2>3
<1>4. CASE WorkerBlocks
  BY <1>4 DEF WorkerBlocks, WorkerMoves, FrontBlocks, WaitOver
<1>5. CASE WorkerWakes
  BY <1>5 DEF WorkerWakes, SpuriousWakeup
<1>6. CASE WorkerTakesHead
  BY <1>6 DEF WorkerTakesHead, FrontReturns, queueVars
<1>7. CASE WorkerProcesses \/ WorkerThrows \/ WorkerStores \/ WorkerRemoves
  <2>1. wpc # "front" /\ UNCHANGED waiters
    BY <1>7 DEF WorkerProcesses, WorkerThrows, WorkerStores, WorkerRemoves,
                WorkerMoves, RemoveAll, queueVars
  <2>2. QED
    BY <2>1
<1>8. QED
  BY <1>2, <1>3, <1>4, <1>5, <1>6, <1>7 DEF Next, WorkerStep

(* However many sessions push at either end of the queue, none leaves the  *)
(* worker asleep on a command (locked/queue.h:49-79).                      *)
THEOREM NoWakeupIsMissed == Spec => [](Worker \in waiters => iqueue = <<>>)
<1>1. Init => SleepInv
  BY DEF Init, SleepInv
<1>2. SleepInv => (Worker \in waiters => iqueue = <<>>)
  BY DEF SleepInv
<1>3. QED
  BY <1>1, <1>2, SleepStep, PTL DEF Spec
=============================================================================
