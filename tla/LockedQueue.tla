---------------------------- MODULE LockedQueue ----------------------------
(***************************************************************************)
(* locked::queue<T> (locked/queue.h): a std::list behind a mutex, with a   *)
(* condition variable that front() may block on.                           *)
(*                                                                         *)
(* Every method that takes the mutex is one atomic operator here; the      *)
(* methods that write a flag without it (enable, enableWait) are atomic    *)
(* writes of that flag, which other threads may overtake or be overtaken   *)
(* by.  The condition variable is the set of threads blocked in            *)
(* ready.wait: a blocked thread re-evaluates its predicate only after a    *)
(* notify_all or a spurious wakeup, so a missing notification is visible.  *)
(*                                                                         *)
(* The module holds the operations; the modules that own a queue EXTEND    *)
(* it and compose the operations into the steps of their threads.          *)
(***************************************************************************)
EXTENDS Integers, Sequences, FiniteSets

VARIABLES
  iqueue,      \* the std::list, head first
  isBlocking,  \* front() waits for data
  qIsRunning,  \* the queue's own isRunning: push() is not a no-op
  waiters      \* threads blocked in ready.wait

queueVars == <<iqueue, isBlocking, qIsRunning, waiters>>

QueueInit ==
  /\ iqueue = <<>>
  /\ isBlocking = TRUE
  /\ qIsRunning = FALSE
  /\ waiters = {}

QueueTypeOK(Thread, Elem) ==
  /\ iqueue \in Seq(Elem)
  /\ isBlocking \in BOOLEAN
  /\ qIsRunning \in BOOLEAN
  /\ waiters \subseteq Thread

NotifyAll == waiters' = {}

(***************************************************************************)
(* push and push_front: silently nothing while the queue is not enabled.   *)
(***************************************************************************)
\* Mutant of Insert: the notify_all() is forgotten.
InsertSilently(newQueue) ==
  /\ iqueue' = IF qIsRunning THEN newQueue ELSE iqueue
  /\ UNCHANGED <<isBlocking, qIsRunning, waiters>>

Insert(newQueue) ==
  /\ UNCHANGED <<isBlocking, qIsRunning>>
  /\ \/ qIsRunning /\ iqueue' = newQueue /\ NotifyAll
     \/ ~qIsRunning /\ UNCHANGED <<iqueue, waiters>>

\* Mutant of Push: push_back mistaken for push_front.
PushAtHead(value) == Insert(<<value>> \o iqueue)

Push(value) == Insert(Append(iqueue, value))

\* Mutant of PushFront: push_front mistaken for push_back.
PushFrontAtBack(value) == Insert(Append(iqueue, value))

PushFront(value) == Insert(<<value>> \o iqueue)

(***************************************************************************)
(* front(): block, return the head (which stays queued), or return empty.  *)
(***************************************************************************)
WaitOver == ~isBlocking \/ iqueue # <<>>

FrontBlocks(t) ==
  /\ t \notin waiters
  /\ ~WaitOver
  /\ waiters' = waiters \cup {t}
  /\ UNCHANGED <<iqueue, isBlocking, qIsRunning>>

FrontReturns(t) ==
  /\ t \notin waiters
  /\ WaitOver
  /\ UNCHANGED queueVars

SpuriousWakeup(t) ==
  /\ t \in waiters
  /\ waiters' = waiters \ {t}
  /\ UNCHANGED <<iqueue, isBlocking, qIsRunning>>

(***************************************************************************)
(* remove(v) is std::list::remove: it drops every element equal to v,      *)
(* wherever it is.  Without(s, v) is s restricted to the positions it      *)
(* keeps: its j-th element is the j-th of them.                            *)
(***************************************************************************)
Without(s, v) ==
  LET kept == {i \in DOMAIN s : s[i] # v}
      nth(j) == CHOOSE i \in kept : Cardinality({k \in kept : k <= i}) = j
  IN  [j \in 1..Cardinality(kept) |-> s[nth(j)]]

\* Mutant of RemoveAll: the front is popped, whatever it is.
RemoveFront(v) ==
  /\ iqueue' = Tail(iqueue)
  /\ UNCHANGED <<isBlocking, qIsRunning, waiters>>

RemoveAll(v) ==
  /\ iqueue' = Without(iqueue, v)
  /\ UNCHANGED <<isBlocking, qIsRunning, waiters>>

(***************************************************************************)
(* enable and enableWait write their flag without the mutex; disableWait   *)
(* takes it and wakes every waiter.                                        *)
(***************************************************************************)
\* Mutant of Enable: disabling also clears the list.
EnableOrClear(on) ==
  /\ qIsRunning' = on
  /\ iqueue' = IF on THEN iqueue ELSE <<>>
  /\ UNCHANGED <<isBlocking, waiters>>

Enable(on) ==
  /\ qIsRunning' = on
  /\ UNCHANGED <<iqueue, isBlocking, waiters>>

EnableWait ==
  /\ isBlocking' = TRUE
  /\ UNCHANGED <<iqueue, qIsRunning, waiters>>

\* Mutant of DisableWait: the notify_all() is forgotten.
DisableWaitSilently ==
  /\ isBlocking' = FALSE
  /\ UNCHANGED <<iqueue, qIsRunning, waiters>>

DisableWait ==
  /\ isBlocking' = FALSE
  /\ NotifyAll
  /\ UNCHANGED <<iqueue, qIsRunning>>

(***************************************************************************)
(* find_qorder: the position of the first element that satisfies the       *)
(* predicate, counted from 0, or -1.  The predicate is given as the set of *)
(* the values that satisfy it.                                             *)
(***************************************************************************)
FindQOrder(matching) ==
  LET at == {i \in DOMAIN iqueue : iqueue[i] \in matching}
  IN  IF at = {} THEN -1
      ELSE (CHOOSE i \in at : \A k \in at : i <= k) - 1

(* foreach, which only reads, visits the elements of the list.             *)
Elements == {iqueue[i] : i \in DOMAIN iqueue}
=============================================================================
