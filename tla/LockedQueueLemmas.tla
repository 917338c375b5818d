------------------------- MODULE LockedQueueLemmas -------------------------
(***************************************************************************)
(* What the queue's remove() does: to every list, and to one that holds    *)
(* its head's value once, as the workers' queues do.                       *)
(***************************************************************************)
EXTENDS LockedQueue, FiniteSetTheorems, SequenceTheorems, TLAPS

(* The value is at no other position of s than the first.                  *)
OnlyAtHead(s) == \A i \in 2..Len(s) : s[i] # s[1]

(* Removing the head's value from a list that holds it once is pop_front:  *)
(* what lets remove(optMsg.first) stand for taking the front out           *)
(* (locked/queue.h:93-97, osc_worker.cpp:72).                              *)
THEOREM WithoutHead ==
  ASSUME NEW S, NEW s \in Seq(S), s # <<>>, OnlyAtHead(s)
  PROVE  Without(s, Head(s)) = Tail(s)
<1> DEFINE kept == {i \in DOMAIN s : s[i] # Head(s)}
           upTo(i) == {k \in kept : k <= i}
           nth(j) == CHOOSE i \in kept : Cardinality(upTo(i)) = j
<1>1. Len(s) \in Nat /\ Len(s) >= 1 /\ DOMAIN s = 1..Len(s) /\ Head(s) = s[1]
  OBVIOUS
<1>2. kept = 2..Len(s)
  BY <1>1 DEF OnlyAtHead
<1>3. Cardinality(kept) = Len(s) - 1
  <2>1. Cardinality(2..Len(s)) = Len(s) - 1
    BY <1>1, FS_Interval
  <2> HIDE DEF kept
  <2>2. QED
    BY <1>2, <2>1
<1>4. ASSUME NEW i \in kept
      PROVE  Cardinality(upTo(i)) = i - 1
  <2>1. i \in Int /\ i >= 2
    BY <1>1, <1>2
  <2>2. upTo(i) = 2..i
    BY <1>1, <1>2, <2>1
  <2>3. Cardinality(2..i) = i - 1
    BY <2>1, FS_Interval
  <2> HIDE DEF upTo
  <2>4. QED
    BY <2>2, <2>3
<1>5. ASSUME NEW j \in 1..(Len(s) - 1)
      PROVE  nth(j) = j + 1
  <2>1. j + 1 \in kept /\ Cardinality(upTo(j + 1)) = j
    BY <1>1, <1>2, <1>4
  <2>2. \A i \in kept : Cardinality(upTo(i)) = j => i = j + 1
    BY <1>1, <1>2, <1>4
  <2>. HIDE DEF kept, upTo
  <2>3. QED
    BY <2>1, <2>2
<1>6. Without(s, Head(s)) = [j \in 1..Cardinality(kept) |-> s[nth(j)]]
  BY DEF Without
<1>7. Tail(s) = [j \in 1..(Len(s) - 1) |-> s[j + 1]]
  <2>1. Tail(s) \in Seq(S) /\ Len(Tail(s)) = Len(s) - 1
    BY <1>1, HeadTailProperties
  <2>2. Tail(s) \in [1..(Len(s) - 1) -> S]
    <3>1. Tail(s) \in [1..Len(Tail(s)) -> S]
      BY <2>1, LenProperties
    <3>2. QED
      BY <2>1, <3>1
  <2>3. \A j \in 1..(Len(s) - 1) : Tail(s)[j] = s[j + 1]
    BY <1>1, HeadTailProperties
  <2>4. QED
    BY <2>1, <2>2, <2>3, Zenon
<1> HIDE DEF kept, nth
<1>8. QED
  BY <1>3, <1>5, <1>6, <1>7
-----------------------------------------------------------------------------

(* at lists, in increasing order, the positions of s that do not hold v.   *)
KeepsAt(at, s, v) ==
  /\ at \in [1..Len(Without(s, v)) -> DOMAIN s]
  /\ \A j \in DOMAIN at : s[at[j]] # v /\ Without(s, v)[j] = s[at[j]]
  /\ \A j, k \in DOMAIN at : j < k => at[j] < at[k]
  /\ \A i \in DOMAIN s : s[i] # v => \E j \in DOMAIN at : at[j] = i

(* remove() keeps every other element, in the order they had, whether the  *)
(* removed value was there once, several times or not at all               *)
(* (locked/queue.h:93-97).                                                 *)
THEOREM WithoutKeepsRest ==
  ASSUME NEW S, NEW s \in Seq(S), NEW v
  PROVE  /\ Without(s, v) \in Seq(S)
         /\ \E at : KeepsAt(at, s, v)
<1> DEFINE kept == {i \in DOMAIN s : s[i] # v}
           upTo(i) == {k \in kept : k <= i}
           rank(i) == Cardinality(upTo(i))
           N == Cardinality(kept)
           nth(j) == CHOOSE i \in kept : rank(i) = j
<1>1. Len(s) \in Nat /\ DOMAIN s = 1..Len(s) /\ \A i \in DOMAIN s : s[i] \in S
  OBVIOUS
<1>2. IsFiniteSet(kept) /\ N \in Nat
  <2>1. IsFiniteSet(1..Len(s))
    BY <1>1, FS_Interval
  <2>2. kept \subseteq 1..Len(s)
    BY <1>1
  <2> HIDE DEF kept
  <2>3. QED
    BY <2>1, <2>2, FS_Subset, FS_CardinalityType
<1>3. Without(s, v) = [j \in 1..N |-> s[nth(j)]]
  BY DEF Without
<1>4. \A i \in kept : i \in DOMAIN s /\ s[i] # v /\ i \in Int
  BY <1>1
<1>5. \A i \in DOMAIN s : s[i] # v => i \in kept
  OBVIOUS
<1> HIDE DEF kept
<1>6. ASSUME NEW i \in kept
      PROVE  IsFiniteSet(upTo(i)) /\ rank(i) \in 1..N /\ rank(i) \in Int
  <2>1. upTo(i) \subseteq kept /\ i \in upTo(i)
    BY <1>4
  <2> HIDE DEF upTo
  <2>2. IsFiniteSet(upTo(i)) /\ rank(i) \in Nat /\ rank(i) <= N
    BY <1>2, <2>1, FS_Subset, FS_CardinalityType
  <2>3. rank(i) # 0
    BY <2>1, <2>2, FS_EmptySet
  <2> HIDE DEF rank
  <2>4. QED
    BY <1>2, <2>2, <2>3
<1>7. ASSUME NEW i \in kept, NEW k \in kept, i < k
      PROVE  rank(i) < rank(k)
  <2>1. upTo(i) \subseteq upTo(k) /\ k \in upTo(k) /\ k \notin upTo(i)
    BY <1>4, <1>7
  <2> HIDE DEF upTo
  <2>2. IsFiniteSet(upTo(k)) /\ rank(i) \in Int /\ rank(k) \in Int
    BY <1>6
  <2>3. rank(i) <= rank(k) /\ rank(i) # rank(k)
    BY <2>1, <2>2, FS_Subset
  <2> HIDE DEF rank
  <2>4. QED
    BY <2>2, <2>3
<1>8. ASSUME NEW i \in kept, NEW k \in kept, rank(i) = rank(k)
      PROVE  i = k
  <2> HIDE DEF rank, upTo
  <2>1. /\ rank(i) \in Int /\ rank(k) \in Int /\ i \in Int /\ k \in Int
        /\ i < k => rank(i) < rank(k)
        /\ k < i => rank(k) < rank(i)
    BY <1>4, <1>6, <1>7
  <2>2. QED
    BY <1>8, <2>1
<1>9. ASSUME NEW j \in 1..N
      PROVE  \E i \in kept : rank(i) = j
  <2> DEFINE f == [i \in kept |-> rank(i)]
  <2> HIDE DEF rank
  <2>1. f \in Injection(kept, 1..N)
    BY <1>6, <1>8 DEF Injection, IsInjective
  <2>2. IsFiniteSet(1..N) /\ Cardinality(1..N) = N
    BY <1>2, FS_Interval
  <2> HIDE DEF f
  <2>3. f \in Surjection(kept, 1..N)
    <3>1. Cardinality(kept) = Cardinality(1..N)
      BY <2>2
    <3> HIDE DEF N
    <3>2. QED
      BY <2>1, <2>2, <3>1, FS_Injection
  <2>4. \E i \in kept : f[i] = j
    BY <2>3 DEF Surjection
  <2>5. QED
    BY <2>4 DEF f
<1>10. ASSUME NEW j \in 1..N
       PROVE  nth(j) \in kept /\ rank(nth(j)) = j
  <2> HIDE DEF rank
  <2>1. QED
    BY <1>9
<1>11. ASSUME NEW i \in kept
       PROVE  rank(i) \in 1..N /\ nth(rank(i)) = i
  <2>1. rank(i) \in 1..N
    BY <1>6
  <2>2. nth(rank(i)) \in kept /\ rank(nth(rank(i))) = rank(i)
    BY <2>1, <1>10
  <2> HIDE DEF nth
  <2>3. QED
    BY <1>8, <2>1, <2>2
<1>12. ASSUME NEW j \in 1..N, NEW k \in 1..N, j < k
       PROVE  nth(j) < nth(k)
  <2>1. /\ nth(j) \in kept /\ rank(nth(j)) = j
        /\ nth(k) \in kept /\ rank(nth(k)) = k
    BY <1>10
  <2> HIDE DEF nth
  <2>2. /\ nth(j) \in Int /\ nth(k) \in Int
        /\ nth(k) < nth(j) => rank(nth(k)) < rank(nth(j))
    BY <1>4, <1>7, <2>1
  <2> HIDE DEF rank
  <2>3. QED
    BY <1>12, <2>1, <2>2
<1> DEFINE at == [j \in 1..N |-> nth(j)]
<1> HIDE DEF nth, N, rank
<1>13. Without(s, v) \in Seq(S) /\ Len(Without(s, v)) = N
  <2>1. \A j \in 1..N : s[nth(j)] \in S
    BY <1>1, <1>4, <1>10
  <2>2. QED
    BY <1>2, <1>3, <2>1
<1>14. KeepsAt(at, s, v)
  <2>1. at \in [1..Len(Without(s, v)) -> DOMAIN s]
    BY <1>4, <1>10, <1>13
  <2>2. \A j \in DOMAIN at : s[at[j]] # v /\ Without(s, v)[j] = s[at[j]]
    BY <1>3, <1>4, <1>10
  <2>3. \A j, k \in DOMAIN at : j < k => at[j] < at[k]
    BY <1>12
  <2>4. \A i \in DOMAIN s : s[i] # v => \E j \in DOMAIN at : at[j] = i
    BY <1>5, <1>11
  <2>5. QED
    BY <2>1, <2>2, <2>3, <2>4 DEF KeepsAt
<1>15. QED
  BY <1>13, <1>14
=============================================================================
