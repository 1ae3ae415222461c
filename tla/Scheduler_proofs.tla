--------------------------- MODULE Scheduler_proofs ---------------------------
(***************************************************************************)
(* Proofs about the scheduler, for any set of tasks, priorities and times, *)
(* whatever is enabled and disabled between the passes: the task queue     *)
(* stays sound, and how late the gyro can be.                              *)
(***************************************************************************)
EXTENDS Scheduler, FiniteSetTheorems, WellFoundedInduction, TLAPS

USE TaskAssumption, CycleAssumption

LEMMA TaskCountNat == TaskCount \in Nat
BY FS_CardinalityType DEF TaskCount

\* A set of natural numbers with a member has a smallest one.
LEMMA Smallest ==
  ASSUME NEW T \in SUBSET Nat, T # {}
  PROVE  \E x \in T : \A y \in T : x <= y
<1> DEFINE R == OpToRel(<, Nat)
<1>1. IsWellFoundedOn(R, Nat)
  BY NatLessThanWellFounded
<1>2. \A x, y \in Nat : <<x, y>> \in R <=> x < y
  BY DEF OpToRel
<1> HIDE DEF R
<1>3. PICK x \in T : \A y \in T : ~ (<<y, x>> \in R)
  BY <1>1, WFMin
<1>4. ASSUME NEW y \in T PROVE x <= y
  <2>1. x \in Nat /\ y \in Nat /\ ~(y < x)
    BY <1>2, <1>3
  <2> QED BY <2>1
<1> QED BY <1>4

LEMMA PriorityInt == \A t \in Tasks : StaticPriority[t] \in Int
<1> SUFFICES ASSUME NEW t \in Tasks PROVE StaticPriority[t] \in Int
  OBVIOUS
<1>1. StaticPriority \in [Tasks -> {-1} \cup 1..255]
  OBVIOUS
<1>2. StaticPriority[t] \in {-1} \cup 1..255
  BY <1>1
<1> QED BY <1>2

-----------------------------------------------------------------------------
(* The queue.                                                              *)

QueueType == [array : [Index -> Tasks \cup {NULL}], size : Index]

\* QueueSound, of any queue: the array ends in NULL after size tasks, which
\* differ and are sorted.
EndsInNull(q) == \A k \in Index : q.array[k] = NULL <=> k >= q.size

Sorted(q) ==
  \A j, k \in 0..(q.size - 1) : j < k =>
    /\ q.array[j] # q.array[k]
    /\ StaticPriority[q.array[j]] >= StaticPriority[q.array[k]]

Sound(q) == q \in QueueType /\ EndsInNull(q) /\ Sorted(q)

\* What stands before the end of the queue is a task.
LEMMA QueuedIsTask ==
  ASSUME NEW q, Sound(q), NEW k \in 0..(q.size - 1)
  PROVE  k \in Index /\ q.array[k] \in Tasks /\ q.size \in 0..TaskCount
<1>1. q.size \in Index /\ TaskCount \in Nat
  BY TaskCountNat DEF Sound, QueueType
<1>2. k \in Index /\ ~(k >= q.size)
  BY <1>1 DEF Index
<1> QED BY <1>1, <1>2 DEF Sound, QueueType, EndsInNull, Index

\* There is a place for a task in a queue that is not full.
LEMMA PlaceExists ==
  ASSUME NEW q, Sound(q), NEW t \in Tasks
  PROVE  \E k \in 0..q.size : IsPlace(q, t, k)
<1>1. q.size \in Nat /\ q.size \in Index
  BY TaskCountNat DEF Sound, QueueType, Index
<1> DEFINE Lower == {k \in 0..q.size : \/ q.array[k] = NULL
                                      \/ StaticPriority[q.array[k]] < StaticPriority[t]}
<1>2. q.size \in Lower
  BY <1>1 DEF Sound, EndsInNull
<1>3. PICK k \in Lower : \A j \in Lower : k <= j
  <2>1. Lower \in SUBSET Nat
    BY <1>1
  <2> HIDE DEF Lower
  <2> QED BY <1>2, <2>1, Smallest
<1>4. \A j \in 0..(k - 1) : j \notin Lower /\ j \in 0..q.size
  BY <1>1, <1>3
<1> QED BY <1>3, <1>4 DEF IsPlace

\* A task inserted at its place leaves a sound queue.
LEMMA InsertSound ==
  ASSUME NEW q, Sound(q), NEW t \in Tasks, ~queueContains(q, t), q.size < TaskCount,
         NEW k \in 0..q.size, IsPlace(q, t, k)
  PROVE  Sound(InsertAt(q, t, k))
<1> DEFINE r == InsertAt(q, t, k)
<1>1. q.size \in 0..TaskCount /\ TaskCount \in Nat
      /\ q.array \in [Index -> Tasks \cup {NULL}]
  BY TaskCountNat DEF Sound, QueueType, Index
<1>2. /\ r.size = q.size + 1
      /\ \A j \in Index : r.array[j] = IF j < k \/ j > q.size THEN q.array[j]
                                       ELSE IF j = k THEN t ELSE q.array[j - 1]
  BY DEF InsertAt
<1>3. \A j \in Index : j \in Int /\ 0 <= j /\ j <= TaskCount
                       /\ (q.array[j] = NULL <=> j >= q.size)
  BY <1>1 DEF Index, Sound, EndsInNull
<1> HIDE DEF r
<1>4. ASSUME NEW j \in Index
      PROVE  r.array[j] \in Tasks \cup {NULL} /\ (r.array[j] = NULL <=> j >= q.size + 1)
  <2>1. CASE j > q.size
    BY <2>1, <1>1, <1>2, <1>3
  <2>2. CASE j < k
    BY <2>2, <1>1, <1>2, <1>3
  <2>3. CASE j = k
    BY <2>3, <1>1, <1>2, <1>3
  <2>4. CASE j > k /\ j <= q.size
    <3>1. j \in Int /\ k \in Int /\ k >= 0 /\ j <= TaskCount /\ TaskCount \in Nat
      BY <1>1, <1>3
    <3>2. j - 1 \in Index
      BY <3>1, <2>4 DEF Index
    <3>3. ~(j < k) /\ ~(j > q.size) /\ j # k
      BY <3>1, <2>4, <1>1
    <3>4. r.array[j] = q.array[j - 1]
      BY <3>3, <1>2
    <3> QED BY <3>1, <3>2, <3>4, <2>4, <1>1, <1>3
  <2> QED BY <2>1, <2>2, <2>3, <2>4, <1>1, <1>3
<1>9. r \in QueueType /\ EndsInNull(r)
  <2>1. q.size + 1 \in Index
    BY <1>1 DEF Index
  <2>2. r = [array |-> [j \in Index |-> r.array[j]], size |-> q.size + 1]
    BY DEF r, InsertAt
  <2> QED BY <2>1, <2>2, <1>2, <1>4 DEF QueueType, EndsInNull
\* Where each position of the new queue comes from.
<1>5. \A j \in 0..q.size : j \in Index
        /\ (j < k => r.array[j] = q.array[j]) /\ (j = k => r.array[j] = t)
        /\ (j > k => r.array[j] = q.array[j - 1])
  BY <1>1, <1>2 DEF Index
\* The tasks before t have its priority or a higher one, those after it a lower one.
<1>6. \A j \in 0..(q.size - 1) :
        /\ q.array[j] \in Tasks /\ q.array[j] # t
        /\ StaticPriority[q.array[j]] \in Int /\ StaticPriority[t] \in Int
        /\ j < k => StaticPriority[q.array[j]] >= StaticPriority[t]
  <2> SUFFICES ASSUME NEW j \in 0..(q.size - 1)
               PROVE  /\ q.array[j] \in Tasks /\ q.array[j] # t
                      /\ StaticPriority[q.array[j]] \in Int /\ StaticPriority[t] \in Int
                      /\ j < k => StaticPriority[q.array[j]] >= StaticPriority[t]
    OBVIOUS
  <2>1. q.array[j] \in Tasks /\ q.array[j] # t
    BY QueuedIsTask DEF queueContains
  <2>2. StaticPriority[q.array[j]] \in Int /\ StaticPriority[t] \in Int
    BY <2>1, PriorityInt
  <2>3. ASSUME j < k PROVE StaticPriority[q.array[j]] >= StaticPriority[t]
    <3>1. j \in 0..(k - 1)
      BY <2>3, <1>1
    <3> QED BY <3>1, <2>2 DEF IsPlace
  <2> QED BY <2>1, <2>2, <2>3
<1>7. \A j \in 0..(q.size - 1) : j >= k => StaticPriority[q.array[j]] < StaticPriority[t]
  <2> SUFFICES ASSUME NEW j \in 0..(q.size - 1), j >= k
               PROVE  StaticPriority[q.array[j]] < StaticPriority[t]
    OBVIOUS
  <2>1. k \in 0..(q.size - 1) /\ q.array[k] \in Tasks
    BY <1>1, QueuedIsTask
  <2>2. StaticPriority[q.array[k]] < StaticPriority[t]
    BY <2>1 DEF IsPlace
  <2>3. j # k => StaticPriority[q.array[k]] >= StaticPriority[q.array[j]]
    BY <2>1 DEF Sound, Sorted
  <2> QED BY <2>1, <2>2, <2>3, <1>6
<1>8. Sorted(r)
  <2> SUFFICES ASSUME NEW i \in 0..q.size, NEW j \in 0..q.size, i < j
               PROVE  /\ r.array[i] # r.array[j]
                      /\ StaticPriority[r.array[i]] >= StaticPriority[r.array[j]]
    BY <1>1, <1>2 DEF Sorted
  <2>1. CASE j < k
    BY <2>1, <1>1, <1>5 DEF Sound, Sorted
  <2>2. CASE j = k
    BY <2>2, <1>1, <1>5, <1>6
  <2>3. CASE j > k /\ i < k
    <3>1. i \in 0..(q.size - 1) /\ j - 1 \in 0..(q.size - 1) /\ i < j - 1
      BY <2>3, <1>1
    <3> QED BY <2>3, <3>1, <1>1, <1>5 DEF Sound, Sorted
  <2>4. CASE j > k /\ i = k
    BY <2>4, <1>1, <1>5, <1>6, <1>7
  <2>5. CASE j > k /\ i > k
    BY <2>5, <1>1, <1>5 DEF Sound, Sorted
  <2> QED BY <2>1, <2>2, <2>3, <2>4, <2>5, <1>1
<1> QED BY <1>9, <1>8 DEF Sound, r

\* Enabling a task, in the queue already or not, leaves a sound queue: its place
\* exists, and the array has room for it.
LEMMA AddSound ==
  ASSUME NEW q, Sound(q), NEW t \in Tasks
  PROVE  Sound(queueAdd(q, t))
<1>1. CASE q.size >= TaskCount \/ queueContains(q, t)
  BY <1>1 DEF queueAdd
<1>2. CASE ~(q.size >= TaskCount) /\ ~queueContains(q, t)
  <2>1. q.size < TaskCount
    BY <1>2, TaskCountNat DEF Sound, QueueType, Index
  <2> DEFINE place == CHOOSE k \in 0..q.size : IsPlace(q, t, k)
  <2>2. place \in 0..q.size /\ IsPlace(q, t, place)
    BY PlaceExists
  <2>3. queueAdd(q, t) = InsertAt(q, t, place)
    BY <1>2 DEF queueAdd
  <2> QED BY <1>2, <2>1, <2>2, <2>3, InsertSound
<1> QED BY <1>1, <1>2

\* A task taken out leaves a sound queue, its terminator moved up.
LEMMA RemoveSound ==
  ASSUME NEW q, Sound(q), NEW t
  PROVE  Sound(queueRemove(q, t))
<1>1. CASE ~queueContains(q, t)
  BY <1>1 DEF queueRemove
<1>2. CASE queueContains(q, t)
  <2> DEFINE k == CHOOSE j \in 0..(q.size - 1) : q.array[j] = t
             r == RemoveAt(q, k)
  <2>1. k \in 0..(q.size - 1)
    BY <1>2 DEF queueContains
  <2>2. queueRemove(q, t) = r
    BY <1>2 DEF queueRemove
  <2> HIDE DEF k
  <2>3. q.size \in 1..TaskCount /\ TaskCount \in Nat
    BY <2>1, TaskCountNat DEF Sound, QueueType, Index
  <2>4. /\ r.size = q.size - 1
        /\ \A j \in Index : r.array[j] = IF k <= j /\ j < q.size THEN q.array[j + 1]
                                         ELSE q.array[j]
        /\ r = [array |-> [j \in Index |-> r.array[j]], size |-> q.size - 1]
    BY DEF RemoveAt
  <2> HIDE DEF r
  <2>5. \A j \in Index : /\ j \in Int /\ 0 <= j /\ j <= TaskCount
                         /\ q.array[j] = NULL <=> j >= q.size
                         /\ q.array[j] \in Tasks \cup {NULL}
    BY <2>3 DEF Index, Sound, QueueType, EndsInNull
  <2>6. ASSUME NEW j \in Index
        PROVE  r.array[j] \in Tasks \cup {NULL} /\ (r.array[j] = NULL <=> j >= q.size - 1)
    <3>1. CASE k <= j /\ j < q.size
      <4>1. j \in Int /\ j + 1 \in Int /\ 0 <= j + 1 /\ j + 1 <= TaskCount
        BY <3>1, <2>3, <2>5
      <4>2. j + 1 \in Index
        BY <4>1, <2>3 DEF Index
      <4>3. r.array[j] = q.array[j + 1]
        BY <3>1, <2>4
      <4>4. q.array[j + 1] \in Tasks \cup {NULL}
            /\ (q.array[j + 1] = NULL <=> j + 1 >= q.size)
        BY <4>2, <2>5
      <4> QED BY <4>1, <4>3, <4>4, <2>3
    <3>2. CASE ~(k <= j /\ j < q.size)
      BY <3>2, <2>1, <2>3, <2>4, <2>5
    <3> QED BY <3>1, <3>2
  <2>7. r \in QueueType /\ EndsInNull(r)
    <3>1. q.size - 1 \in Index
      BY <2>3 DEF Index
    <3> QED BY <3>1, <2>4, <2>6 DEF QueueType, EndsInNull
  <2>8. Sorted(r)
    <3> SUFFICES ASSUME NEW i \in 0..(q.size - 2), NEW j \in 0..(q.size - 2), i < j
                 PROVE  /\ r.array[i] # r.array[j]
                        /\ StaticPriority[r.array[i]] >= StaticPriority[r.array[j]]
      <4>1. r.size - 1 = q.size - 2
        BY <2>3, <2>4
      <4> QED BY <4>1 DEF Sorted
    <3>1. \A n \in 0..(q.size - 2) :
            /\ n \in Index /\ n \in 0..(q.size - 1) /\ n + 1 \in 0..(q.size - 1)
            /\ n < k => r.array[n] = q.array[n]
            /\ n >= k => r.array[n] = q.array[n + 1]
      <4> SUFFICES ASSUME NEW n \in 0..(q.size - 2)
                   PROVE  /\ n \in Index /\ n \in 0..(q.size - 1)
                          /\ n + 1 \in 0..(q.size - 1)
                          /\ n < k => r.array[n] = q.array[n]
                          /\ n >= k => r.array[n] = q.array[n + 1]
        OBVIOUS
      <4>1. n \in Index /\ n \in 0..(q.size - 1) /\ n + 1 \in 0..(q.size - 1)
            /\ n < q.size
        BY <2>3 DEF Index
      <4>2. k \in Int
        BY <2>1
      <4>3. r.array[n] = IF k <= n /\ n < q.size THEN q.array[n + 1] ELSE q.array[n]
        BY <4>1, <2>4
      <4>4. CASE n < k
        BY <4>1, <4>2, <4>3, <4>4
      <4>5. CASE n >= k
        BY <4>1, <4>2, <4>3, <4>5
      <4> QED BY <4>1, <4>2, <4>4, <4>5
    <3>2. CASE j < k
      BY <3>1, <3>2, <2>1, <2>3 DEF Sound, Sorted
    <3>3. CASE j >= k /\ i < k
      BY <3>1, <3>3, <2>1, <2>3 DEF Sound, Sorted
    <3>4. CASE j >= k /\ i >= k
      BY <3>1, <3>4, <2>1, <2>3 DEF Sound, Sorted
    <3> QED BY <3>2, <3>3, <3>4, <2>1, <2>3
  <2> QED BY <2>2, <2>7, <2>8 DEF Sound
<1> QED BY <1>1, <1>2

-----------------------------------------------------------------------------
(* The queue in every step.                                                *)

LEMMA SoundInit == Init => Sound(queue)
<1> SUFFICES ASSUME Init PROVE Sound(queue)
  OBVIOUS
<1>1. 0 \in Index
  BY TaskCountNat DEF Index
<1>2. EmptyQueue \in QueueType
  BY <1>1 DEF EmptyQueue, QueueType
<1>3. EndsInNull(EmptyQueue) /\ Sorted(EmptyQueue)
  BY TaskCountNat DEF EmptyQueue, EndsInNull, Sorted, Index
<1> QED BY <1>2, <1>3 DEF Init, Sound

LEMMA SoundNext == Sound(queue) /\ [Next]_vars => Sound(queue)'
<1> SUFFICES ASSUME Sound(queue), [Next]_vars PROVE Sound(queue)'
  OBVIOUS
<1>1. ASSUME NEW t \in Tasks, NEW enabled \in BOOLEAN, setTaskEnabled(t, enabled)
      PROVE  Sound(queue')
  <2>1. CASE enabled
    <3>1. queue' = queueAdd(queue, t)
      BY <1>1, <2>1 DEF setTaskEnabled
    <3> QED BY <3>1, AddSound
  <2>2. CASE ~enabled
    <3>1. queue' = queueRemove(queue, t)
      BY <1>1, <2>2 DEF setTaskEnabled
    <3> QED BY <3>1, RemoveSound
  <2> QED BY <2>1, <2>2
<1>2. CASE tasksInit
  BY <1>1, <1>2 DEF tasksInit
<1>3. CASE Toggle
  <2>1. Toggled \subseteq Tasks
    BY DEF Regular
  <2> QED BY <1>1, <1>3, <2>1 DEF Toggle
<1>4. CASE scheduler
  BY <1>4 DEF scheduler, RunGyro, LookAtTasks, PassBy
<1>5. CASE UNCHANGED vars
  BY <1>5 DEF vars
<1>6. Sound(queue')
  BY <1>2, <1>3, <1>4, <1>5 DEF Next
<1> QED BY <1>6 DEF Sound, QueueType, EndsInNull, Sorted

\* Whatever is enabled and disabled, and in whatever order, the queue of tasks
\* holds each task once, by falling priority, and ends within its array.
THEOREM QueueStaysSound == Spec => []QueueSound
<1>1. Sound(queue) => QueueSound
  BY DEF Sound, EndsInNull, Sorted, QueueSound
<1> QED BY <1>1, SoundInit, SoundNext, PTL DEF Spec
-----------------------------------------------------------------------------
(* The time left until the gyro.                                           *)

\* What division by the gyro's period gives.
LEMMA Quotient ==
  ASSUME NEW m \in Int
  PROVE  /\ m \div GyroPeriod \in Int /\ GyroPeriod * (m \div GyroPeriod) \in Int
         /\ GyroPeriod * (m \div GyroPeriod) <= m
         /\ m < GyroPeriod * (m \div GyroPeriod) + GyroPeriod
         /\ GyroPeriod * (1 + (m \div GyroPeriod))
              = GyroPeriod * (m \div GyroPeriod) + GyroPeriod
<1>1. GyroPeriod \in Nat \ {0}
  OBVIOUS
<1>2. ASSUME NEW p \in Nat \ {0} PROVE /\ m \div p \in Int /\ p * (m \div p) \in Int
                                       /\ p * (m \div p) <= m /\ m < p * (m \div p) + p
  BY <1>2
<1>3. ASSUME NEW p \in Nat, NEW k \in Int PROVE p * (1 + k) = p * k + p
  BY <1>3
<1> QED BY <1>1, <1>2, <1>3

\* The next multiple of the period is a period away.
LEMMA NextMultiple ==
  ASSUME NEW a \in Int, NEW b \in Int, a < b
  PROVE  GyroPeriod * a + GyroPeriod <= GyroPeriod * b
<1>1. b - a - 1 \in Nat /\ GyroPeriod \in Nat \ {0}
  OBVIOUS
<1>2. ASSUME NEW p \in Nat, NEW c \in Nat PROVE p * c >= 0 /\ p * c \in Int
  BY <1>2
<1>3. ASSUME NEW p \in Nat PROVE p * b = p * a + p + p * (b - a - 1)
  BY <1>3
<1>4. ASSUME NEW p \in Nat PROVE p * a \in Int /\ p * b \in Int
  BY <1>4
<1>5. /\ GyroPeriod * b = GyroPeriod * a + GyroPeriod + GyroPeriod * (b - a - 1)
      /\ GyroPeriod * (b - a - 1) >= 0 /\ GyroPeriod * (b - a - 1) \in Int
      /\ GyroPeriod * a \in Int /\ GyroPeriod * b \in Int
  BY <1>1, <1>2, <1>3, <1>4
<1> QED BY <1>1, <1>5

\* Rounding up to whole periods goes past every multiple that is smaller.
LEMMA RoundedUp ==
  ASSUME NEW x \in Nat
  PROVE  /\ WholePeriods(x) \in Nat
         /\ \A j \in Int : GyroPeriod * j < x => GyroPeriod * j + GyroPeriod <= WholePeriods(x)
<1> DEFINE k == (x + GyroPeriod - 1) \div GyroPeriod
<1>1. x + GyroPeriod - 1 \in Int /\ GyroPeriod \in Nat \ {0}
  OBVIOUS
<1>2. /\ k \in Int /\ GyroPeriod * k \in Int
      /\ x + GyroPeriod - 1 < GyroPeriod * k + GyroPeriod
  BY <1>1, Quotient
<1>3. WholePeriods(x) = GyroPeriod * k
  BY DEF WholePeriods
<1> HIDE DEF k
<1>4. GyroPeriod * k \in Nat /\ GyroPeriod * k >= x
  BY <1>1, <1>2
<1>5. ASSUME NEW j \in Int, GyroPeriod * j < x
      PROVE  GyroPeriod * j + GyroPeriod <= GyroPeriod * k
  <2>1. ASSUME k <= j PROVE FALSE
    <3>1. GyroPeriod * k <= GyroPeriod * j
      <4>1. CASE k = j
        <5>1. GyroPeriod * j \in Int
          BY <4>1, <1>2
        <5> QED BY <5>1, <4>1
      <4>2. CASE k < j
        <5>1. GyroPeriod * k + GyroPeriod <= GyroPeriod * j
          BY <4>2, <1>2, NextMultiple
        <5>2. GyroPeriod * j \in Int
          BY <1>1
        <5> QED BY <5>1, <5>2, <1>1, <1>2
      <4> QED BY <2>1, <4>1, <4>2, <1>2
    <3>2. GyroPeriod * j \in Int
      BY <1>1
    <3> QED BY <3>1, <3>2, <1>4, <1>5
  <2> QED BY <2>1, <1>2, NextMultiple
<1> QED BY <1>3, <1>4, <1>5

LEMMA SameQuotient ==
  ASSUME NEW m \in Int, NEW n \in Int, m <= n,
         n < GyroPeriod * (m \div GyroPeriod) + GyroPeriod
  PROVE  n \div GyroPeriod = m \div GyroPeriod
<1> DEFINE j == m \div GyroPeriod
           k == n \div GyroPeriod
<1>1. GyroPeriod \in Nat \ {0}
  OBVIOUS
<1>2. /\ j \in Int /\ k \in Int /\ GyroPeriod * j \in Int /\ GyroPeriod * k \in Int
      /\ GyroPeriod * j <= m /\ m < GyroPeriod * j + GyroPeriod
      /\ GyroPeriod * k <= n /\ n < GyroPeriod * k + GyroPeriod
      /\ n < GyroPeriod * j + GyroPeriod
  BY Quotient
<1>3. \A a, b \in Int : a < b => GyroPeriod * a + GyroPeriod <= GyroPeriod * b
  BY NextMultiple
<1>4. ~(j < k)
  BY <1>1, <1>2, <1>3
<1>5. ~(k < j)
  BY <1>1, <1>2, <1>3
<1> HIDE DEF j, k
<1>6. j = k
  BY <1>2, <1>4, <1>5
<1> QED BY <1>6 DEF j, k

\* The periods that are lost altogether.
Lost == GyroPeriod * ((-left) \div GyroPeriod)

\* The gyro is due at the next boundary that is not past by a whole period.
LEMMA DueInValue ==
  ASSUME left \in Int
  PROVE  /\ DueIn \in Int /\ Lost \in Int
         /\ left >= -GyroPeriod => DueIn = left
         /\ left < -GyroPeriod =>
              DueIn \in 1..GyroPeriod /\ left = DueIn - Lost - GyroPeriod
<1> DEFINE m == -left
           lost == GyroPeriod * (m \div GyroPeriod)
<1>1. m \in Int /\ GyroPeriod \in Nat \ {0}
  OBVIOUS
<1>2. /\ lost \in Int /\ lost <= m /\ m < lost + GyroPeriod
      /\ GyroPeriod * (1 + (m \div GyroPeriod)) = lost + GyroPeriod
  BY <1>1, Quotient
<1>3. Lost = lost
  BY DEF Lost
<1>4. CASE left >= -GyroPeriod
  <2>1. DueIn = left
    BY <1>1, <1>4 DEF DueIn
  <2> HIDE DEF lost
  <2> QED BY <2>1, <1>1, <1>2, <1>3, <1>4
<1>5. CASE left < -GyroPeriod
  <2>1. DueIn = left + GyroPeriod * (1 + (m \div GyroPeriod))
    BY <1>5 DEF DueIn
  <2> HIDE DEF lost
  <2>2. DueIn = left + (lost + GyroPeriod)
    BY <2>1, <1>2
  <2> QED BY <2>2, <1>1, <1>2, <1>3, <1>5
<1> QED BY <1>4, <1>5

-----------------------------------------------------------------------------
(* Types.                                                                  *)

\* As early as polling for the gyro may start: it is put off in steps while it
\* is more than the minimum.
LowestLoopStart ==
  IF LoopStartDown = 0 THEN LoopStartMin ELSE LoopStartMin - LoopStartDown + 1

\* The types of all but the queue.
TimesOK ==
  /\ left \in Int
  /\ age \in [TimeDriven -> 0..Horizon] /\ signal \in [EventDriven -> -1..Horizon]
  /\ anticipatedExecutionTime \in [Regular -> Nat]
  /\ skipped \in [Regular -> 0..255]
  /\ taskGuardCycles \in Nat /\ checkCycles \in Nat
  /\ schedLoopStartCycles \in Nat
  /\ schedLoopStartCycles >= LowestLoopStart
  /\ scheduleCount \in 0..(DeferPasses - 1)
  /\ excess \in Nat

LEMMA Min2Horizon == ASSUME NEW n \in Nat PROVE Min2(n, Horizon) \in 0..Horizon
BY DEF Min2

LEMMA TimesAge ==
  ASSUME TimesOK
  PROVE  /\ \A t \in TimeDriven : age[t] \in 0..Horizon /\ age[t] \in Nat
         /\ \A t \in EventDriven : signal[t] \in -1..Horizon
         /\ \A t \in EventDriven : Signalled(t) => signal[t] \in Nat
BY DEF TimesOK, Signalled

LEMMA ElapseType ==
  ASSUME TimesOK, NEW arrived, NEW spent \in Nat, Elapse(arrived, spent)
  PROVE  age' \in [TimeDriven -> 0..Horizon] /\ signal' \in [EventDriven -> -1..Horizon]
<1>1. \A n \in Nat : Min2(n, Horizon) \in 0..Horizon
  BY Min2Horizon
<1>2. age' \in [TimeDriven -> 0..Horizon]
  <2>1. \A t \in TimeDriven : age[t] + spent \in Nat
    BY TimesAge
  <2> QED BY <2>1, <1>1 DEF Elapse, Ages
<1>3. signal' \in [EventDriven -> -1..Horizon]
  <2>1. \A t \in EventDriven : Signalled(t) => signal[t] + spent \in Nat
    BY TimesAge
  <2>2. \A n \in 0..Horizon : n \in -1..Horizon
    OBVIOUS
  <2>3. -1 \in -1..Horizon
    OBVIOUS
  <2> QED BY <2>1, <2>2, <2>3, <1>1 DEF Elapse, Signals
<1> QED BY <1>2, <1>3

LEMMA LoopStartType ==
  ASSUME TimesOK
  PROVE  LoopStart \in Nat /\ LoopStart >= schedLoopStartCycles
         /\ LoopStart >= LowestLoopStart /\ LowestLoopStart \in Nat
<1>1. /\ schedLoopStartCycles \in Nat /\ LoopStartUp \in Nat
      /\ LoopStartMin \in Nat /\ LoopStartDown \in Nat /\ LoopStartDown <= LoopStartMin
      /\ schedLoopStartCycles >= LowestLoopStart
  BY DEF TimesOK
<1>2. LowestLoopStart \in Nat
  BY <1>1 DEF LowestLoopStart
<1>3. LoopStart \in {schedLoopStartCycles, schedLoopStartCycles + LoopStartUp}
  BY DEF LoopStart
<1> QED BY <1>1, <1>2, <1>3

LEMMA GuardType ==
  ASSUME TimesOK, NEW overdue \in Int, AdjustGuard(overdue)
  PROVE  taskGuardCycles' \in Nat
<1>1. /\ taskGuardCycles \in Nat /\ GuardUp \in Nat /\ GuardDown \in Nat /\ GuardMin \in Nat
      /\ GuardDown <= GuardMin
  BY DEF TimesOK
<1>2. \/ taskGuardCycles' \in {taskGuardCycles, taskGuardCycles + GuardUp}
      \/ taskGuardCycles > GuardMin /\ taskGuardCycles' = taskGuardCycles - GuardDown
  BY DEF AdjustGuard
<1> QED BY <1>1, <1>2

\* Estimates are kept in fractions of a tick.
LEMMA EstimateType ==
  ASSUME TimesOK, NEW t \in Regular
  PROVE  /\ RequiredTime(t) \in Nat
         /\ \A e \in ExecTimes[t] : Estimates(t, e) \subseteq Nat
<1> DEFINE old == anticipatedExecutionTime[t]
<1>1. /\ old \in Nat /\ Scale \in Nat \ {0}
      /\ ExecTimes[t] \subseteq Nat /\ Announces[t] \subseteq Nat
  BY DEF TimesOK
<1>2. ASSUME NEW n \in Nat, NEW k \in Nat PROVE n * k \in Nat
  BY <1>2
<1>3. ASSUME NEW n \in Nat, NEW k \in Nat \ {0} PROVE n \div k \in Nat
  BY <1>3
<1>4. ASSUME NEW e \in ExecTimes[t] PROVE Estimates(t, e) \subseteq Nat
  <2>1. e * Scale \in Nat /\ \A n \in Announces[t] : n * Scale \in Nat
    BY <1>1, <1>2
  <2>2. old > 1 => old - 1 \in Nat
    BY <1>1
  <2> QED BY <2>1, <2>2, <1>1 DEF Estimates
<1> QED BY <1>1, <1>3, <1>4 DEF RequiredTime

\* A task that is not run keeps an estimate.
LEMMA ExpediteType ==
  ASSUME TimesOK, NEW t \in Regular, NEW arrived, NEW check \in CheckTimes,
         Expedite(t, arrived, check)
  PROVE  /\ anticipatedExecutionTime' \in [Regular -> Nat]
         /\ skipped' \in [Regular -> 0..255]
         /\ age' \in [TimeDriven -> 0..Horizon] /\ signal' \in [EventDriven -> -1..Horizon]
         /\ left' = left - check /\ UNCHANGED <<taskGuardCycles, excess>>
<1>1. check \in Nat /\ Elapse(arrived, check)
  BY DEF Expedite
<1>2. skipped' \in [Regular -> 0..255]
  <2>1. skipped[t] \in 0..255
    BY DEF TimesOK
  <2>2. (skipped[t] + 1) % 256 \in 0..255
    BY <2>1
  <2>3. skipped' \in {skipped, [skipped EXCEPT ![t] = (skipped[t] + 1) % 256]}
    BY DEF Expedite
  <2> QED BY <2>2, <2>3 DEF TimesOK
<1>3. anticipatedExecutionTime' \in [Regular -> Nat]
  <2>1. anticipatedExecutionTime[t] \in Nat
    BY DEF TimesOK
  <2>2. (anticipatedExecutionTime[t] * 9) \div 10 \in Nat
    BY <2>1
  <2>3. anticipatedExecutionTime' \in
          {anticipatedExecutionTime,
           [anticipatedExecutionTime EXCEPT ![t] = (anticipatedExecutionTime[t] * 9) \div 10]}
    BY DEF Expedite
  <2> QED BY <2>2, <2>3 DEF TimesOK
<1> QED BY <1>1, <1>2, <1>3, ElapseType DEF Expedite

\* A task ran for e, where a reserve that fitted was expected.
RunsTask(check) ==
  \E e \in Nat, reserve \in Nat :
    /\ reserve < DueIn - check
    /\ left' = left - check - e
    /\ excess' = Outrun(e - reserve)

\* What a run does to the times, and why it was allowed to.
LEMMA RunType ==
  ASSUME TimesOK, NEW t \in Regular, NEW arrived, NEW check \in CheckTimes,
         schedulerExecuteTask(t, arrived, check)
  PROVE  /\ anticipatedExecutionTime' \in [Regular -> Nat]
         /\ skipped' \in [Regular -> 0..255]
         /\ age' \in [TimeDriven -> 0..Horizon] /\ signal' \in [EventDriven -> -1..Horizon]
         /\ taskGuardCycles' \in Nat /\ RunsTask(check)
<1> PICK e \in ExecTimes[t] :
      LET overdue == e - (RequiredTime(t) + taskGuardCycles) IN
      /\ left' = left - check - e
      /\ age' = [u \in TimeDriven |->
                    Min2(check + e + (IF u = t THEN 0 ELSE age[u]), Horizon)]
      /\ signal' = [u \in EventDriven |->
           IF u = t THEN -1
           ELSE IF Signalled(u) THEN Min2(signal[u] + check + e, Horizon)
           ELSE IF u \in arrived THEN Min2(check + e, Horizon) ELSE -1]
      /\ \E n \in Estimates(t, e) :
           anticipatedExecutionTime' = [anticipatedExecutionTime EXCEPT ![t] = n]
      /\ AdjustGuard(overdue)
      /\ excess' = Outrun(overdue)
  BY DEF schedulerExecuteTask
<1> DEFINE reserve == RequiredTime(t) + taskGuardCycles
<1>1. e \in Nat /\ check \in Nat /\ reserve \in Nat /\ e - reserve \in Int
  BY EstimateType DEF TimesOK
<1>2. \A n \in Nat : Min2(n, Horizon) \in 0..Horizon
  BY Min2Horizon
<1>3. age' \in [TimeDriven -> 0..Horizon]
  <2>1. \A u \in TimeDriven : check + e + (IF u = t THEN 0 ELSE age[u]) \in Nat
    BY <1>1, TimesAge
  <2> QED BY <2>1, <1>2
<1>4. signal' \in [EventDriven -> -1..Horizon]
  <2>1. \A u \in EventDriven : Signalled(u) => signal[u] + check + e \in Nat
    BY <1>1, TimesAge
  <2>2. check + e \in Nat /\ -1 \in -1..Horizon /\ \A n \in 0..Horizon : n \in -1..Horizon
    BY <1>1
  <2>3. ASSUME NEW u \in EventDriven
        PROVE  (IF u = t THEN -1
                ELSE IF Signalled(u) THEN Min2(signal[u] + check + e, Horizon)
                ELSE IF u \in arrived THEN Min2(check + e, Horizon) ELSE -1)
                 \in -1..Horizon
    BY <2>1, <2>2, <1>2
  <2> QED BY <2>3
<1>5. anticipatedExecutionTime' \in [Regular -> Nat]
  BY EstimateType DEF TimesOK
<1>6. skipped' \in [Regular -> 0..255]
  BY DEF schedulerExecuteTask, TimesOK
<1>7. taskGuardCycles' \in Nat
  BY <1>1, GuardType
<1>8. reserve < DueIn - check
  BY DEF schedulerExecuteTask, Fits
<1>9. RunsTask(check)
  BY <1>1, <1>8 DEF RunsTask
<1> QED BY <1>3, <1>4, <1>5, <1>6, <1>7, <1>9
-----------------------------------------------------------------------------
(* What a pass does to the time left.                                      *)

GyroRuns ==
  left' >= Min2(DueIn, 0) /\ excess' = IF DueIn >= 0 THEN 0 ELSE excess

OnlyWalks ==
  \E check \in CheckTimes :
    DueIn > CheckGuard /\ left' = left - check /\ excess' = excess

TaskRuns == \E check \in CheckTimes : DueIn > CheckGuard /\ RunsTask(check)

PassesBy ==
  DueIn >= LowestLoopStart /\ left' = left - IdleTime /\ excess' = excess

\* An overrun of a task that finds the gyro on time is all that counts; one after
\* a loss comes on top of the periods lost.
LEMMA OutrunType ==
  ASSUME TimesOK, NEW overdue \in Int
  PROVE  /\ Outrun(overdue) \in Nat /\ Outrun(overdue) >= overdue
         /\ left < -GyroPeriod =>
              Outrun(overdue) = IF overdue > 0 THEN WholePeriods(excess) + overdue ELSE excess
<1>1. excess \in Nat /\ WholePeriods(excess) \in Nat /\ WholePeriods(0) \in Nat
  BY RoundedUp DEF TimesOK
<1>2. Outrun(overdue) = IF overdue > 0
                        THEN (IF left < -GyroPeriod THEN WholePeriods(excess)
                              ELSE WholePeriods(0)) + overdue
                        ELSE IF left < -GyroPeriod THEN excess ELSE 0
  BY DEF Outrun
<1> QED BY <1>1, <1>2

LEMMA GyroEffect == ASSUME TimesOK, RunGyro PROVE GyroRuns
<1> PICK g \in GyroTimes, s \in Skews : left' = Min2(DueIn, 0) - g + GyroPeriod - s
  BY DEF RunGyro
<1>1. g \in Int /\ s \in Int /\ GyroPeriod \in Int /\ g + s <= GyroPeriod /\ DueIn \in Int
  BY DueInValue DEF TimesOK
<1>2. Min2(DueIn, 0) \in Int
  BY <1>1 DEF Min2
<1>3. left' >= Min2(DueIn, 0)
  BY <1>1, <1>2
<1>4. excess' = IF DueIn >= 0 THEN 0 ELSE excess
  BY DEF RunGyro
<1> QED BY <1>3, <1>4 DEF GyroRuns

LEMMA GyroType ==
  ASSUME TimesOK, RunGyro, scheduleCount' = (scheduleCount + 1) % DeferPasses
  PROVE  TimesOK'
<1> PICK g \in GyroTimes, s \in Skews :
      left' = Min2(DueIn, 0) - g + GyroPeriod - s /\ Elapse({}, Max2(DueIn, 0) + g)
  BY DEF RunGyro
<1>1. g \in Nat /\ s \in Int /\ GyroPeriod \in Int /\ DueIn \in Int
  BY DueInValue DEF TimesOK
<1>2. Min2(DueIn, 0) \in Int /\ Max2(DueIn, 0) + g \in Nat
  BY <1>1 DEF Min2, Max2
<1>3. left' \in Int
  BY <1>1, <1>2
<1>4. age' \in [TimeDriven -> 0..Horizon] /\ signal' \in [EventDriven -> -1..Horizon]
  BY <1>2, ElapseType
<1>5. schedLoopStartCycles' \in Nat /\ schedLoopStartCycles' >= LowestLoopStart
  <2>1. /\ LoopStart \in Nat /\ LoopStart >= LowestLoopStart
        /\ LoopStartMin \in Nat /\ LoopStartDown \in Nat /\ LoopStartDown <= LoopStartMin
    BY LoopStartType
  <2>2. schedLoopStartCycles' = IF LoopStart > LoopStartMin
                                THEN LoopStart - LoopStartDown ELSE LoopStart
    BY DEF RunGyro
  <2> QED BY <2>1, <2>2 DEF LowestLoopStart
<1>6. scheduleCount' \in 0..(DeferPasses - 1)
  <2>1. scheduleCount \in Nat /\ DeferPasses \in Nat \ {0}
    BY DEF TimesOK
  <2> QED BY <2>1
<1>7. excess' \in Nat /\ UNCHANGED estimates
  BY DEF RunGyro, TimesOK
<1> QED BY <1>3, <1>4, <1>5, <1>6, <1>7 DEF TimesOK, LowestLoopStart, estimates

LEMMA LookEffect ==
  ASSUME TimesOK, LookAtTasks, scheduleCount' = (scheduleCount + 1) % DeferPasses
  PROVE  TimesOK' /\ (OnlyWalks \/ TaskRuns)
<1> PICK check \in CheckTimes, arrived \in SUBSET EventDriven :
      /\ checkCycles' = check
      /\ \/ \E k \in Walked(queue) :
              /\ IsSelected(k, arrived)
              /\ \/ schedulerExecuteTask(queue.array[k], arrived, check)
                 \/ Expedite(queue.array[k], arrived, check)
         \/ /\ NothingSelected(arrived)
            /\ Elapse(arrived, check)
            /\ left' = left - check
            /\ UNCHANGED <<anticipatedExecutionTime, skipped, taskGuardCycles, excess>>
  BY DEF LookAtTasks
<1>1. check \in Nat /\ left \in Int /\ excess \in Nat /\ DueIn > CheckGuard
  BY DEF TimesOK, LookAtTasks
<1>2. schedLoopStartCycles' \in Nat /\ schedLoopStartCycles' >= LowestLoopStart
  BY LoopStartType DEF LookAtTasks
<1>3. scheduleCount' \in 0..(DeferPasses - 1)
  <2>1. scheduleCount \in Nat /\ DeferPasses \in Nat \ {0}
    BY DEF TimesOK
  <2> QED BY <2>1
\* The rest of the types, from what each outcome says of them.
<1>4. ASSUME anticipatedExecutionTime' \in [Regular -> Nat],
             skipped' \in [Regular -> 0..255],
             age' \in [TimeDriven -> 0..Horizon], signal' \in [EventDriven -> -1..Horizon],
             taskGuardCycles' \in Nat, left' \in Int, excess' \in Nat
      PROVE  TimesOK'
  BY <1>1, <1>2, <1>3, <1>4 DEF TimesOK, LowestLoopStart
<1>5. ASSUME NEW k \in Walked(queue), IsSelected(k, arrived),
             schedulerExecuteTask(queue.array[k], arrived, check)
      PROVE  TimesOK' /\ TaskRuns
  <2> DEFINE t == queue.array[k]
  <2>1. t \in Regular
    BY <1>5 DEF IsSelected
  <2>2. /\ anticipatedExecutionTime' \in [Regular -> Nat]
        /\ skipped' \in [Regular -> 0..255]
        /\ age' \in [TimeDriven -> 0..Horizon] /\ signal' \in [EventDriven -> -1..Horizon]
        /\ taskGuardCycles' \in Nat /\ RunsTask(check)
    <3> HIDE DEF t
    <3>1. schedulerExecuteTask(t, arrived, check)
      BY <1>5 DEF t
    <3> QED BY <2>1, <3>1, RunType
  <2>3. PICK e \in Nat, reserve \in Nat :
             /\ reserve < DueIn - check
             /\ left' = left - check - e
             /\ excess' = Outrun(e - reserve)
    BY <2>2 DEF RunsTask
  <2>4. left' \in Int /\ excess' \in Nat
    BY <1>1, <2>3, OutrunType
  <2> QED BY <1>1, <1>4, <2>2, <2>3, <2>4 DEF TaskRuns
<1>6. ASSUME NEW k \in Walked(queue), IsSelected(k, arrived),
             Expedite(queue.array[k], arrived, check)
      PROVE  TimesOK' /\ OnlyWalks
  <2> DEFINE t == queue.array[k]
  <2>1. t \in Regular
    BY <1>6 DEF IsSelected
  <2>2. Expedite(t, arrived, check)
    BY <1>6
  <2> HIDE DEF t
  <2>3. /\ anticipatedExecutionTime' \in [Regular -> Nat]
        /\ skipped' \in [Regular -> 0..255]
        /\ age' \in [TimeDriven -> 0..Horizon] /\ signal' \in [EventDriven -> -1..Horizon]
        /\ left' = left - check /\ UNCHANGED <<taskGuardCycles, excess>>
    BY <2>1, <2>2, ExpediteType
  <2>4. taskGuardCycles \in Nat
    BY DEF TimesOK
  <2> QED BY <1>1, <1>4, <2>3, <2>4 DEF OnlyWalks
<1>7. ASSUME Elapse(arrived, check), left' = left - check,
             UNCHANGED <<anticipatedExecutionTime, skipped, taskGuardCycles, excess>>
      PROVE  TimesOK' /\ OnlyWalks
  <2>1. age' \in [TimeDriven -> 0..Horizon] /\ signal' \in [EventDriven -> -1..Horizon]
    BY <1>1, <1>7, ElapseType
  <2> QED BY <1>1, <1>4, <1>7, <2>1 DEF OnlyWalks, TimesOK
<1> QED BY <1>5, <1>6, <1>7

LEMMA PassByEffect ==
  ASSUME TimesOK, PassBy, scheduleCount' = (scheduleCount + 1) % DeferPasses
  PROVE  TimesOK' /\ PassesBy
<1>1. /\ left' = left - IdleTime /\ Elapse({}, IdleTime) /\ schedLoopStartCycles' = LoopStart
      /\ UNCHANGED <<estimates, excess>> /\ ~(DueIn < LoopStart)
  BY DEF PassBy, GyroDue
<1>2. /\ LoopStart \in Nat /\ LoopStart >= LowestLoopStart /\ LowestLoopStart \in Nat
      /\ DueIn \in Int /\ left \in Int
  BY LoopStartType, DueInValue DEF TimesOK
<1>3. age' \in [TimeDriven -> 0..Horizon] /\ signal' \in [EventDriven -> -1..Horizon]
  BY <1>1, ElapseType
<1>4. scheduleCount' \in 0..(DeferPasses - 1)
  <2>1. scheduleCount \in Nat /\ DeferPasses \in Nat \ {0}
    BY DEF TimesOK
  <2> QED BY <2>1
<1>5. TimesOK'
  BY <1>1, <1>2, <1>3, <1>4 DEF TimesOK, LowestLoopStart, estimates
<1>6. PassesBy
  BY <1>1, <1>2 DEF PassesBy
<1> QED BY <1>5, <1>6

LEMMA InitTimes == Init => TimesOK
<1> SUFFICES ASSUME Init PROVE TimesOK
  OBVIOUS
<1>1. /\ GyroPeriod \in Int /\ GuardMin \in Nat /\ LoopStartMin \in Nat /\ LoopStartDown \in Nat
      /\ Horizon \in Nat /\ DeferPasses \in Nat \ {0}
  OBVIOUS
<1>2. LoopStartMin >= LowestLoopStart
  BY <1>1 DEF LowestLoopStart
<1>3. 0 \in 0..Horizon /\ -1 \in -1..Horizon /\ 0 \in 0..255 /\ 0 \in 0..(DeferPasses - 1)
  BY <1>1
<1>4. /\ age \in [TimeDriven -> 0..Horizon] /\ signal \in [EventDriven -> -1..Horizon]
      /\ anticipatedExecutionTime \in [Regular -> Nat] /\ skipped \in [Regular -> 0..255]
  BY <1>3 DEF Init
<1> QED BY <1>1, <1>2, <1>3, <1>4 DEF Init, TimesOK

\* Every step keeps the times, and leaves the time left alone or is a pass.
LEMMA StepEffect ==
  ASSUME TimesOK, [Next]_vars
  PROVE  /\ TimesOK'
         /\ UNCHANGED <<left, excess>> \/ GyroRuns \/ OnlyWalks \/ TaskRuns \/ PassesBy
<1>1. ASSUME UNCHANGED <<left, age, signal, estimates, schedLoopStartCycles,
                         scheduleCount, excess>>
      PROVE  TimesOK' /\ UNCHANGED <<left, excess>>
  BY <1>1 DEF TimesOK, LowestLoopStart, estimates
<1>2. CASE tasksInit
  BY <1>1, <1>2 DEF tasksInit, setTaskEnabled
<1>3. CASE Toggle
  BY <1>1, <1>3 DEF Toggle, setTaskEnabled
<1>4. CASE UNCHANGED vars
  BY <1>1, <1>4 DEF vars
<1>5. CASE scheduler
  BY <1>5, GyroEffect, GyroType, LookEffect, PassByEffect DEF scheduler
<1> QED BY <1>2, <1>3, <1>4, <1>5 DEF Next

\* Every time and count of the scheduler keeps its type: neither the guard nor
\* the time to poll goes below zero, whatever the tasks take.
THEOREM TypeCorrect == Spec => []TypeOK
<1>1. Init => TimesOK
  BY InitTimes
<1>2. TimesOK /\ [Next]_vars => TimesOK'
  BY StepEffect
<1>3. Init => Sound(queue)
  BY SoundInit
<1>4. Sound(queue) /\ [Next]_vars => Sound(queue)'
  BY SoundNext
<1>5. TimesOK /\ Sound(queue) => TypeOK
  BY DEF TimesOK, Sound, QueueType, TypeOK
<1> QED BY <1>1, <1>2, <1>3, <1>4, <1>5, PTL DEF Spec

-----------------------------------------------------------------------------
(* How late the gyro is.                                                   *)

\* A walk over the queue, or an idle pass, takes at most lag more than the margin
\* kept for it.
PassesFitBut(lag) ==
  /\ \A c \in CheckTimes : c <= CheckGuard + lag
  /\ IdleTime <= LowestLoopStart + lag

\* While no period is lost, lag and what tasks overran make the gyro late.
LateBy(lag) == left >= -GyroPeriod => left >= -(lag + excess)

LEMMA LateNext ==
  ASSUME NEW lag \in Nat, PassesFitBut(lag)
  PROVE  TimesOK /\ LateBy(lag) /\ [Next]_vars => LateBy(lag)'
<1> SUFFICES ASSUME TimesOK, LateBy(lag), [Next]_vars PROVE LateBy(lag)'
  OBVIOUS
<1>1. /\ left \in Int /\ excess \in Nat /\ left' \in Int /\ excess' \in Nat
      /\ GyroPeriod \in Nat \ {0} /\ CheckGuard \in Nat
      /\ DueIn \in Int
      /\ left >= -GyroPeriod => DueIn = left
      /\ left < -GyroPeriod => DueIn >= 1
  BY StepEffect, DueInValue DEF TimesOK
<1>2. LateBy(lag)' <=> (left' >= -GyroPeriod => left' >= -(lag + excess'))
  BY DEF LateBy
<1>3. CASE UNCHANGED <<left, excess>>
  BY <1>2, <1>3 DEF LateBy
<1>4. CASE GyroRuns
  <2>1. left' >= Min2(DueIn, 0) /\ excess' = IF DueIn >= 0 THEN 0 ELSE excess
    BY <1>4 DEF GyroRuns
  <2> QED BY <2>1, <1>1, <1>2 DEF LateBy, Min2
<1>5. CASE OnlyWalks
  <2> PICK check \in CheckTimes : DueIn > CheckGuard /\ left' = left - check /\ excess' = excess
    BY <1>5 DEF OnlyWalks
  <2>1. check \in Nat /\ check <= CheckGuard + lag
    BY DEF PassesFitBut
  <2> QED BY <2>1, <1>1, <1>2
<1>6. CASE TaskRuns
  <2> PICK check \in CheckTimes, e \in Nat, reserve \in Nat :
        /\ DueIn > CheckGuard /\ reserve < DueIn - check
        /\ left' = left - check - e
        /\ excess' = Outrun(e - reserve)
    BY <1>6 DEF TaskRuns, RunsTask
  <2>1. check \in Nat /\ e - reserve \in Int
    <3>1. \A c \in CheckTimes : c \in Nat
      OBVIOUS
    <3>2. \A m, n \in Nat : m - n \in Int
      OBVIOUS
    <3> QED BY <3>1, <3>2
  <2>2. excess' \in Nat /\ excess' >= e - reserve
    BY <2>1, OutrunType
  <2> QED BY <2>1, <2>2, <1>1, <1>2
<1>7. CASE PassesBy
  <2>1. DueIn >= LowestLoopStart /\ left' = left - IdleTime /\ excess' = excess
    BY <1>7 DEF PassesBy
  <2>2. IdleTime \in Nat /\ LowestLoopStart \in Nat /\ IdleTime <= LowestLoopStart + lag
    BY LoopStartType DEF PassesFitBut
  <2> QED BY <2>1, <2>2, <1>1, <1>2
<1> QED BY <1>3, <1>4, <1>5, <1>6, <1>7, StepEffect

\* While no task costs a whole period, nothing makes the gyro late but what
\* tasks overran and what passes take beyond the margins kept for them.
THEOREM GyroLateByLag ==
  ASSUME NEW lag \in Nat, PassesFitBut(lag)
  PROVE  Spec => []LateBy(lag)
<1>1. Init => TimesOK /\ LateBy(lag)
  <2>1. Init => left = GyroPeriod /\ excess = 0 /\ GyroPeriod \in Nat
    BY DEF Init
  <2> QED BY <2>1, InitTimes DEF LateBy
<1>2. TimesOK /\ LateBy(lag) /\ [Next]_vars => TimesOK' /\ LateBy(lag)'
  BY LateNext, StepEffect
<1> QED BY <1>1, <1>2, PTL DEF Spec

\* A walk over the queue takes no longer than the margin kept for it, and a
\* pass that looks at nothing no longer than polling starts before the boundary.
PassesFit ==
  /\ \A c \in CheckTimes : c <= CheckGuard
  /\ IdleTime < LowestLoopStart

\* Whole periods are lost only to what tasks overran.
LostToTasks == left < -GyroPeriod => Lost < excess

LEMMA LostNext ==
  ASSUME PassesFit
  PROVE  TimesOK /\ LostToTasks /\ [Next]_vars => LostToTasks'
<1> SUFFICES ASSUME TimesOK, LostToTasks, [Next]_vars PROVE LostToTasks'
  OBVIOUS
<1> DEFINE lost == GyroPeriod * ((-left') \div GyroPeriod)
<1>1. /\ left \in Int /\ excess \in Nat /\ left' \in Int /\ excess' \in Nat
      /\ GyroPeriod \in Nat \ {0} /\ CheckGuard \in Nat
      /\ DueIn \in Int /\ Lost \in Int
      /\ left >= -GyroPeriod => DueIn = left
      /\ left < -GyroPeriod => DueIn \in 1..GyroPeriod /\ left = DueIn - Lost - GyroPeriod
  BY StepEffect, DueInValue DEF TimesOK
<1>2. LostToTasks' <=> (left' < -GyroPeriod => lost < excess')
  BY DEF LostToTasks, Lost
<1>3. lost \in Int /\ lost <= -left'
  BY <1>1, Quotient
\* Less time than is left to the boundary passes by without losing a period.
<1>4. ASSUME NEW spent \in Nat, spent < DueIn, left' = left - spent, excess' = excess
      PROVE  LostToTasks'
  <2>1. CASE left >= -GyroPeriod
    BY <1>1, <1>2, <1>4, <2>1
  <2>2. CASE left < -GyroPeriod
    <3>1. -left \in Int /\ -left' \in Int /\ -left <= -left'
          /\ -left' < Lost + GyroPeriod
      BY <1>1, <1>4, <2>2
    <3>2. (-left') \div GyroPeriod = (-left) \div GyroPeriod
      BY <3>1, SameQuotient DEF Lost
    <3>3. lost = Lost
      BY <3>2 DEF Lost
    <3> QED BY <3>3, <1>2, <1>4, <2>2 DEF LostToTasks
  <2> QED BY <1>1, <2>1, <2>2
<1> HIDE DEF lost
<1>5. CASE UNCHANGED <<left, excess>>
  BY <1>5 DEF LostToTasks, Lost
<1>6. CASE GyroRuns
  <2>1. left' >= Min2(DueIn, 0)
    BY <1>6 DEF GyroRuns
  <2> QED BY <2>1, <1>1, <1>2 DEF Min2
<1>7. CASE OnlyWalks
  <2> PICK check \in CheckTimes : DueIn > CheckGuard /\ left' = left - check /\ excess' = excess
    BY <1>7 DEF OnlyWalks
  <2>1. check \in Nat /\ check < DueIn
    BY <1>1 DEF PassesFit
  <2> QED BY <2>1, <1>4
<1>8. CASE TaskRuns
  <2> PICK check \in CheckTimes, e \in Nat, reserve \in Nat :
        /\ DueIn > CheckGuard /\ reserve < DueIn - check
        /\ left' = left - check - e
        /\ excess' = Outrun(e - reserve)
    BY <1>8 DEF TaskRuns, RunsTask
  <2>1. check \in Nat /\ check + e \in Nat /\ e - reserve \in Int
    <3>1. \A c \in CheckTimes : c \in Nat
      OBVIOUS
    <3>2. \A m, n \in Nat : m - n \in Int /\ m + n \in Nat
      OBVIOUS
    <3> QED BY <3>1, <3>2
  <2>2. excess' \in Nat /\ excess' >= e - reserve
    BY <2>1, OutrunType
  <2>3. CASE left >= -GyroPeriod
    BY <2>1, <2>2, <2>3, <1>1, <1>2, <1>3
  <2>4. CASE left < -GyroPeriod /\ e <= reserve
    <3>1. excess' = excess
      BY <2>1, <2>4, OutrunType
    <3>2. check + e < DueIn /\ left' = left - (check + e)
      BY <2>1, <2>4, <1>1
    <3> QED BY <2>1, <3>1, <3>2, <1>4
  <2>5. CASE left < -GyroPeriod /\ e > reserve
    <3>1. excess' = WholePeriods(excess) + (e - reserve)
      BY <2>1, <2>5, OutrunType
    <3>2. Lost + GyroPeriod <= WholePeriods(excess)
      <4>1. Lost < excess /\ (-left) \div GyroPeriod \in Int
        BY <2>5, <1>1, Quotient DEF LostToTasks
      <4> QED BY <4>1, <1>1, RoundedUp DEF Lost
    <3>3. WholePeriods(excess) \in Nat
      BY <1>1, RoundedUp
    <3> QED BY <2>1, <2>5, <3>1, <3>2, <3>3, <1>1, <1>2, <1>3
  <2> QED BY <1>1, <2>3, <2>4, <2>5
<1>9. CASE PassesBy
  <2>1. IdleTime \in Nat /\ IdleTime < DueIn /\ left' = left - IdleTime /\ excess' = excess
    BY <1>1, <1>9, LoopStartType DEF PassesBy, PassesFit
  <2> QED BY <2>1, <1>4
<1> QED BY <1>5, <1>6, <1>7, <1>8, <1>9, StepEffect

\* Passes that fit their margins make the gyro no later.
LEMMA FitsBut == ASSUME PassesFit PROVE PassesFitBut(0)
<1>1. LowestLoopStart \in Nat /\ CheckGuard \in Nat /\ IdleTime \in Nat
      /\ \A c \in CheckTimes : c \in Nat
  BY DEF LowestLoopStart
<1> QED BY <1>1 DEF PassesFit, PassesFitBut

\* The gyro is late only by what tasks overran: walks, idle passes and tasks
\* that keep to their reserve leave it on time.
THEOREM GyroLateByOverruns ==
  ASSUME PassesFit
  PROVE  Spec => []LateByOverruns
<1>1. Init => TimesOK /\ LateBy(0)
  <2>1. Init => left = GyroPeriod /\ excess = 0 /\ GyroPeriod \in Nat
    BY DEF Init
  <2> QED BY <2>1, InitTimes DEF LateBy
<1>2. TimesOK /\ LateBy(0) /\ [Next]_vars => TimesOK' /\ LateBy(0)'
  <2>1. 0 \in Nat /\ PassesFitBut(0)
    BY FitsBut
  <2> QED BY <2>1, LateNext, StepEffect
<1>3. TimesOK /\ LateBy(0) => LateByOverruns
  BY DEF TimesOK, LateBy, LateByOverruns
<1> QED BY <1>1, <1>2, <1>3, PTL DEF Spec

\* A whole period is lost only to an overrun that reaches past it, or to one that
\* reaches past a boundary the gyro was waiting for after a loss.
THEOREM OnlyOverrunsLosePeriods ==
  ASSUME PassesFit
  PROVE  Spec => []LostPeriodsPaid
<1>1. Init => TimesOK /\ LostToTasks
  <2>1. Init => left = GyroPeriod /\ GyroPeriod \in Nat
    BY DEF Init
  <2> QED BY <2>1, InitTimes DEF LostToTasks
<1>2. TimesOK /\ LostToTasks /\ [Next]_vars => TimesOK' /\ LostToTasks'
  BY LostNext, StepEffect
<1>3. TimesOK /\ LostToTasks => LostPeriodsPaid
  <2> SUFFICES ASSUME TimesOK, LostToTasks, left < -GyroPeriod
               PROVE  left > -WholePeriods(excess)
    BY DEF LostPeriodsPaid
  <2>1. /\ left \in Int /\ excess \in Nat /\ GyroPeriod \in Nat \ {0} /\ Lost \in Int
        /\ DueIn >= 1 /\ DueIn \in Int /\ left = DueIn - Lost - GyroPeriod
    BY DueInValue DEF TimesOK
  <2>2. Lost < excess /\ (-left) \div GyroPeriod \in Int
    BY <2>1, Quotient DEF LostToTasks
  <2>3. Lost + GyroPeriod <= WholePeriods(excess) /\ WholePeriods(excess) \in Nat
    BY <2>1, <2>2, RoundedUp DEF Lost
  <2> QED BY <2>1, <2>3
<1> QED BY <1>1, <1>2, <1>3, PTL DEF Spec

\* Both together: as long as passes fit their margins, only overruns delay the
\* gyro, within a period or by whole ones.
THEOREM GyroDelay ==
  ASSUME PassesFit
  PROVE  Spec => []GyroDelayBounded
  BY GyroLateByOverruns, OnlyOverrunsLosePeriods, PTL DEF GyroDelayBounded
=============================================================================
