-------------------------- MODULE StageQueue_proofs --------------------------
(***************************************************************************)
(* The waiting list of a stage stays ordered and implements a priority     *)
(* queue, for any priorities and any number of tasks.                      *)
(***************************************************************************)
EXTENDS StageQueue, WellFoundedInduction, TLAPS

(* A set of positions that is not empty has a first one. *)
LEMMA FirstPosition ==
  ASSUME NEW S \in SUBSET Nat, S # {}
  PROVE  \E i \in S : \A j \in S : i <= j
  <1> DEFINE R == OpToRel(<, Nat)
  <1>1. IsWellFoundedOn(R, Nat)
    BY NatLessThanWellFounded, Zenon
  <1>2. \A j, i \in Nat : j < i => <<j, i>> \in R
    BY DEF OpToRel
  <1> HIDE DEF R
  <1>3. PICK i \in S : \A j \in S : ~ (<<j, i>> \in R)
    BY <1>1, WFMin, Zenon
  <1>4. ASSUME NEW j \in S PROVE i <= j
    <2>1. i \in Nat /\ j \in Nat
      OBVIOUS
    <2>2. ~ (j < i)
      BY <1>2, <1>3, <2>1, Zenon
    <2> QED
      BY <2>1, <2>2
  <1> QED
    BY <1>3, <1>4

(* enqueue's scan stops at the first task that the new one precedes. *)
LEMMA InsertIndexProperty ==
  ASSUME NEW q \in Seq(Task), NEW t \in Task
  PROVE  LET k == InsertIndex(q, t)
         IN /\ k \in 1..(Len(q) + 1)
            /\ k <= Len(q) => Before(t, q[k])
            /\ \A i \in 1..Len(q) : i < k => ~ Before(t, q[i])
  <1> DEFINE S == {i \in 1..Len(q) : Before(t, q[i])}
  <1>0. Len(q) \in Nat
    OBVIOUS
  <1>1. CASE S = {}
    <2>1. InsertIndex(q, t) = Len(q) + 1
      BY <1>1 DEF InsertIndex
    <2> QED
      BY <1>0, <1>1, <2>1
  <1>2. CASE S # {}
    <2>1. \E i \in S : \A j \in S : i <= j
      <3>1. S \in SUBSET Nat
        BY <1>0
      <3> QED
        BY <1>2, <3>1, FirstPosition, Zenon
    <2>2. /\ InsertIndex(q, t) \in S
          /\ \A j \in S : InsertIndex(q, t) <= j
      BY <1>2, <2>1, Zenon DEF InsertIndex
    <2> QED
      BY <1>0, <2>2
  <1> QED
    BY <1>1, <1>2

\* The fields of a task are integers.
LEMMA TaskFields ==
  ASSUME NEW x \in Task PROVE x.prio \in Int /\ x.id \in Int
  <1>1. x.prio \in Priorities /\ x.id \in Ids
    BY DEF Task
  <1>2. Priorities \subseteq Int /\ Ids \subseteq Int
    BY PrioritiesAssumption, MaxTasksAssumption DEF Ids
  <1> QED
    BY <1>1, <1>2, Zenon

(* Before is a strict order on tasks with different ids. *)
LEMMA BeforeOrder ==
  ASSUME NEW t \in Task, NEW u \in Task, NEW v \in Task
  PROVE  /\ Before(t, u) /\ Before(u, v) => Before(t, v)
         /\ t.id # u.id => Before(t, u) \/ Before(u, t)
         /\ ~ (Before(t, u) /\ Before(u, t))
  <1>1. /\ t.prio \in Int /\ u.prio \in Int /\ v.prio \in Int
        /\ t.id \in Int /\ u.id \in Int /\ v.id \in Int
    BY TaskFields
  <1> QED
    BY <1>1 DEF Before

(* list.insert is a sequence again, with the new task at its place. *)
LEMMA InsertedType ==
  ASSUME NEW q \in Seq(Task), NEW t \in Task, NEW k \in 1..(Len(q) + 1)
  PROVE  /\ Inserted(q, k, t) \in Seq(Task)
         /\ Len(Inserted(q, k, t)) = Len(q) + 1
         /\ \A i \in 1..(Len(q) + 1) : Inserted(q, k, t)[i] =
              IF i < k THEN q[i] ELSE IF i = k THEN t ELSE q[i - 1]
  <1>1. ASSUME NEW i \in 1..(Len(q) + 1)
        PROVE  (IF i < k THEN q[i] ELSE IF i = k THEN t ELSE q[i - 1]) \in Task
    OBVIOUS
  <1>2. Inserted(q, k, t) \in [1..(Len(q) + 1) -> Task]
    BY <1>1 DEF Inserted
  <1> QED
    BY <1>2 DEF Inserted

(* Inserting where enqueue's scan stops keeps the list ordered. *)
LEMMA InsertKeepsSorted ==
  ASSUME NEW q \in Seq(Task), Sorted(q), NEW t \in Task,
         \A i \in 1..Len(q) : q[i].id # t.id
  PROVE  Sorted(Inserted(q, InsertIndex(q, t), t))
  <1> DEFINE k == InsertIndex(q, t)
             r == Inserted(q, k, t)
  <1>1. /\ k \in 1..(Len(q) + 1)
        /\ k <= Len(q) => Before(t, q[k])
        /\ \A i \in 1..Len(q) : i < k => ~ Before(t, q[i])
    BY InsertIndexProperty
  <1> HIDE DEF k
  <1>2. /\ Len(r) = Len(q) + 1
        /\ \A i \in 1..(Len(q) + 1) :
             r[i] = IF i < k THEN q[i] ELSE IF i = k THEN t ELSE q[i - 1]
    BY <1>1, InsertedType
  <1> HIDE DEF r
  <1>3. ASSUME NEW i \in 1..Len(q), i < k PROVE Before(q[i], t)
    BY <1>1, <1>3, BeforeOrder
  <1>4. ASSUME NEW i \in 1..Len(q), k <= i PROVE Before(t, q[i])
    <2>1. k \in 1..Len(q) /\ Before(t, q[k])
      BY <1>1, <1>4
    <2>2. k < i => Before(q[k], q[i])
      BY <2>1 DEF Sorted
    <2> QED
      BY <1>4, <2>1, <2>2, BeforeOrder
  <1>5. ASSUME NEW i \in 1..Len(r), NEW j \in 1..Len(r), i < j
        PROVE  Before(r[i], r[j])
    <2>0. i \in 1..(Len(q) + 1) /\ j \in 1..(Len(q) + 1) /\ Len(q) \in Nat
      BY <1>2
    <2>1. CASE j < k
      <3>1. r[i] = q[i] /\ r[j] = q[j] /\ i \in 1..Len(q) /\ j \in 1..Len(q)
        BY <1>1, <1>2, <1>5, <2>0, <2>1
      <3> QED
        BY <1>5, <3>1 DEF Sorted
    <2>2. CASE j = k
      <3>1. r[i] = q[i] /\ r[j] = t /\ i \in 1..Len(q) /\ i < k
        BY <1>1, <1>2, <1>5, <2>0, <2>2
      <3> QED
        BY <1>3, <3>1
    <2>3. CASE k < j /\ i < k
      <3>1. /\ i \in 1..Len(q) /\ j - 1 \in 1..Len(q) /\ k <= j - 1
            /\ r[i] = q[i] /\ r[j] = q[j - 1]
        BY <1>1, <1>2, <1>5, <2>0, <2>3
      <3>2. Before(q[i], t) /\ Before(t, q[j - 1])
        BY <1>3, <1>4, <2>3, <3>1
      <3> QED
        BY <3>1, <3>2, BeforeOrder
    <2>4. CASE k < j /\ i = k
      <3>1. r[i] = t /\ r[j] = q[j - 1] /\ j - 1 \in 1..Len(q) /\ k <= j - 1
        BY <1>1, <1>2, <1>5, <2>0, <2>4
      <3> QED
        BY <1>4, <3>1
    <2>5. CASE k < j /\ k < i
      <3>1. /\ r[i] = q[i - 1] /\ r[j] = q[j - 1] /\ i - 1 < j - 1
            /\ i - 1 \in 1..Len(q) /\ j - 1 \in 1..Len(q)
        BY <1>1, <1>2, <1>5, <2>0, <2>5
      <3> QED
        BY <3>1 DEF Sorted
    <2> QED
      BY <1>1, <2>0, <2>1, <2>2, <2>3, <2>4, <2>5
  <1> QED
    BY <1>5 DEF Sorted, k, r

-----------------------------------------------------------------------------
(* The inductive invariant: the list is ordered, and since ids are drawn   *)
(* from a counter a new task has an id of its own.                         *)
IInv == TypeOK /\ QueueSorted /\ IdsDrawn

\* What enqueue does to the list: the new task at its position, the others in order.
LEMMA EnqueueStep ==
  ASSUME IInv, NEW p \in Priorities, enqueue(p)
  PROVE  LET t == [prio |-> p, id |-> next_id]
             k == InsertIndex(waiting_tasks, t)
         IN /\ t \in Task /\ k \in 1..(Len(waiting_tasks) + 1)
            /\ waiting_tasks' \in Seq(Task)
            /\ Len(waiting_tasks') = Len(waiting_tasks) + 1
            /\ \A i \in 1..(Len(waiting_tasks) + 1) : waiting_tasks'[i] =
                 IF i < k THEN waiting_tasks[i]
                 ELSE IF i = k THEN t ELSE waiting_tasks[i - 1]
            /\ \A i \in 1..Len(waiting_tasks) : waiting_tasks[i].id < t.id
            /\ next_id \in Nat /\ next_id' = next_id + 1 /\ next_id' \in 0..MaxTasks
  <1> DEFINE t == [prio |-> p, id |-> next_id]
             k == InsertIndex(waiting_tasks, t)
             r == Inserted(waiting_tasks, k, t)
  <1>1. /\ waiting_tasks \in Seq(Task) /\ next_id \in Nat
        /\ next_id' = next_id + 1 /\ next_id' \in 0..MaxTasks /\ next_id \in Ids
    BY MaxTasksAssumption DEF IInv, TypeOK, enqueue, Ids
  <1>2. t \in Task
    BY <1>1 DEF Task
  <1>3. waiting_tasks' = r
    BY DEF enqueue
  <1>4. \A i \in 1..Len(waiting_tasks) : waiting_tasks[i].id < t.id
    BY DEF IInv, IdsDrawn
  <1> HIDE DEF t
  <1>5. k \in 1..(Len(waiting_tasks) + 1)
    BY <1>1, <1>2, InsertIndexProperty
  <1> HIDE DEF k
  <1>6. /\ r \in Seq(Task)
        /\ Len(r) = Len(waiting_tasks) + 1
        /\ \A i \in 1..(Len(waiting_tasks) + 1) : r[i] =
             IF i < k THEN waiting_tasks[i]
             ELSE IF i = k THEN t ELSE waiting_tasks[i - 1]
    BY <1>1, <1>2, <1>5, InsertedType
  <1> HIDE DEF r
  <1>7. /\ t \in Task /\ k \in 1..(Len(waiting_tasks) + 1)
        /\ waiting_tasks' \in Seq(Task)
        /\ Len(waiting_tasks') = Len(waiting_tasks) + 1
        /\ \A i \in 1..(Len(waiting_tasks) + 1) : waiting_tasks'[i] =
             IF i < k THEN waiting_tasks[i]
             ELSE IF i = k THEN t ELSE waiting_tasks[i - 1]
        /\ \A i \in 1..Len(waiting_tasks) : waiting_tasks[i].id < t.id
        /\ next_id \in Nat /\ next_id' = next_id + 1 /\ next_id' \in 0..MaxTasks
    BY <1>1, <1>2, <1>3, <1>4, <1>5, <1>6
  <1> QED
    BY <1>7 DEF t, k

\* Every step keeps the list sorted and its ids drawn.
LEMMA InductiveStep == IInv /\ [Next]_vars => IInv'
  <1> SUFFICES ASSUME IInv, [Next]_vars PROVE IInv'
    OBVIOUS
  <1>0. waiting_tasks \in Seq(Task) /\ next_id \in 0..MaxTasks
    BY DEF IInv, TypeOK
  <1>1. ASSUME NEW p \in Priorities, enqueue(p) PROVE IInv'
    <2> DEFINE t == [prio |-> p, id |-> next_id]
               k == InsertIndex(waiting_tasks, t)
    <2>1. /\ t \in Task /\ k \in 1..(Len(waiting_tasks) + 1)
          /\ waiting_tasks' \in Seq(Task)
          /\ Len(waiting_tasks') = Len(waiting_tasks) + 1
          /\ \A i \in 1..(Len(waiting_tasks) + 1) : waiting_tasks'[i] =
               IF i < k THEN waiting_tasks[i]
               ELSE IF i = k THEN t ELSE waiting_tasks[i - 1]
          /\ \A i \in 1..Len(waiting_tasks) : waiting_tasks[i].id < t.id
          /\ next_id \in Nat /\ next_id' = next_id + 1 /\ next_id' \in 0..MaxTasks
      BY <1>1, EnqueueStep
    <2>2. TypeOK'
      BY <2>1 DEF TypeOK
    <2>3. QueueSorted'
      <3>1. \A i \in 1..Len(waiting_tasks) : waiting_tasks[i].id # t.id
        <4>1. ASSUME NEW i \in 1..Len(waiting_tasks)
              PROVE  waiting_tasks[i].id \in Int
          <5>1. waiting_tasks[i] \in Task
            BY <1>0
          <5> QED
            BY <5>1, MaxTasksAssumption DEF Task, Ids
        <4> QED
          BY <2>1, <4>1
      <3>2. waiting_tasks' = Inserted(waiting_tasks, k, t)
        BY <1>1 DEF enqueue
      <3>3. Sorted(Inserted(waiting_tasks, k, t))
        BY <1>0, <2>1, <3>1, InsertKeepsSorted DEF IInv, QueueSorted
      <3> QED
        BY <3>2, <3>3 DEF QueueSorted
    <2>4. IdsDrawn'
      <3> SUFFICES ASSUME NEW i \in 1..Len(waiting_tasks')
                   PROVE  waiting_tasks'[i].id < next_id'
        BY DEF IdsDrawn
      <3>1. ASSUME NEW j \in 1..Len(waiting_tasks)
            PROVE  waiting_tasks[j].id < next_id /\ waiting_tasks[j].id \in Int
        <4>1. waiting_tasks[j] \in Task
          BY <1>0
        <4> QED
          BY <2>1, <4>1, MaxTasksAssumption DEF Task, Ids
      <3>2. t.id = next_id /\ Len(waiting_tasks) \in Nat
        BY <1>0
      <3>3. CASE i < k
        BY <2>1, <3>1, <3>2, <3>3
      <3>4. CASE i = k
        BY <2>1, <3>2, <3>4
      <3>5. CASE i > k
        <4>1. i - 1 \in 1..Len(waiting_tasks) /\ waiting_tasks'[i] = waiting_tasks[i - 1]
          BY <2>1, <3>2, <3>5
        <4> QED
          BY <2>1, <3>1, <4>1
      <3> QED
        BY <2>1, <3>3, <3>4, <3>5
    <2> QED
      BY <2>2, <2>3, <2>4 DEF IInv
  <1>2. CASE pop_task
    <2>1. /\ Len(waiting_tasks) \in Nat \ {0}
          /\ waiting_tasks' \in Seq(Task)
          /\ Len(waiting_tasks') = Len(waiting_tasks) - 1
          /\ \A i \in 1..(Len(waiting_tasks) - 1) : waiting_tasks'[i] = waiting_tasks[i + 1]
          /\ next_id' = next_id
      BY <1>0, <1>2 DEF pop_task
    <2>2. TypeOK'
      BY <1>0, <2>1 DEF TypeOK
    <2>3. QueueSorted'
      BY <2>1 DEF IInv, QueueSorted, Sorted
    <2>4. IdsDrawn'
      BY <2>1 DEF IInv, IdsDrawn
    <2> QED
      BY <2>2, <2>3, <2>4 DEF IInv
  <1>3. CASE clear_tasks
    BY <1>0, <1>3 DEF clear_tasks, IInv, TypeOK, QueueSorted, Sorted, IdsDrawn
  <1>4. CASE UNCHANGED vars
    BY <1>4 DEF vars, IInv, TypeOK, QueueSorted, Sorted, IdsDrawn
  <1> QED
    BY <1>1, <1>2, <1>3, <1>4 DEF Next

\* The invariant holds in every state.
LEMMA Inductive == Spec => []IInv
  <1>1. Init => IInv
    BY MaxTasksAssumption DEF Init, IInv, TypeOK, QueueSorted, Sorted, IdsDrawn
  <1> QED
    BY <1>1, InductiveStep, PTL DEF Spec

(* Whatever is enqueued, retried or popped, Stage.waiting_tasks stays      *)
(* strictly ordered by priority and then age.                              *)
THEOREM StaysSorted == Spec => []QueueSorted
  BY Inductive, PTL DEF IInv

-----------------------------------------------------------------------------
(* A task that is younger than everything queued, as every new task is,    *)
(* goes exactly between the tasks of at least its urgency, which are all   *)
(* before it, and the less urgent ones, which are all behind it: within a  *)
(* priority the list is first in, first out.                               *)
THEOREM FreshTaskIsLastOfItsPriority ==
  ASSUME NEW q \in Seq(Task), Sorted(q), NEW t \in Task,
         \A i \in 1..Len(q) : q[i].id < t.id
  PROVE  \A i \in 1..Len(q) : q[i].prio <= t.prio <=> i < InsertIndex(q, t)
  <1> SUFFICES ASSUME NEW i \in 1..Len(q)
               PROVE  q[i].prio <= t.prio <=> i < InsertIndex(q, t)
    OBVIOUS
  <1> DEFINE k == InsertIndex(q, t)
  <1>1. /\ k \in 1..(Len(q) + 1)
        /\ \A j \in 1..Len(q) : j < k => ~ Before(t, q[j])
        /\ k <= Len(q) => Before(t, q[k])
    BY InsertIndexProperty
  <1>2. \A j \in 1..Len(q) : q[j] \in Task
    OBVIOUS
  <1> HIDE DEF k
  <1>3. CASE i < k
    <2>1. ~ Before(t, q[i])
      BY <1>1, <1>3
    <2> QED
      BY <1>2, <1>3, <2>1, TaskFields DEF Before, k
  <1>4. CASE k <= i
    <2>1. k \in 1..Len(q) /\ Before(t, q[k])
      BY <1>1, <1>4
    <2>2. t.prio < q[k].prio
      BY <1>2, <2>1, TaskFields DEF Before
    <2>3. q[k].prio <= q[i].prio
      BY <1>2, <1>4, <2>1, TaskFields DEF Sorted, Before
    <2>4. /\ t.prio \in Int /\ q[k].prio \in Int /\ q[i].prio \in Int
      BY <1>2, <2>1, TaskFields
    <2> QED
      BY <1>1, <1>4, <2>2, <2>3, <2>4 DEF k
  <1> QED
    BY <1>1, <1>3, <1>4

(* The refinement: enqueue inserts into the set of queued tasks, pop_task  *)
(* takes the first of them, and clear_tasks empties it.                    *)
LEMMA RefinementStep == IInv /\ [Next]_vars => [PQ!QNext]_Queued
  <1> SUFFICES ASSUME IInv, [Next]_vars PROVE PQ!QNext \/ Queued' = Queued
    OBVIOUS
  <1>0. waiting_tasks \in Seq(Task) /\ next_id \in 0..MaxTasks /\ Len(waiting_tasks) \in Nat
    BY DEF IInv, TypeOK
  <1>1. ASSUME NEW p \in Priorities, enqueue(p) PROVE PQ!QNext
    <2> DEFINE t == [prio |-> p, id |-> next_id]
               k == InsertIndex(waiting_tasks, t)
    <2>1. /\ t \in Task /\ k \in 1..(Len(waiting_tasks) + 1)
          /\ Len(waiting_tasks') = Len(waiting_tasks) + 1
          /\ \A i \in 1..(Len(waiting_tasks) + 1) : waiting_tasks'[i] =
               IF i < k THEN waiting_tasks[i]
               ELSE IF i = k THEN t ELSE waiting_tasks[i - 1]
          /\ \A i \in 1..Len(waiting_tasks) : waiting_tasks[i].id < t.id
      BY <1>1, EnqueueStep
    <2> HIDE DEF t, k
    <2>2. Queued' \subseteq Queued \cup {t}
      BY <1>0, <2>1 DEF Queued
    <2>3. t \in Queued'
      <3>1. k \in 1..Len(waiting_tasks') /\ waiting_tasks'[k] = t
        BY <1>0, <2>1
      <3> QED
        BY <3>1 DEF Queued
    <2>4. Queued \subseteq Queued'
      <3> SUFFICES ASSUME NEW i \in 1..Len(waiting_tasks)
                   PROVE  \E j \in 1..Len(waiting_tasks') : waiting_tasks'[j] = waiting_tasks[i]
        BY DEF Queued
      <3>1. CASE i < k
        <4>1. i \in 1..Len(waiting_tasks') /\ waiting_tasks'[i] = waiting_tasks[i]
          BY <1>0, <2>1, <3>1
        <4> QED
          BY <4>1
      <3>2. CASE k <= i
        <4>1. i + 1 \in 1..Len(waiting_tasks') /\ waiting_tasks'[i + 1] = waiting_tasks[i]
          BY <1>0, <2>1, <3>2
        <4> QED
          BY <4>1
      <3> QED
        BY <2>1, <3>1, <3>2
    <2>5. \A u \in Queued : u.id < t.id
      BY <2>1 DEF Queued
    <2>6. PQ!Insert(t)
      BY <2>2, <2>3, <2>4, <2>5 DEF PQ!Insert
    <2> QED
      BY <2>1, <2>6 DEF PQ!QNext, PQ!Task, Task
  <1>2. ASSUME pop_task PROVE PQ!QNext
    <2> DEFINE h == waiting_tasks[1]
    <2>1. /\ Len(waiting_tasks) # 0
          /\ Len(waiting_tasks') = Len(waiting_tasks) - 1
          /\ \A i \in 1..(Len(waiting_tasks) - 1) : waiting_tasks'[i] = waiting_tasks[i + 1]
      BY <1>0, <1>2 DEF pop_task
    <2>2. h \in Task /\ h \in Queued
      BY <1>0, <2>1 DEF Queued
    <2>3. \A i \in 2..Len(waiting_tasks) : waiting_tasks[i] \in Task /\ Before(h, waiting_tasks[i])
      BY <1>0, <2>1 DEF IInv, QueueSorted, Sorted
    <2>4. \A u \in Task : Before(h, u) => u # h
      BY <2>2, BeforeOrder
    <2> HIDE DEF h
    <2>5. Queued \ {h} = {waiting_tasks[i] : i \in 2..Len(waiting_tasks)}
      <3>1. \A i \in 1..Len(waiting_tasks) : i = 1 \/ i \in 2..Len(waiting_tasks)
        BY <1>0
      <3>2. \A i \in 2..Len(waiting_tasks) : i \in 1..Len(waiting_tasks)
        BY <1>0
      <3>3. \A i \in 2..Len(waiting_tasks) : waiting_tasks[i] # h
        BY <2>3, <2>4
      <3> QED
        BY <3>1, <3>2, <3>3 DEF Queued, h
    <2>6. Queued' = {waiting_tasks[i] : i \in 2..Len(waiting_tasks)}
      <3>1. ASSUME NEW i \in 1..Len(waiting_tasks')
            PROVE  i + 1 \in 2..Len(waiting_tasks) /\ waiting_tasks'[i] = waiting_tasks[i + 1]
        BY <1>0, <2>1
      <3>2. ASSUME NEW i \in 2..Len(waiting_tasks)
            PROVE  i - 1 \in 1..Len(waiting_tasks') /\ waiting_tasks'[i - 1] = waiting_tasks[i]
        BY <1>0, <2>1
      <3> QED
        BY <3>1, <3>2 DEF Queued
    <2>7. PQ!Take(h)
      <3>1. \A u \in Queued \ {h} : Before(h, u)
        BY <2>3, <2>5
      <3> QED
        BY <2>2, <2>5, <2>6, <3>1 DEF PQ!Take, PQ!First, PQ!Before, Before
    <2> QED
      BY <2>2, <2>7 DEF PQ!QNext, PQ!Task, Task
  <1>3. ASSUME clear_tasks PROVE PQ!QNext
    BY <1>3 DEF clear_tasks, Queued, PQ!QNext, PQ!QClear
  <1>4. CASE UNCHANGED vars
    BY <1>4 DEF vars, Queued
  <1> QED
    BY <1>1, <1>2, <1>3, <1>4 DEF Next

(* The sorted list of Stage is an implementation of a priority queue. *)
THEOREM StageIsPriorityQueue == Spec => ImplementsPriorityQueue
  <1>1. Init => PQ!QInit
    BY DEF Init, PQ!QInit, Queued
  <1> QED
    BY <1>1, Inductive, RefinementStep, PTL DEF Spec, ImplementsPriorityQueue, PQ!QSpec
=============================================================================
