----------------------------- MODULE StageQueue -----------------------------
(***************************************************************************)
(* The waiting list of a Stage (vllm/kalypso/controller/stage.py): a       *)
(* Python list that enqueue keeps ordered by priority and task id and      *)
(* whose head peek_task and pop_task serve.                                *)
(*                                                                         *)
(* Task ids come from one global counter, _TASK_IDS, so a task is always   *)
(* younger than every task already queued.                                 *)
(***************************************************************************)
EXTENDS Integers, Sequences

CONSTANTS
  Priorities,  \* the values task_priority may return
  MaxTasks     \* bound on the number of tasks created, for model checking

ASSUME PrioritiesAssumption == Priorities \subseteq Int
ASSUME MaxTasksAssumption   == MaxTasks \in Nat

VARIABLES
  waiting_tasks,  \* the list
  next_id         \* _TASK_IDS

vars == <<waiting_tasks, next_id>>

Ids  == 0..(MaxTasks - 1)
Task == [prio : Priorities, id : Ids]

(* The comparison in enqueue's loop. *)
Before(t, u) == t.prio < u.prio \/ (t.prio = u.prio /\ t.id < u.id)

\* Mutant of InsertIndex: the scan is for a task of at most its urgency.
InsertIndexReversed(q, t) ==
  LET after == {i \in 1..Len(q) : Before(q[i], t)}
  IN IF after = {} THEN Len(q) + 1
     ELSE CHOOSE i \in after : \A j \in after : i <= j

(* insert_at: before the first queued task that t precedes, else the end. *)
InsertIndex(q, t) ==
  LET after == {i \in 1..Len(q) : Before(t, q[i])}
  IN IF after = {} THEN Len(q) + 1
     ELSE CHOOSE i \in after : \A j \in after : i <= j

(* list.insert *)
Inserted(q, k, t) ==
  [i \in 1..(Len(q) + 1) |->
     IF i < k THEN q[i] ELSE IF i = k THEN t ELSE q[i - 1]]

TypeOK ==
  /\ waiting_tasks \in Seq(Task)
  /\ next_id \in 0..MaxTasks

Init == waiting_tasks = <<>> /\ next_id = 0

enqueue(p) ==
  LET t == [prio |-> p, id |-> next_id]
  IN /\ next_id < MaxTasks
     /\ waiting_tasks' = Inserted(waiting_tasks, InsertIndex(waiting_tasks, t), t)
     /\ next_id' = next_id + 1

\* Mutant of pop_task: pop() takes the last task.
pop_last ==
  /\ waiting_tasks # <<>>
  /\ waiting_tasks' = SubSeq(waiting_tasks, 1, Len(waiting_tasks) - 1)
  /\ UNCHANGED next_id

(* peek_task and then pop_task, as the launch loops use them. *)
pop_task ==
  /\ waiting_tasks # <<>>
  /\ waiting_tasks' = Tail(waiting_tasks)
  /\ UNCHANGED next_id

clear_tasks == waiting_tasks' = <<>> /\ UNCHANGED next_id

Next == (\E p \in Priorities : enqueue(p)) \/ pop_task \/ clear_tasks

Spec == Init /\ [][Next]_vars

-----------------------------------------------------------------------------
Sorted(q) == \A i, j \in 1..Len(q) : i < j => Before(q[i], q[j])

(* The list is strictly ordered by (priority, id), although enqueue stops  *)
(* at the first later task: what peek_task shows is the task to run.       *)
QueueSorted == Sorted(waiting_tasks)

(* Every queued id has been drawn from the counter. *)
IdsDrawn == \A i \in 1..Len(waiting_tasks) : waiting_tasks[i].id < next_id

(* The list implements the priority queue the executor relies on. *)
Queued == {waiting_tasks[i] : i \in 1..Len(waiting_tasks)}
PQ == INSTANCE PriorityQueue WITH items <- Queued
ImplementsPriorityQueue == PQ!QSpec
=============================================================================
