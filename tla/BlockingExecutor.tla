-------------------------- MODULE BlockingExecutor --------------------------
(***************************************************************************)
(* BlockingExecutor.execute_tasks (execution/pipeline_execution.py) over   *)
(* the global API of KVMemoryManager (budget.py): a producer admits one    *)
(* task per seed against the manager and puts it in a bounded queue, and   *)
(* a fixed number of workers take tasks, run them and release their        *)
(* budgets.  Several calls run at once when several queries do; they share *)
(* _global_used, and nothing else.                                         *)
(*                                                                         *)
(* The code is asyncio: a step is what runs between two awaits that really *)
(* suspend.  can_admit and allocate never suspend when there is room, so   *)
(* the check and the charge are one step.                                  *)
(***************************************************************************)
EXTENDS Integers, FiniteSetsExt, SequencesExt

CONSTANTS
  Executors,    \* concurrent calls of execute_tasks
  Capacity,     \* KVMemoryManager._capacity
  Budgets,      \* budgets a task may have
  Seeds,        \* bound on the seeds of all the calls
  Concurrency,  \* workers, and slots of the queue
  MaxRaises     \* bound on the tasks of a call that raise

ASSUME CapacityAssumption    == Capacity \in Nat
ASSUME BudgetsAssumption     == Budgets \subseteq Nat
ASSUME SeedsAssumption       == Seeds \in Nat
ASSUME ConcurrencyAssumption == Concurrency \in Nat \ {0}
ASSUME MaxRaisesAssumption   == MaxRaises \in Nat

VARIABLES
  budget,       \* budget[e][k]: task.budget of the k-th seed
  global_used,  \* KVMemoryManager._global_used
  k,            \* the seed the producer is at
  at,           \* where the producer is: "admit" (about to check), "wait" (in
                \* capacity_cond.wait), "put", "join", "returned" or "raised"
  queue,        \* the queue
  running,      \* seeds whose task a worker is running
  workers,      \* workers alive
  results,      \* results, in the order the tasks end
  raised        \* seeds whose task raised

vars == <<budget, global_used, k, at, queue, running, workers, results, raised>>

Calls(e) == DOMAIN budget[e]

Init ==
  /\ budget \in [Executors -> SeqOf(Budgets, Seeds)]
  /\ MapThenSumSet(LAMBDA e : Len(budget[e]), Executors) <= Seeds
  /\ global_used = 0
  /\ k = [e \in Executors |-> 1]
  /\ at = [e \in Executors |-> IF budget[e] = <<>> THEN "join" ELSE "admit"]
  /\ queue = [e \in Executors |-> <<>>]
  /\ running = [e \in Executors |-> {}]
  /\ workers = [e \in Executors |-> Concurrency]
  /\ results = [e \in Executors |-> <<>>]
  /\ raised = [e \in Executors |-> {}]

(* KVMemoryManager, global API. *)
can_admit(b) == global_used + b <= Capacity

release(b) == IF global_used >= b THEN global_used - b ELSE 0

(* The producer admits the task of the next seed, or waits for capacity. *)
Admit(e) ==
  /\ at[e] = "admit"
  /\ can_admit(budget[e][k[e]])
  /\ global_used' = global_used + budget[e][k[e]]
  /\ at' = [at EXCEPT ![e] = "put"]
  /\ UNCHANGED <<budget, k, queue, running, workers, results, raised>>

WaitForCapacity(e) ==
  /\ at[e] = "admit"
  /\ ~can_admit(budget[e][k[e]])
  /\ at' = [at EXCEPT ![e] = "wait"]
  /\ UNCHANGED <<budget, global_used, k, queue, running, workers, results, raised>>

(* queue.put waits for a free slot; the loop goes on to the next seed. *)
Put(e) ==
  /\ at[e] = "put"
  /\ Len(queue[e]) < Concurrency
  /\ queue' = [queue EXCEPT ![e] = Append(@, k[e])]
  /\ k' = [k EXCEPT ![e] = @ + 1]
  /\ at' = [at EXCEPT ![e] = IF k[e] = Len(budget[e]) THEN "join" ELSE "admit"]
  /\ UNCHANGED <<budget, global_used, running, workers, results, raised>>

(* task_builder raises in the producer: execute_tasks is left, and its     *)
(* workers are not cancelled.                                              *)
BuildRaises(e) ==
  /\ at[e] = "admit"
  /\ Cardinality(raised[e]) < MaxRaises
  /\ raised' = [raised EXCEPT ![e] = @ \cup {k[e]}]
  /\ at' = [at EXCEPT ![e] = "raised"]
  /\ UNCHANGED <<budget, global_used, k, queue, running, workers, results>>

(* queue.get: a worker that is not running a task takes the oldest one. *)
Get(e) ==
  /\ queue[e] # <<>>
  /\ Cardinality(running[e]) < workers[e]
  /\ running' = [running EXCEPT ![e] = @ \cup {Head(queue[e])}]
  /\ queue' = [queue EXCEPT ![e] = Tail(@)]
  /\ UNCHANGED <<budget, global_used, k, at, workers, results, raised>>

\* Mutant of notify_all: nobody is woken.
NotifyNobody(e) == at

(* capacity_cond.notify_all wakes the producer of this call only. *)
notify_all(e) == IF at[e] = "wait" THEN [at EXCEPT ![e] = "admit"] ELSE at

(* The worker's finally: release, notify, task_done. *)
Finally(e, c) ==
  /\ global_used' = release(budget[e][c])
  /\ running' = [running EXCEPT ![e] = @ \ {c}]
  /\ at' = notify_all(e)

Succeed(e, c) ==
  /\ results' = [results EXCEPT ![e] = Append(@, c)]
  /\ Finally(e, c)
  /\ UNCHANGED <<budget, k, queue, workers, raised>>

\* Mutant of TaskRaises: the exception skips the finally.
RaisesUnreleased(e, c) ==
  /\ Cardinality(raised[e]) < MaxRaises
  /\ raised' = [raised EXCEPT ![e] = @ \cup {c}]
  /\ workers' = [workers EXCEPT ![e] = @ - 1]
  /\ running' = [running EXCEPT ![e] = @ \ {c}]
  /\ UNCHANGED <<budget, global_used, k, at, queue, results>>

(* The task raises: the exception ends the worker, after the finally. *)
TaskRaises(e, c) ==
  /\ Cardinality(raised[e]) < MaxRaises
  /\ raised' = [raised EXCEPT ![e] = @ \cup {c}]
  /\ workers' = [workers EXCEPT ![e] = @ - 1]
  /\ Finally(e, c)
  /\ UNCHANGED <<budget, k, queue, results>>

\* Mutants of unfinished_tasks: only what is running; raised tasks too.
UnfinishedRunning(e) == Cardinality(running[e])
UnfinishedAndRaised(e) == Len(queue[e]) + Cardinality(running[e] \cup raised[e])

(* queue.join returns when task_done was called for every task put; the    *)
(* workers are cancelled.                                                  *)
unfinished_tasks(e) == Len(queue[e]) + Cardinality(running[e])

Return(e) ==
  /\ at[e] = "join"
  /\ unfinished_tasks(e) = 0
  /\ at' = [at EXCEPT ![e] = "returned"]
  /\ workers' = [workers EXCEPT ![e] = 0]
  /\ UNCHANGED <<budget, global_used, k, queue, running, results, raised>>

Produce(e) == Admit(e) \/ WaitForCapacity(e) \/ Put(e) \/ Return(e)
Work(e) == Get(e) \/ \E c \in running[e] : Succeed(e, c) \/ TaskRaises(e, c)

Next == \E e \in Executors : Produce(e) \/ BuildRaises(e) \/ Work(e)

Spec == Init /\ [][Next]_vars

(* The event loop runs every ready task, and a model call ends: every      *)
(* producer that can move does, and so do the workers.                     *)
FairSpec == Spec /\ \A e \in Executors : WF_vars(Produce(e)) /\ WF_vars(Work(e))

-----------------------------------------------------------------------------

\* The seeds of e whose budget is charged: admitted, and not released.
Charged(e) ==
  Range(queue[e]) \cup running[e] \cup (IF at[e] = "put" THEN {k[e]} ELSE {})

(* _global_used is what the tasks admitted by all the calls hold, so it is *)
(* within the capacity and the clamp of release never acts, also when      *)
(* tasks raise and when a producer raises with tasks in the queue.         *)
GlobalUsedExact ==
  /\ global_used = MapThenSumSet(LAMBDA p : budget[p[1]][p[2]],
                                 UNION {{e} \X Charged(e) : e \in Executors})
  /\ global_used <= Capacity

(* When execute_tasks returns, every seed has run: its result is there,    *)
(* once, unless its task raised.  A raised task is lost in silence.        *)
ResultsComplete ==
  \A e \in Executors :
    at[e] = "returned" =>
      /\ Range(results[e]) = Calls(e) \ raised[e]
      /\ Len(results[e]) = Cardinality(Calls(e) \ raised[e])

Ends(e) == at[e] \in {"returned", "raised"}
Alone(e) == \A f \in Executors \ {e} : budget[f] = <<>>
Fits(e) == \A c \in Calls(e) : budget[e][c] <= Capacity

(* A call that has the manager to itself returns or raises when each       *)
(* budget fits the capacity, unless as many tasks raise as there are       *)
(* workers: a producer that waits has a task of its own ahead that will    *)
(* notify it, and the last worker empties the queue.                       *)
EveryCallEnds ==
  \A e \in Executors :
    Alone(e) /\ Fits(e) => <>(Ends(e) \/ Cardinality(raised[e]) >= Concurrency)

\* The call waits, and none of its own tasks is left to notify it.
Starved(e) == at[e] = "wait" /\ queue[e] = <<>> /\ running[e] = {}

\* Every worker died of a task that raised, and tasks are left in the queue:
\* queue.join never returns, and a full queue blocks queue.put.
Deserted(e) == workers[e] = 0 /\ queue[e] # <<>> /\ at[e] # "admit"

(* The ways execute_tasks can hang, and no other exists: it ends, or it is *)
(* left waiting for capacity with nothing of its own in flight (a release  *)
(* of another call does not notify it, and a budget above the capacity is  *)
(* never admitted), or its workers are all dead with tasks in the queue.   *)
(* Each of the two is for ever.                                            *)
EndsStarvesOrDeserted ==
  \A e \in Executors : <>(Ends(e) \/ []Starved(e) \/ []Deserted(e))
=============================================================================
