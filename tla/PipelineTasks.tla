---------------------------- MODULE PipelineTasks ----------------------------
(***************************************************************************)
(* What a pipeline segment is made of                                      *)
(* (vllm/kalypso/execution/pipeline_execution.py): its stages, the tasks   *)
(* that wait in their queues or are launched, the JoinTrackers of parent   *)
(* contexts, and what the executor does to the KVMemoryManager for them.   *)
(* Operators only; the executor's state and steps are in PipelineExecutor. *)
(*                                                                         *)
(* A context is named by its place in the fan-out tree: <<i>> is the i-th  *)
(* input and Append(c, j) the j-th child of c.  Its stage_index is its     *)
(* depth, since every stage but the last fans out.                         *)
(***************************************************************************)
EXTENDS KVManager, Sums, Sequences

CONSTANTS
  FirstStage, LastStage   \* the segment's stages; other ids of StageIds are
                          \* registered too, by other segments or queries

Stages == FirstStage..LastStage

Task(c, i, r, T) == [ctx |-> c, op |-> i, retry |-> r, trackers |-> T]
Launched(t, b)   == [task |-> t, budget |-> b, at |-> t.op, status |-> "run"]

StageOf(c) == FirstStage + Len(c) - 1
At(A, s)   == {a \in A : StageOf(a.task.ctx) = s}

Children(c, n, T) == [j \in 1..n |-> Task(Append(c, j), 1, FALSE, T)]

(* Stage.enqueue: before the first task that t, the youngest, precedes,    *)
(* else at the end; the priority is -op_index.                             *)
First(S) == CHOOSE i \in S : \A j \in S : i <= j
Enqueued(q, t) ==
  LET i == First({j \in 1..Len(q) : q[j].op < t.op} \cup {Len(q) + 1})
  IN SubSeq(q, 1, i - 1) \o <<t>> \o SubSeq(q, i, Len(q))

-----------------------------------------------------------------------------
(* rebalance_stage_capacity of the executor, after every handled result    *)
(* and at the top of the loop.                                             *)

(* Stage.tune_thresholds *)
MinBudget(m, s) == IF m.min[s] > 0 THEN m.min[s] ELSE 1
HighThreshold(m, s) == Larger(1, m.cap[s] \div MinBudget(m, s))
LowThreshold(m, s)  == Larger(1, m.cap[s] \div (2 * MinBudget(m, s)))

(* Do(x, s) for each stage s from first on, in order. *)
InOrder(Do(_, _), m, first) ==
  LET After[s \in (first - 1)..LastStage] ==
        IF s < first THEN m ELSE Do(After[s - 1], s)
  IN After[LastStage]

Idle(w, A, s) == w[s] = <<>> /\ At(A, s) = {}

(* Only capacities change.  The thresholds are those of the capacities at  *)
(* the start; w and A are the queues and the tasks running.                *)
Rebalanced(m, w, A) ==
  LET Drain(x, s) == IF Idle(w, A, s) THEN Returned(x, s, TRUE) ELSE x
      Grow(x, s) == IF Len(w[s]) > HighThreshold(m, s)
                    THEN Borrowed(x, LastStage, s - 1) ELSE x
      Feed(x, s) == IF Len(w[s]) < LowThreshold(m, s) /\ w[s - 1] # <<>>
                    THEN Borrowed(x, s - 1, s) ELSE x
      drained == InOrder(Drain, m, FirstStage)
      grown   == InOrder(Grow, drained, FirstStage + 1)
  IN [m EXCEPT !.cap = InOrder(Feed, grown, FirstStage + 1).cap]

-----------------------------------------------------------------------------
(* JoinTracker: a parent context stays pinned, and its budget charged,     *)
(* until its counter of children reaches zero.  finalize_task counts down  *)
(* every tracker the task carries; Closing are the ones whose counter goes *)
(* through zero when n tasks carrying T are finalized.                     *)

\* Mutant of Closing: one child too late.
ClosingLate(trk, T, n)  == {p \in T : trk[p].pending \in 0..(n - 1)}

Closing(trk, T, n) == {p \in T : trk[p].pending \in 1..n}

CountedDown(trk, T, n) ==
  [p \in DOMAIN trk |-> IF p \in T THEN [trk[p] EXCEPT !.pending = @ - n] ELSE trk[p]]

ReservedBy(trk, P, s) ==
  SumOver([p \in P |-> trk[p].budget], {p \in P : StageOf(p) = s})

(* release_stage once for each parent of P. *)
Refunded(m, trk, P) ==
  [m EXCEPT
     !.used = [s \in StageIds |-> Larger(0, m.used[s] - ReservedBy(trk, P, s))],
     !.inflight = [s \in StageIds |->
        Larger(0, m.inflight[s] - Cardinality({p \in P : StageOf(p) = s}))]]

(* The manager once the task's own budget is given back. *)
Freed(m, a) == Released(m, StageOf(a.task.ctx), a.budget)
=============================================================================
