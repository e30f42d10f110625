-------------------------- MODULE PipelineExecutor --------------------------
(***************************************************************************)
(* AsyncPipelineExecutor.execute_tasks                                     *)
(* (vllm/kalypso/execution/pipeline_execution.py): one pipeline segment,   *)
(* stages FirstStage..LastStage, run by one coroutine.  Each launched task *)
(* is a coroutine of its own (Stage.run_task) that applies the operators   *)
(* of its stage; they run while the executor is in asyncio.wait.           *)
(*                                                                         *)
(* A context is named by its place in the fan-out tree: <<i>> is the i-th  *)
(* input and Append(c, j) the j-th child of c.  A live task is known by    *)
(* its context, since no context has two, and its stage_index is the depth *)
(* of the context, since every stage but the last fans out.                *)
(*                                                                         *)
(* Abstracted: prompts, texts and token counts (a budget is any value the  *)
(* estimator may give, drawn anew at every admission attempt, since the    *)
(* map ratio it uses moves), task ids (a new task is the youngest: see     *)
(* StageQueue), logging and the deferred-parent telemetry.  The unit of    *)
(* memory is bytes_per_token.                                              *)
(*                                                                         *)
(* The manager's methods never suspend, and what a handler awaits besides  *)
(* (the unpin call) lets only other tasks' coroutines run, which touch     *)
(* nothing but their own context.  So a handler is one step, and tasks run *)
(* in asyncio.wait or, once the executor has raised, on their own.         *)
(***************************************************************************)
EXTENDS PipelineTasks

CONSTANTS
  Plan,        \* Plan[s]: the capacities build registered stage s with
  Segments,    \* what the segment may be, and how many contexts it gets
  Inputs,      \* number of input contexts, at most
  MaxFanout,   \* children a fanout_op may return, at most
  Budgets      \* what estimate_budget may return, in bytes

Kinds  == {"filter", "map", "classify", "icp", "cascade", "search"}

ASSUME SegmentAssumption ==
  /\ FirstStage \in Nat /\ LastStage \in Nat
  /\ FirstStage <= LastStage /\ Stages \subseteq StageIds
ASSUME PlanAssumption ==
  \A s \in StageIds : /\ Plan[s] \in [cap : Nat, min : Nat, max : Nat]
                      /\ Plan[s].min <= Plan[s].cap /\ Plan[s].cap <= Plan[s].max
ASSUME SegmentsAssumption ==
  \A x \in Segments :
    /\ \A s \in Stages : x.ops[s] \in Seq(Kinds) /\ x.ops[s] # <<>>
    \* A stage is cut at a JOIN or at the end of the segment.
    /\ (Stages \ {LastStage}) \subseteq x.fanout /\ x.fanout \subseteq Stages
    /\ x.pinning \in BOOLEAN /\ x.ends \in BOOLEAN /\ x.inputs \in 0..Inputs
ASSUME BoundsAssumption ==
  Inputs \in Nat /\ MaxFanout \in Nat /\ Budgets \subseteq Nat \ {0}

VARIABLES
  seg,      \* the segment, which does not change
  kv,       \* the KVMemoryManager
  waiting,  \* waiting[s]: stage.waiting_tasks
  active,   \* launched and not yet handled: active and stage.running_tasks
  batch,    \* contexts of the done tasks still to be handled
  pin,      \* contexts whose pin_req_id is set
  tracker,  \* the JoinTracker of each context that has one
  out,      \* contexts in out
  pc,       \* where the executor is
  cur       \* the stage the launch loop is at

vars == <<seg, kv, waiting, active, batch, pin, tracker, out, pc, cur>>

Ops       == seg.ops      \* Ops[s]: the kinds of the operators of stage s
Fanout    == seg.fanout   \* the stages with a fanout_op
Pinning   == seg.pinning  \* virtual_pinning
EndsQuery == seg.ends     \* no operator follows the segment

Init ==
  /\ seg \in Segments
  /\ kv = [reg |-> StageIds,
           cap |-> [s \in StageIds |-> Plan[s].cap],
           min |-> [s \in StageIds |-> Plan[s].min],
           max |-> [s \in StageIds |-> Plan[s].max],
           used |-> [s \in StageIds |-> 0], inflight |-> [s \in StageIds |-> 0]]
  /\ waiting = [s \in Stages |->
       IF s = FirstStage THEN [i \in 1..seg.inputs |-> Task(<<i>>, 1, FALSE, {})] ELSE <<>>]
  /\ active = {} /\ batch = {} /\ pin = {} /\ tracker = <<>> /\ out = {}
  /\ pc = "top" /\ cur = FirstStage

-----------------------------------------------------------------------------
(* Stage.run_task. *)

(* The pin and unpin flags apply_pin_unpin gives to operator i of stage s. *)
Pins(s, i) ==
  /\ Pinning /\ i = 1
  /\ s \in Fanout \/ (EndsQuery /\ Len(Ops[s]) > 1)
Unpins(s, i) ==
  Pinning /\ EndsQuery /\ s \notin Fanout /\ Len(Ops[s]) > 1 /\ i = Len(Ops[s])

(* The operators whose `predicate` is set. *)
Predicates == {"filter", "icp", "cascade"}

(* Does an operator of this kind that is to pin ask the engine to?  ICP    *)
(* and the index search never call the model with pin; a cascade does only *)
(* when it falls back to the model.                                        *)
MayPin(kind) ==
  CASE kind \in {"filter", "map", "classify"} -> {TRUE}
    [] kind = "cascade"                       -> {TRUE, FALSE}
    [] kind \in {"icp", "search"}             -> {FALSE}

(* Tasks are suspended or running while the executor waits; after an       *)
(* exception nobody cancels the ones left over.                            *)
Runs(a) == a \in active /\ a.status = "run" /\ pc \in {"wait", "failed"}

Becomes(a, b) ==
  /\ active' = (active \ {a}) \cup {b}
  /\ UNCHANGED <<seg, kv, waiting, batch, tracker, out, pc, cur>>

(* One operator runs to its end: it pins its context if it is to, and      *)
(* handle_output unpins it again if the operator is the chain's last or    *)
(* the verdict is negative; only predicates drop the tuple.  The verdict   *)
(* on a map's text is negative when the text contains "false".             *)
RunOp(a, passed) ==
  LET c == a.task.ctx
      s == StageOf(c)
      kind == Ops[s][a.at]
  IN /\ Runs(a)
     /\ \E asks \in MayPin(kind) :
          LET pinned == pin \cup (IF asks /\ Pins(s, a.at) THEN {c} ELSE {})
          IN pin' = IF kind # "search" /\ (Unpins(s, a.at) \/ ~passed)
                    THEN pinned \ {c} ELSE pinned
     /\ Becomes(a, IF ~passed /\ kind \in Predicates THEN [a EXCEPT !.status = "drop"]
                   ELSE IF a.at = Len(Ops[s]) THEN [a EXCEPT !.status = "pass"]
                   ELSE [a EXCEPT !.at = @ + 1])

(* A map whose answer was cut off unpins what it pinned and asks to be run *)
(* again, with the largest token limit, so it asks once.                   *)
MapRetries(a) ==
  LET c == a.task.ctx
      s == StageOf(c)
  IN /\ Runs(a) /\ Ops[s][a.at] = "map"
     /\ ~(a.task.retry /\ a.at = a.task.op)
     /\ pin' = IF Pins(s, a.at) THEN pin \ {c} ELSE pin
     /\ Becomes(a, [a EXCEPT !.status = "retry"])

(* The operator raises. *)
OpRaises(a) ==
  Runs(a) /\ UNCHANGED pin /\ Becomes(a, [a EXCEPT !.status = "error"])

-----------------------------------------------------------------------------
(* The main loop: rebalance, launch what fits, wait. *)

Pending == \E s \in Stages : waiting[s] # <<>>

LoopTop ==
  /\ pc = "top"
  /\ IF Pending \/ active # {}
     THEN /\ kv' = Rebalanced(kv, waiting, active)
          /\ pc' = "launch" /\ cur' = FirstStage
     ELSE pc' = "returned" /\ UNCHANGED <<kv, cur>>
  /\ UNCHANGED <<seg, waiting, active, batch, pin, tracker, out>>

(* Stage.accept admits the head of the queue of stage cur. *)
LaunchHead(b) ==
  /\ pc = "launch" /\ cur \in Stages /\ waiting[cur] # <<>>
  /\ Fits(kv, cur, b)
  /\ kv' = Charged(kv, cur, b)
  /\ active' = active \cup {Launched(Head(waiting[cur]), b)}
  /\ waiting' = [waiting EXCEPT ![cur] = Tail(@)]
  /\ UNCHANGED <<seg, batch, pin, tracker, out, pc, cur>>

(* The queue of stage cur is empty, or its head is refused. *)
LeaveStage(b) ==
  /\ pc = "launch" /\ cur \in Stages
  /\ waiting[cur] = <<>> \/ ~Fits(kv, cur, b)
  /\ cur' = cur + 1
  /\ UNCHANGED <<seg, kv, waiting, active, batch, pin, tracker, out, pc>>

\* Mutant of ForceLaunch: the budget is checked, as in accept, and refused.
ForceRefused(bs) ==
  /\ pc = "launch" /\ cur = LastStage + 1 /\ active = {} /\ Pending
  /\ pc' = "top" /\ cur' = FirstStage
  /\ UNCHANGED <<seg, kv, waiting, active, batch, pin, tracker, out>>

(* Nothing fits and nothing runs: force_launch_blocked_tasks admits the    *)
(* head of every queue, whatever its budget, and the loop starts again.    *)
ForceLaunch(bs) ==
  LET blocked == {s \in Stages : waiting[s] # <<>>}
  IN /\ pc = "launch" /\ cur = LastStage + 1 /\ active = {} /\ Pending
     /\ kv' = [kv EXCEPT
          !.used = [s \in StageIds |-> kv.used[s] + (IF s \in blocked THEN bs[s] ELSE 0)],
          !.inflight = [s \in StageIds |-> kv.inflight[s] + (IF s \in blocked THEN 1 ELSE 0)]]
     /\ active' = {Launched(Head(waiting[s]), bs[s]) : s \in blocked}
     /\ waiting' = [s \in Stages |-> IF s \in blocked THEN Tail(waiting[s]) ELSE <<>>]
     /\ pc' = "top" /\ cur' = FirstStage
     /\ UNCHANGED <<seg, batch, pin, tracker, out>>

StartWait ==
  /\ pc = "launch" /\ cur = LastStage + 1 /\ active # {}
  /\ pc' = "wait" /\ cur' = FirstStage
  /\ UNCHANGED <<seg, kv, waiting, active, batch, pin, tracker, out>>

(* asyncio.wait(FIRST_COMPLETED) returns every task that is done by then. *)
Wake ==
  LET done == {a \in active : a.status # "run"}
  IN /\ pc = "wait" /\ done # {}
     /\ batch' = {a.task.ctx : a \in done}
     /\ pc' = "handle"
     /\ UNCHANGED <<seg, kv, waiting, active, pin, tracker, out, cur>>

-----------------------------------------------------------------------------
(* finalize_task for n tasks carrying T: manager m, trackers and pins. *)
Finalize(m, trk, T, n) ==
  LET closing == Closing(trk, T, n)
  IN /\ kv' = Refunded(m, trk, closing)
     /\ tracker' = CountedDown(trk, T, n)
     /\ pin' = pin \ closing

(***************************************************************************)
(* Handlers of a done task a: taken from the batch in any order, since     *)
(* asyncio.wait returns a set.                                             *)
(***************************************************************************)
Detach(a, status) ==
  /\ pc = "handle" /\ a \in active /\ a.task.ctx \in batch
  /\ a.status = status
  /\ active' = active \ {a}
  /\ batch' = batch \ {a.task.ctx}
  /\ UNCHANGED <<seg, cur>>

NextPc(a) == IF batch = {a.task.ctx} THEN "top" ELSE "handle"

(* future.result() raises: the budget of this task is given back and the   *)
(* executor raises, leaving the other tasks and the open trackers behind.  *)
HandleError(a) ==
  /\ Detach(a, "error")
  /\ kv' = Freed(kv, a)
  /\ pc' = "failed"
  /\ UNCHANGED <<waiting, pin, tracker, out>>

\* Mutant of HandleRetry: the new task is not queued.
RetryLost(a) ==
  /\ Detach(a, "retry")
  /\ kv' = Rebalanced(Freed(kv, a), waiting, active')
  /\ pc' = NextPc(a)
  /\ UNCHANGED <<waiting, pin, tracker, out>>

(* result is a RetryTaskResult; retain_budget is always False. *)
HandleRetry(a) ==
  LET s == StageOf(a.task.ctx)
  IN /\ Detach(a, "retry")
     /\ waiting' = [waiting EXCEPT ![s] =
          Enqueued(@, Task(a.task.ctx, a.at, TRUE, a.task.trackers))]
     /\ kv' = Rebalanced(Freed(kv, a), waiting', active')
     /\ pc' = NextPc(a)
     /\ UNCHANGED <<pin, tracker, out>>

(* result is None *)
HandleDrop(a) ==
  /\ Detach(a, "drop")
  /\ Finalize(Rebalanced(Freed(kv, a), waiting, active'), tracker, a.task.trackers, 1)
  /\ pc' = NextPc(a)
  /\ UNCHANGED <<waiting, out>>

(* The stage has no fanout_op, so it is the last. *)
HandleEmit(a) ==
  LET T == a.task.trackers
      closing == Closing(tracker, T, 1)
  IN /\ Detach(a, "pass") /\ StageOf(a.task.ctx) \notin Fanout
     /\ out' = out \cup {a.task.ctx}
     /\ tracker' = CountedDown(tracker, T, 1)
     /\ pin' = pin \ closing
     /\ kv' = Rebalanced(Freed(Refunded(kv, tracker, closing), a), waiting, active')
     /\ pc' = NextPc(a)
     /\ UNCHANGED waiting

(* fanout_op: how many contexts a join makes of one.  A Cartesian product  *)
(* returns the whole right table, an indexed one the rows its service      *)
(* finds, down to none.                                                    *)
fanout_op == 0..MaxFanout

(* fanout_op raises: outside the try, so not even this budget is released. *)
FanoutRaises(a) ==
  /\ Detach(a, "pass") /\ StageOf(a.task.ctx) \in Fanout
  /\ pc' = "failed"
  /\ UNCHANGED <<kv, waiting, pin, tracker, out>>

\* Mutant of HandleNoChildren: the context is not unpinned.
NoChildrenKeepsPin(a) ==
  LET closing == Closing(tracker, a.task.trackers, 1)
  IN /\ Detach(a, "pass") /\ StageOf(a.task.ctx) \in Fanout
     /\ pin' = pin \ closing
     /\ tracker' = CountedDown(tracker, a.task.trackers, 1)
     /\ kv' = Refunded(Rebalanced(Freed(kv, a), waiting, active'), tracker, closing)
     /\ pc' = NextPc(a)
     /\ UNCHANGED <<waiting, out>>

(* No children: the context is unpinned and ends here. *)
HandleNoChildren(a) ==
  LET T == a.task.trackers
      closing == Closing(tracker, T, 1)
  IN /\ Detach(a, "pass") /\ StageOf(a.task.ctx) \in Fanout
     /\ pin' = pin \ (closing \cup {a.task.ctx})
     /\ tracker' = CountedDown(tracker, T, 1)
     /\ kv' = Refunded(Rebalanced(Freed(kv, a), waiting, active'), tracker, closing)
     /\ pc' = NextPc(a)
     /\ UNCHANGED <<waiting, out>>

(* A pinned context gets a tracker, and keeps its budget, for its n        *)
(* children; the children carry it, and the trackers of its ancestors.     *)
Deferred(a) == a.task.ctx \in pin
Carried(a)  == a.task.trackers \cup (IF Deferred(a) THEN {a.task.ctx} ELSE {})

WithTracker(a, n) ==
  IF Deferred(a)
  THEN [p \in DOMAIN tracker \cup {a.task.ctx} |->
          IF p = a.task.ctx THEN [pending |-> n, budget |-> a.budget] ELSE tracker[p]]
  ELSE tracker

\* Mutant of FreedUnlessDeferred: the budget is given back at once.
FreedAlways(m, a) == Freed(m, a)

FreedUnlessDeferred(m, a) == IF Deferred(a) THEN m ELSE Freed(m, a)

(* The children, younger than anything queued and of the lowest priority,  *)
(* go to the end of the next stage's queue.                                *)
HandleChildren(a, n) ==
  LET c == a.task.ctx
      s == StageOf(c)
  IN /\ Detach(a, "pass") /\ s \in Fanout /\ s < LastStage
     /\ waiting' = [waiting EXCEPT ![s + 1] = @ \o Children(c, n, Carried(a))]
     /\ tracker' = WithTracker(a, n)
     /\ kv' = Rebalanced(FreedUnlessDeferred(kv, a), waiting', active')
     /\ pc' = NextPc(a)
     /\ UNCHANGED <<pin, out>>

(* After the last stage the children are results and finalized at once. *)
HandleChildrenOut(a, n) ==
  LET c == a.task.ctx
      trk == WithTracker(a, n)
      closing == Closing(trk, Carried(a), n)
  IN /\ Detach(a, "pass") /\ StageOf(c) \in Fanout /\ StageOf(c) = LastStage
     /\ out' = out \cup {Append(c, j) : j \in 1..n}
     /\ tracker' = CountedDown(trk, Carried(a), n)
     /\ pin' = pin \ closing
     /\ kv' = Rebalanced(FreedUnlessDeferred(Refunded(kv, trk, closing), a),
                         waiting, active')
     /\ pc' = NextPc(a)
     /\ UNCHANGED waiting

Finished ==
  /\ pc = "returned" \/ (pc = "failed" /\ \A a \in active : a.status # "run")
  /\ UNCHANGED vars

RunStep ==
  \E a \in active : \/ \E passed \in BOOLEAN : RunOp(a, passed)
                    \/ MapRetries(a)
                    \/ OpRaises(a)

HandleStep ==
  \E a \in active :
    \/ HandleError(a) \/ HandleRetry(a) \/ HandleDrop(a) \/ HandleEmit(a)
    \/ FanoutRaises(a) \/ HandleNoChildren(a)
    \/ \E n \in fanout_op \ {0} : HandleChildren(a, n) \/ HandleChildrenOut(a, n)

Next ==
  \/ LoopTop
  \/ \E b \in Budgets : LaunchHead(b) \/ LeaveStage(b)
  \/ \E bs \in [Stages -> Budgets] : ForceLaunch(bs)
  \/ StartWait \/ Wake \/ RunStep \/ HandleStep \/ Finished

Spec == Init /\ [][Next]_vars

(* The event loop keeps running, the model answers every call and the      *)
(* executor awaits nothing else.                                           *)
FairSpec == Spec /\ WF_vars(Next)

-----------------------------------------------------------------------------
(* Properties. *)

Queued(s) == {waiting[s][i] : i \in 1..Len(waiting[s])}
Tasks == {a.task : a \in active} \cup UNION {Queued(s) : s \in Stages}
Live  == {t.ctx : t \in Tasks}
Open  == {p \in DOMAIN tracker : tracker[p].pending > 0}

(* What the manager has charged to a stage is what its launched tasks and  *)
(* the open JoinTrackers of its contexts hold: on every path but the       *)
(* raising ones each budget is given back exactly once, by the handler or  *)
(* by the tracker it was handed to.                                        *)
Ledger ==
  pc # "failed" =>
    \A s \in StageIds :
      /\ kv.used[s] = SumOver([a \in active |-> a.budget], At(active, s))
                        + ReservedBy(tracker, Open, s)
      /\ kv.inflight[s] = Cardinality(At(active, s))
                            + Cardinality({p \in Open : StageOf(p) = s})

(* A tuple whose unpin flag is on an index search, the chain's last        *)
(* operator: IndexedSearch.__call__ does not look at the flag.             *)
LeftPinned(c) ==
  LET chain == Ops[StageOf(c)] IN c \in out /\ chain[Len(chain)] = "search"

(* A pinned context always has somebody left to unpin it: it is running,   *)
(* an open tracker stands for it, or it waits to run again.  Only in the   *)
(* last case is no budget charged for the memory it pins, and only after a *)
(* retry of an operator that did not pin it.  The one exception is a tuple *)
(* that came out of a query whose last operator is an index search: it     *)
(* stays pinned until _cleanup_query_pins, at the query's end.             *)
PinCovered ==
  pc # "failed" =>
    \A c \in pin :
      \/ c \in Open
      \/ \E a \in active : a.task.ctx = c
      \/ \E t \in Tasks : t.ctx = c /\ t.retry /\ t.op > 1
      \/ LeftPinned(c)

(* When execute_tasks returns, the manager is as empty as it found it and  *)
(* no context is left pinned, but for the results of a query that ends in  *)
(* an index search.                                                        *)
CleanReturn ==
  pc = "returned" =>
    /\ \A s \in StageIds : kv.used[s] = 0 /\ kv.inflight[s] = 0
    /\ Open = {}
    /\ \A c \in pin : LeftPinned(c)

(* The children of p with a task left in their subtree. *)
ChildrenLeft(p) ==
  {j \in 1..MaxFanout : \E c \in Live :
     Len(p) < Len(c) /\ SubSeq(c, 1, Len(p) + 1) = Append(p, j)}

(* The counter child_finished logs as remaining_children is the number of  *)
(* children whose work is not finished.                                    *)
RemainingChildren ==
  pc # "failed" => \A p \in Open : tracker[p].pending = Cardinality(ChildrenLeft(p))

(* execute_tasks ends: it never waits with nothing running, and a task     *)
(* larger than its stage is forced through.                                *)
Termination == <>(pc \in {"returned", "failed"})
=============================================================================
