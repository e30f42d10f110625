------------------------------ MODULE Planner ------------------------------
(***************************************************************************)
(* SemanticPlan (vllm/kalypso/controller/plan.py): parse_ops turns the     *)
(* logical operators of a query into physical ones and apply_pin_unpin     *)
(* flags them; build fuses runs of tuple-independent operators into        *)
(* stages, groups stages into segments and registers each stage with the   *)
(* manager.  Both are loops over the operators, one step each here.        *)
(*                                                                         *)
(* An operator is its OpBehavior, and is named by its place in the list.   *)
(* Memory is counted in tokens (bytes_per_token is 1).                     *)
(***************************************************************************)
EXTENDS Integers, FiniteSetsExt, SequencesExt

CONSTANTS
  Capacity,        \* kv.capacity()
  Estimates,       \* what the largest sampled budget of a stage may be; 0
                   \* when there is no context to sample
  VirtualPinning,  \* virtual_pinning
  MaxOps           \* bound on the logical operators of a query

ASSUME CapacityAssumption  == Capacity \in Nat \ {0}
ASSUME EstimatesAssumption == Estimates \subseteq Nat
ASSUME PinningAssumption   == VirtualPinning \in BOOLEAN
ASSUME MaxOpsAssumption    == MaxOps \in Nat

VARIABLES
  list,     \* the physical operators: "tuple", "join" or "blocking"
  pins,     \* operators with pin set
  unpins,   \* operators with unpin set
  i,        \* the loop variable of the two loops
  chain,    \* chain of apply_pin_unpin, stage_ops_chain of build
  segment,  \* current_segment
  plan,     \* the plan so far
  next_stage_id, next_priority_offset,
  grants,   \* what each stage was registered with
  pc        \* "pin", "build" or "done"

vars == <<list, pins, unpins, i, chain, segment, plan, next_stage_id,
          next_priority_offset, grants, pc>>

Lesser(a, b)  == IF a <= b THEN a ELSE b
Greater(a, b) == IF a >= b THEN a ELSE b

(* parse_ops: what one logical operator becomes.  A join is a product and  *)
(* the filter that follows it; a plain cartesian product has no filter     *)
(* unless it falls back to the oracle, and is then like a join.            *)
LogicalOps == {"tuple", "join", "product", "reduce"}
Physical(op) ==
  CASE op = "tuple"   -> <<"tuple">>
    [] op = "join"    -> <<"join", "tuple">>
    [] op = "product" -> <<"join">>
    [] op = "reduce"  -> <<"blocking">>

parse_ops(query) == FlattenSeq([k \in 1..Len(query) |-> Physical(query[k])])

Init ==
  /\ \E n \in 1..MaxOps : \E query \in [1..n -> LogicalOps] : list = parse_ops(query)
  /\ pins = {} /\ unpins = {} /\ i = 1 /\ chain = <<>>
  /\ segment = <<>> /\ plan = <<>> /\ grants = <<>>
  /\ next_stage_id = 1 /\ next_priority_offset = 0
  /\ pc = IF VirtualPinning THEN "pin" ELSE "build"

-----------------------------------------------------------------------------
(* apply_pin_unpin *)

NextBehavior == IF i < Len(list) THEN list[i + 1] ELSE "none"

(* finalize_chain at the end of the query, for a chain of several. *)
LastOfSeveral(c, next) == next = "none" /\ Len(c) > 1

\* Mutant of PinnedBy: what the chain is followed by is not looked at.
PinnedAlways(c, next) == {c[1]}

(* finalize_chain: the flags a finished chain c gives, before next. *)
PinnedBy(c, next) == IF next = "join" \/ LastOfSeveral(c, next) THEN {c[1]} ELSE {}
UnpinnedBy(c, next) == IF LastOfSeveral(c, next) THEN {c[Len(c)]} ELSE {}

PinStep ==
  LET c == Append(chain, i)
  IN /\ pc = "pin" /\ i <= Len(list)
     /\ \/ /\ list[i] = "tuple" /\ NextBehavior = "tuple"
           /\ chain' = c /\ UNCHANGED <<pins, unpins>>
        \/ /\ list[i] = "tuple" /\ NextBehavior # "tuple"
           /\ pins' = pins \cup PinnedBy(c, NextBehavior)
           /\ unpins' = unpins \cup UnpinnedBy(c, NextBehavior)
           /\ chain' = <<>>
        \/ list[i] # "tuple" /\ chain' = <<>> /\ UNCHANGED <<pins, unpins>>
     /\ i' = i + 1
     /\ UNCHANGED <<list, segment, plan, next_stage_id, next_priority_offset, grants, pc>>

PinsDone ==
  /\ pc = "pin" /\ i > Len(list)
  /\ pc' = "build" /\ i' = 1 /\ chain' = <<>>
  /\ UNCHANGED <<list, pins, unpins, segment, plan, next_stage_id, next_priority_offset, grants>>

-----------------------------------------------------------------------------
(* build *)

(* emit_stage: the segment with the fused operators as a stage of its own. *)
Emitted ==
  IF chain = <<>> THEN segment
  ELSE Append(segment, [id |-> next_stage_id, ops |-> chain,
                        offset |-> next_priority_offset, fanout |-> 0])

\* Mutant of EmitStage: the chain is kept.
EmitKeepsChain ==
  /\ UNCHANGED chain
  /\ next_stage_id' = IF chain = <<>> THEN next_stage_id ELSE next_stage_id + 1
  /\ next_priority_offset' = next_priority_offset + Len(chain)

\* Mutant of EmitStage: the offset counts stages, not operators.
EmitCountsStages ==
  /\ chain' = <<>>
  /\ next_stage_id' = IF chain = <<>> THEN next_stage_id ELSE next_stage_id + 1
  /\ next_priority_offset' = next_priority_offset + Lesser(1, Len(chain))

EmitStage ==
  /\ chain' = <<>>
  /\ next_stage_id' = IF chain = <<>> THEN next_stage_id ELSE next_stage_id + 1
  /\ next_priority_offset' = next_priority_offset + Len(chain)

\* Mutant of Assigned: no lower bound.
AssignedUnbounded(k, n, est) ==
  IF k < n THEN est[k] ELSE Capacity - MapThenSumSet(LAMBDA j : est[j], 1..(n - 1))

(* assigned_cap: the early stages start at their estimate, the last gets   *)
(* the rest, and each at least one token.                                  *)
Assigned(k, n, est) ==
  Greater(1, IF k < n THEN est[k]
             ELSE Capacity - MapThenSumSet(LAMBDA j : est[j], 1..(n - 1)))

(* What flush_segment registers the k-th of n stages with. *)
Grant(k, n, est) ==
  LET cap == Lesser(Capacity, Assigned(k, n, est))
  IN IF n = 1
     THEN [cap |-> Capacity, min |-> Capacity, max |-> Capacity]
     ELSE [cap |-> cap, min |-> Lesser(est[k], cap),
           max |-> IF k = n THEN Capacity ELSE Lesser(Capacity, cap + Capacity \div 2)]

GrantsWith(seg, est) == grants \o [k \in 1..Len(seg) |-> Grant(k, Len(seg), est)]

FlushSegment(seg, after) ==
  /\ plan' = plan \o (IF seg = <<>> THEN <<>> ELSE <<[stages |-> seg, op |-> 0]>>) \o after
  /\ segment' = <<>>
  /\ \E est \in [1..Len(seg) -> Estimates] : grants' = GrantsWith(seg, est)

\* An operator that is an item of the plan by itself.
Alone(k) == [stages |-> <<>>, op |-> k]

FuseOp ==
  /\ pc = "build" /\ i <= Len(list) /\ list[i] = "tuple"
  /\ chain' = Append(chain, i) /\ i' = i + 1
  /\ UNCHANGED <<list, pins, unpins, segment, plan, next_stage_id, next_priority_offset, grants, pc>>

\* Mutant of JoinOp: the join is an item of its own, the segment stays open.
JoinAlone ==
  /\ pc = "build" /\ i <= Len(list) /\ list[i] = "join"
  /\ EmitStage
  /\ plan' = Append(plan, Alone(i)) /\ segment' = Emitted
  /\ i' = i + 1
  /\ UNCHANGED <<list, pins, unpins, grants, pc>>

(* A join becomes the fanout_op of the last stage, if there is one. *)
JoinOp ==
  /\ pc = "build" /\ i <= Len(list) /\ list[i] = "join"
  /\ EmitStage
  /\ IF Emitted = <<>>
     THEN plan' = Append(plan, Alone(i)) /\ UNCHANGED segment
     ELSE segment' = [Emitted EXCEPT ![Len(Emitted)].fanout = i] /\ UNCHANGED plan
  /\ i' = i + 1
  /\ UNCHANGED <<list, pins, unpins, grants, pc>>

BlockingOp ==
  /\ pc = "build" /\ i <= Len(list) /\ list[i] = "blocking"
  /\ EmitStage
  /\ FlushSegment(Emitted, <<Alone(i)>>)
  /\ i' = i + 1
  /\ UNCHANGED <<list, pins, unpins, pc>>

TailFlush ==
  /\ pc = "build" /\ i > Len(list)
  /\ EmitStage
  /\ FlushSegment(Emitted, <<>>)
  /\ pc' = "done"
  /\ UNCHANGED <<list, pins, unpins, i>>

Done == pc = "done" /\ UNCHANGED vars

Next == PinStep \/ PinsDone \/ FuseOp \/ JoinOp \/ BlockingOp \/ TailFlush \/ Done

Spec == Init /\ [][Next]_vars

-----------------------------------------------------------------------------
(* Properties. *)

FlatStage(st) == st.ops \o (IF st.fanout = 0 THEN <<>> ELSE <<st.fanout>>)
FlatItem(it) ==
  IF it.op # 0 THEN <<it.op>>
  ELSE FlattenSeq([k \in 1..Len(it.stages) |-> FlatStage(it.stages[k])])

\* A join whose place as fanout_op the next operator, a join too, takes.
Overwritten(k) ==
  /\ list[k] = "join" /\ k < Len(list) /\ list[k + 1] = "join"
  /\ \E j \in 1..k : list[j] = "tuple" /\ \A l \in j..k : list[l] # "blocking"

(* build puts every operator into the plan once and in order, but for a    *)
(* join directly followed by another one inside a segment, which is lost.  *)
OnlyJoinBeforeJoinLost ==
  pc = "done" =>
    FlattenSeq([k \in 1..Len(plan) |-> FlatItem(plan[k])])
      = SelectSeq([k \in 1..Len(list) |-> k], LAMBDA k : ~Overwritten(k))

(* Every stage of a segment but the last fans out: two stages are cut by a *)
(* join only, so that a tuple is at the stage of the joins it has passed   *)
(* (PipelineExecutor!StageOf relies on it).                                *)
EarlyStagesFanOut ==
  \A p \in 1..Len(plan) : \A k \in 1..(Len(plan[p].stages) - 1) :
    plan[p].stages[k].fanout # 0

Stages == FlattenSeq([p \in 1..Len(plan) |-> plan[p].stages]) \o segment

(* The flags, computed from the flat list, fit the stages, computed by     *)
(* build.  Whatever pins is the first operator of a stage and has somebody *)
(* to give the pin back: the join tracker if the stage fans out, else its  *)
(* last operator.  Whatever unpins is such a last operator; none does both *)
(* (the assertion of apply_pin_unpin).                                     *)
EveryPinGivenBack ==
  pc = "done" =>
    /\ pins \cap unpins = {}
    /\ \A op \in pins : \E s \in 1..Len(Stages) :
         /\ op = Head(Stages[s].ops)
         /\ Stages[s].fanout # 0 \/ Last(Stages[s].ops) \in unpins
    /\ \A op \in unpins : \E s \in 1..Len(Stages) :
         /\ op = Last(Stages[s].ops)
         /\ Stages[s].fanout = 0 /\ Head(Stages[s].ops) \in pins

\* Stage.task_priority of a task of stage st that is at its j-th operator.
task_priority(st, j) == -(st.offset + j - 1)

(* Across the stages of all the segments a later operator of the query is  *)
(* strictly more urgent (a smaller number) to the engine than an earlier   *)
(* one: what is nearly through is finished before something new is begun.  *)
LaterIsMoreUrgent ==
  \A s, t \in 1..Len(Stages) :
    \A j \in 1..Len(Stages[s].ops), k \in 1..Len(Stages[t].ops) :
      Stages[s].ops[j] < Stages[t].ops[k] =>
        task_priority(Stages[s], j) > task_priority(Stages[t], k)

(* What is registered can be used: a positive capacity between the minimum *)
(* and the maximum, and none above the whole.                              *)
GrantsUsable ==
  \A s \in 1..Len(grants) :
    /\ 0 < grants[s].cap /\ grants[s].min <= grants[s].cap
    /\ grants[s].cap <= grants[s].max /\ grants[s].max <= Capacity
=============================================================================
