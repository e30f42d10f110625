------------------------ MODULE PipelineSteps_proofs ------------------------
(***************************************************************************)
(* What the steps of the pipeline executor do to the structures it keeps:  *)
(* every step keeps the types, the places of the tasks, the fan-out tree,  *)
(* the counters of the trackers and the books (Sound), and it is said      *)
(* which tasks and open trackers there are after it.                       *)
(***************************************************************************)
EXTENDS PipelineExecutor, PipelineTasks_proofs

\* The leaves are first-order steps for Zenon; those with arithmetic or large records name SMT.
USE Zenon

Ctx == {c \in Seq(Nat) : StageOf(c) \in Stages}

TaskSet ==
  {t \in [ctx : Ctx, op : Nat \ {0}, retry : BOOLEAN, trackers : SUBSET Seq(Nat)] :
     t.op <= Len(Ops[StageOf(t.ctx)])}
Statuses == {"run", "drop", "pass", "retry", "error"}
LaunchedSet ==
  {a \in [task : TaskSet, budget : Nat, at : Nat \ {0}, status : Statuses] :
     a.at <= Len(Ops[StageOf(a.task.ctx)])}

PTypeOK ==
  /\ seg \in Segments /\ IsManager(kv)
  /\ waiting \in [Stages -> Seq(TaskSet)]
  /\ active \in SUBSET LaunchedSet /\ IsFiniteSet(active)
  /\ batch \subseteq {a.task.ctx : a \in active}
  /\ tracker \in [DOMAIN tracker -> Trackers]
  /\ DOMAIN tracker \subseteq Seq(Nat) /\ IsFiniteSet(DOMAIN tracker)
  /\ pc \in {"top", "launch", "wait", "handle", "returned", "failed"}
  /\ cur \in FirstStage..(LastStage + 1)

Placed == PlacedIn(waiting, active)
Tree == TreeOver(Tasks, DOMAIN tracker)
Counted == pc # "failed" => CountedOver(Tasks, tracker)

-----------------------------------------------------------------------------
(* The structure every action keeps: types, places and the tree. *)

\* What the assumptions say of the stages of a segment.
LEMMA SegmentFacts ==
  ASSUME seg \in Segments
  PROVE  /\ \A s \in Stages : /\ Ops[s] \in Seq(Kinds) /\ Len(Ops[s]) \in Nat \ {0}
                              /\ s \in StageIds /\ s \in Nat
         /\ FirstStage \in Stages /\ LastStage \in Stages /\ Fanout \subseteq Stages
         /\ FirstStage \in Nat /\ LastStage \in Nat
         /\ \A s \in Stages : s \notin Fanout => s = LastStage
         /\ IsFiniteSet(Stages)
<1>1. \A s \in Stages : s \in StageIds /\ s \in Nat
  BY SegmentAssumption, SMT DEF Stages
<1>2. \A s \in Stages : Ops[s] \in Seq(Kinds) /\ Ops[s] # <<>>
  BY SegmentsAssumption DEF Ops
<1>3. \A s \in Stages : Len(Ops[s]) \in Nat \ {0}
  <2> TAKE s \in Stages
  <2> DEFINE q == Ops[s]
  <2>1. q \in Seq(Kinds) /\ q # <<>>
    BY <1>2
  <2> HIDE DEF q
  <2>2. Len(q) \in Nat \ {0}
    BY <2>1, SMT
  <2> QED
    BY <2>2 DEF q
<1>4. FirstStage \in Stages /\ LastStage \in Stages /\ FirstStage \in Nat /\ LastStage \in Nat
  BY SegmentAssumption, SMT DEF Stages
<1>5. Fanout \subseteq Stages /\ \A s \in Stages : s \notin Fanout => s = LastStage
  BY SegmentsAssumption DEF Fanout
<1>6. IsFiniteSet(Stages)
  BY <1>4, FS_Interval, SMT DEF Stages
<1> QED
  BY <1>1, <1>2, <1>3, <1>4, <1>5, <1>6

\* A child's stage is the next.
LEMMA ContextFacts ==
  ASSUME NEW c \in Seq(Nat), NEW j \in Nat
  PROVE  /\ StageOf(c) \in Int /\ StageOf(Append(c, j)) = StageOf(c) + 1
         /\ Append(c, j) \in Seq(Nat)
<1>1. Len(c) \in Nat /\ Len(Append(c, j)) = Len(c) + 1 /\ Append(c, j) \in Seq(Nat)
  BY ChildAbove, SMT
<1> QED
  BY <1>1, SegmentAssumption, SMT DEF StageOf

\* What the types say of a launched task.
LEMMA LaunchedFacts ==
  ASSUME PTypeOK, NEW a \in active
  PROVE  /\ a \in LaunchedSet /\ a.task \in TaskSet /\ a.task.ctx \in Seq(Nat)
         /\ StageOf(a.task.ctx) \in Stages /\ StageOf(a.task.ctx) \in StageIds
         /\ a.budget \in Nat /\ a.at \in Nat \ {0} /\ a.at <= Len(Ops[StageOf(a.task.ctx)])
         /\ a.task.op \in Nat \ {0} /\ a.task.retry \in BOOLEAN
         /\ a.task.trackers \subseteq Seq(Nat)
<1>1. a \in LaunchedSet
  BY DEF PTypeOK
<1>2. /\ a.task \in TaskSet /\ a.budget \in Nat /\ a.at \in Nat \ {0}
      /\ a.at <= Len(Ops[StageOf(a.task.ctx)])
  BY <1>1 DEF LaunchedSet
<1>3. a.task.ctx \in Ctx /\ a.task.op \in Nat \ {0} /\ a.task.retry \in BOOLEAN
      /\ a.task.trackers \subseteq Seq(Nat)
  BY <1>2 DEF TaskSet
<1>4. a.task.ctx \in Seq(Nat) /\ StageOf(a.task.ctx) \in Stages
  BY <1>3 DEF Ctx
<1> QED
  BY <1>1, <1>2, <1>3, <1>4, SegmentFacts DEF PTypeOK

\* The types give the sums of the books their terms.
LEMMA LedgerTypes ==
  ASSUME PTypeOK
  PROVE  /\ Weighed(active) /\ IsManager(kv)
         /\ \A P \in SUBSET DOMAIN tracker : Reserving(tracker, P)
         /\ Open = OpenOf(tracker) /\ Open \subseteq DOMAIN tracker
<1>1. Weighed(active)
  BY LaunchedFacts DEF PTypeOK, Weighed
<1>2. ASSUME NEW P \in SUBSET DOMAIN tracker PROVE Reserving(tracker, P)
  <2>1. IsFiniteSet(P)
    BY FS_Subset DEF PTypeOK
  <2>2. \A p \in P : tracker[p] \in Trackers
    BY DEF PTypeOK
  <2> QED
    BY <2>1, <2>2 DEF Reserving, Trackers
<1> QED
  BY <1>1, <1>2 DEF PTypeOK, Open, OpenOf

\* The tasks are those of the queues and of the active set, and typed.
LEMMA TasksTyped ==
  ASSUME PTypeOK
  PROVE  /\ Tasks = TasksOf(waiting, active) /\ Tasks \subseteq TaskSet
         /\ \A t \in Tasks : t.ctx \in Seq(Nat)
<1>1. Tasks = TasksOf(waiting, active)
  BY DEF Tasks, TasksOf, Queued, Elems
<1>2. ASSUME NEW t \in Tasks PROVE t \in TaskSet
  <2>1. CASE \E a \in active : t = a.task
    BY <2>1, LaunchedFacts
  <2>2. CASE \E s \in Stages : t \in Elems(waiting[s])
    BY <2>2, SMT DEF PTypeOK, Elems
  <2> QED
    BY <1>1, <2>1, <2>2 DEF TasksOf
<1> QED
  BY <1>1, <1>2 DEF TaskSet, Ctx

\* The sets of tasks depend on the segment alone.
LEMMA TaskSetSame ==
  ASSUME seg' = seg
  PROVE  TaskSet' = TaskSet /\ LaunchedSet' = LaunchedSet
BY DEF TaskSet, LaunchedSet, Ops

\* Steps that touch neither queues nor tasks nor trackers.
LEMMA StillStep ==
  ASSUME PTypeOK, Placed, Tree, UNCHANGED <<seg, waiting, active, tracker>>,
         IsManager(kv'), batch' \subseteq {a.task.ctx : a \in active},
         pc' \in {"top", "launch", "wait", "handle", "returned", "failed"},
         cur' \in FirstStage..(LastStage + 1)
  PROVE  PTypeOK' /\ Placed' /\ Tree' /\ Tasks' = Tasks
<1>1. PTypeOK'
  BY TaskSetSame DEF PTypeOK
<1>2. Tasks' = Tasks
  BY SMT DEF Tasks, Queued
<1>3. Placed'
  BY DEF Placed
<1>4. Tree'
  BY <1>2 DEF Tree
<1> QED
  BY <1>1, <1>2, <1>3, <1>4

\* The steps of the loop that launch nothing keep the structure.
LEMMA StillActions ==
  ASSUME PTypeOK, Placed, Tree,
         \/ LoopTop \/ StartWait \/ Wake \/ Finished \/ UNCHANGED vars
         \/ \E b \in Budgets : LeaveStage(b)
  PROVE  /\ PTypeOK' /\ Placed' /\ Tree' /\ Tasks' = Tasks
         /\ UNCHANGED <<seg, waiting, active, tracker, pin, out>>
         /\ kv'.used = kv.used /\ kv'.inflight = kv.inflight
<1>0. IsManager(kv)
  BY DEF PTypeOK
<1>1. CASE LoopTop
  <2>1. IsManager(kv') /\ kv'.used = kv.used /\ kv'.inflight = kv.inflight
    BY <1>0, <1>1, RebalanceKeeps, SMT DEF LoopTop
  <2>2. /\ UNCHANGED <<seg, waiting, active, tracker, pin, out, batch>>
        /\ pc' \in {"launch", "returned"} /\ cur' \in {cur, FirstStage}
    BY <1>1 DEF LoopTop
  <2>3. cur' \in FirstStage..(LastStage + 1)
    BY <2>2, SegmentAssumption, SMT DEF PTypeOK
  <2> QED
    BY <2>1, <2>2, <2>3, StillStep DEF PTypeOK
<1>2. CASE \E b \in Budgets : LeaveStage(b)
  <2>1. UNCHANGED <<seg, kv, waiting, active, tracker, pin, out, batch, pc>>
    BY <1>2 DEF LeaveStage
  <2>2. cur' \in FirstStage..(LastStage + 1)
    BY <1>2, SegmentAssumption, SMT DEF PTypeOK, LeaveStage, Stages
  <2> QED
    BY <1>0, <2>1, <2>2, StillStep DEF PTypeOK
<1>3. CASE StartWait
  <2>1. UNCHANGED <<seg, kv, waiting, active, tracker, pin, out, batch>> /\ pc' = "wait"
    BY <1>3 DEF StartWait
  <2>2. cur' \in FirstStage..(LastStage + 1)
    BY <1>3, SegmentAssumption, SMT DEF StartWait
  <2> QED
    BY <1>0, <2>1, <2>2, StillStep DEF PTypeOK
<1>4. CASE Wake
  <2>1. UNCHANGED <<seg, kv, waiting, active, tracker, pin, out, cur>> /\ pc' = "handle"
    BY <1>4 DEF Wake
  <2>2. batch' \subseteq {a.task.ctx : a \in active}
    BY <1>4 DEF Wake
  <2> QED
    BY <1>0, <2>1, <2>2, StillStep DEF PTypeOK
<1>5. CASE Finished \/ UNCHANGED vars
  <2>1. UNCHANGED <<seg, kv, waiting, active, batch, pin, tracker, out, pc, cur>>
    BY <1>5 DEF Finished, vars
  <2> QED
    BY <1>0, <2>1, StillStep DEF PTypeOK
<1> QED
  BY <1>1, <1>2, <1>3, <1>4, <1>5

\* What a launch makes of a task.
LEMMA LaunchedOf ==
  ASSUME seg \in Segments, NEW t \in TaskSet, NEW b \in Budgets
  PROVE  /\ Launched(t, b) \in LaunchedSet /\ Launched(t, b).task = t
         /\ Launched(t, b).budget = b /\ b \in Nat /\ Launched(t, b).status = "run"
<1>1. t.op \in Nat \ {0} /\ t.op <= Len(Ops[StageOf(t.ctx)]) /\ b \in Nat
  BY BoundsAssumption DEF TaskSet
<1> QED
  BY <1>1 DEF Launched, LaunchedSet, Statuses

\* Launching the head of a queue keeps the structure: the task changes its place.
LEMMA LaunchHeadStep ==
  ASSUME PTypeOK, Placed, Tree, NEW b \in Budgets, LaunchHead(b)
  PROVE  /\ PTypeOK' /\ Placed' /\ Tree' /\ Tasks' = Tasks
         /\ LET a == Launched(Head(waiting[cur]), b)
            IN /\ a \notin active /\ a.task \in Tasks /\ StageOf(a.task.ctx) = cur
               /\ a.budget = b /\ b \in Nat /\ a.status = "run" /\ cur \in StageIds
<1> DEFINE h == Head(waiting[cur])
           a == Launched(h, b)
<1>1. /\ cur \in Stages /\ waiting[cur] # <<>> /\ kv' = Charged(kv, cur, b)
      /\ active' = active \cup {a} /\ waiting' = [waiting EXCEPT ![cur] = Tail(@)]
      /\ UNCHANGED <<seg, batch, pin, tracker, out, pc, cur>>
  BY DEF LaunchHead
<1>2. /\ seg \in Segments /\ IsManager(kv) /\ waiting \in [Stages -> Seq(TaskSet)]
      /\ cur \in StageIds
  BY <1>1, SegmentFacts DEF PTypeOK
<1>3. a.task = h
  BY DEF Launched
<1>4. /\ waiting' \in [Stages -> Seq(TaskSet)] /\ PlacedIn(waiting', active')
      /\ TasksOf(waiting', active') = TasksOf(waiting, active) /\ a \notin active
      /\ a.task \in TaskSet /\ a.task \in TasksOf(waiting, active) /\ StageOf(a.task.ctx) = cur
  <2>1. PlacedIn(waiting, active)
    BY DEF Placed
  <2> HIDE DEF a, h
  <2>2. Launches(TaskSet, waiting, active, cur, a, waiting', active')
    BY <1>1, <1>2, <1>3, <2>1 DEF h, Launches
  <2> QED
    BY <2>2, PlaceLaunch, SMT
<1>5. a \in LaunchedSet /\ a.budget = b /\ b \in Nat /\ a.status = "run"
  BY <1>2, <1>3, <1>4, LaunchedOf
<1> HIDE DEF a, h
<1>6. IsManager(kv')
  BY <1>1, <1>2, <1>5, ChargeManager
<1>7. Placed'
  BY <1>1, <1>4 DEF Placed
<1>8. Tasks' = Tasks /\ Tasks = TasksOf(waiting, active)
  <2>1. Tasks' = TasksOf(waiting', active') /\ Tasks = TasksOf(waiting, active)
    BY DEF Tasks, TasksOf, Queued, Elems
  <2> QED
    BY <1>1, <1>4, <2>1
<1>9. PTypeOK'
  <2>1. active' \subseteq LaunchedSet /\ IsFiniteSet(active')
    BY <1>1, <1>5, FS_AddElement DEF PTypeOK
  <2>2. batch' \subseteq {x.task.ctx : x \in active'}
    BY <1>1 DEF PTypeOK
  <2> QED
    BY <1>1, <1>4, <1>6, <2>1, <2>2, TaskSetSame DEF PTypeOK
<1>10. Tree'
  BY <1>1, <1>8 DEF Tree
<1> QED
  BY <1>2, <1>3, <1>4, <1>5, <1>7, <1>8, <1>9, <1>10 DEF a, h

\* Forcing the heads of all queues does so for each of them.
LEMMA ForceLaunchStep ==
  ASSUME PTypeOK, Placed, Tree, NEW bs \in [Stages -> Budgets], ForceLaunch(bs)
  PROVE  /\ PTypeOK' /\ Placed' /\ Tree' /\ Tasks' = Tasks
         /\ LET blocked == {s \in Stages : waiting[s] # <<>>}
            IN \A s \in StageIds : At(active', s) =
                 IF s \in blocked THEN {Launched(Head(waiting[s]), bs[s])} ELSE {}
<1> DEFINE blocked == {s \in Stages : waiting[s] # <<>>}
           L(s) == Launched(Head(waiting[s]), bs[s])
           u == [s \in StageIds |-> kv.used[s] + (IF s \in blocked THEN bs[s] ELSE 0)]
           i == [s \in StageIds |-> kv.inflight[s] + (IF s \in blocked THEN 1 ELSE 0)]
<1>1. /\ active = {} /\ kv' = WithCounters(kv, u, i)
      /\ active' = {L(s) : s \in blocked}
      /\ waiting' = [s \in Stages |-> IF s \in blocked THEN Tail(waiting[s]) ELSE <<>>]
      /\ pc' = "top" /\ cur' = FirstStage
      /\ UNCHANGED <<seg, batch, pin, tracker, out>>
  BY DEF ForceLaunch, WithCounters
<1>2. /\ seg \in Segments /\ IsManager(kv) /\ waiting \in [Stages -> Seq(TaskSet)]
      /\ \A s \in Stages : Distinct(waiting[s]) /\ \A t \in Elems(waiting[s]) : StageOf(t.ctx) = s
  BY DEF PTypeOK, Placed, PlacedIn
<1>3. ASSUME NEW s \in blocked
      PROVE  /\ L(s) \in LaunchedSet /\ L(s).task = Head(waiting[s]) /\ L(s).budget = bs[s]
             /\ bs[s] \in Nat /\ Tail(waiting[s]) \in Seq(TaskSet) /\ Distinct(Tail(waiting[s]))
             /\ L(s).task \in Elems(waiting[s]) /\ StageOf(L(s).task.ctx) = s
             /\ Elems(Tail(waiting[s])) = Elems(waiting[s]) \ {L(s).task}
  <2>1. waiting[s] \in Seq(TaskSet) /\ waiting[s] # <<>> /\ Distinct(waiting[s]) /\ bs[s] \in Budgets
    BY <1>2
  <2>2. /\ Head(waiting[s]) \in TaskSet /\ Tail(waiting[s]) \in Seq(TaskSet)
        /\ Head(waiting[s]) \in Elems(waiting[s])
        /\ Elems(Tail(waiting[s])) = Elems(waiting[s]) \ {Head(waiting[s])}
        /\ Distinct(Tail(waiting[s]))
    BY <2>1, TailElems
  <2>3. /\ L(s) \in LaunchedSet /\ L(s).task = Head(waiting[s]) /\ L(s).budget = bs[s]
        /\ bs[s] \in Nat
    BY <1>2, <2>1, <2>2, LaunchedOf, SMT
  <2> QED
    BY <1>2, <2>2, <2>3
<1> HIDE DEF L
<1>4. <<>> \in Seq(TaskSet) /\ Distinct(<<>>) /\ Elems(<<>>) = {}
  BY SMT DEF Distinct, Elems
<1>5. \A s \in Stages \ blocked : waiting[s] = <<>> /\ waiting'[s] = <<>>
  BY <1>1
<1>6. \A s \in blocked : waiting'[s] = Tail(waiting[s])
  BY <1>1
<1>7. waiting' \in [Stages -> Seq(TaskSet)]
  BY <1>1, <1>3, <1>4
<1>8. \A a \in active' : \E s \in blocked : a = L(s)
  BY <1>1
<1>9. \A s \in blocked : L(s) \in active'
  BY <1>1
<1>10. IsFiniteSet(active') /\ active' \subseteq LaunchedSet
  <2> DEFINE f == [s \in blocked |-> L(s)]
  <2>1. f \in Surjection(blocked, active')
    BY <1>8, <1>9 DEF Surjection
  <2>2. IsFiniteSet(blocked)
    BY <1>2, SegmentFacts, FS_Subset
  <2> HIDE DEF f, blocked
  <2> QED
    BY <1>3, <1>8, <2>1, <2>2, FS_Surjection
<1>11. \A s \in StageIds : At(active', s) = IF s \in blocked THEN {L(s)} ELSE {}
  <2> TAKE s \in StageIds
  <2>1. \A a : a \in At(active', s) <=> s \in blocked /\ a = L(s)
    BY <1>3, <1>8, <1>9, SMT DEF At
  <2> QED
    BY <2>1
<1>12. \A s \in Stages : /\ Distinct(waiting'[s])
                         /\ \A t : t \in Elems(waiting'[s]) <=>
                              t \in Elems(waiting[s]) /\ (s \in blocked => t # L(s).task)
  BY <1>3, <1>4, <1>5, <1>6, SMT
<1> HIDE DEF blocked
<1>13. TasksOf(waiting', active') = TasksOf(waiting, active)
  <2>1. \A t : t \in TasksOf(waiting', active') <=> t \in TasksOf(waiting, active)
    <3> TAKE t
    <3>1. t \in TasksOf(waiting', active') <=>
            (\E a \in active' : t = a.task) \/ \E r \in Stages : t \in Elems(waiting'[r])
      BY DEF TasksOf
    <3>2. t \in TasksOf(waiting, active) <=> \E r \in Stages : t \in Elems(waiting[r])
      BY <1>1 DEF TasksOf
    <3>3. \A s \in blocked : s \in Stages
      BY DEF blocked
    <3>4. ASSUME NEW a \in active', t = a.task PROVE \E r \in Stages : t \in Elems(waiting[r])
      BY <1>3, <1>8, <3>3, <3>4
    <3>5. ASSUME NEW r \in Stages, t \in Elems(waiting'[r]) PROVE t \in Elems(waiting[r])
      BY <1>12, <3>5
    <3>6. ASSUME NEW r \in Stages, t \in Elems(waiting[r])
          PROVE  t \in Elems(waiting'[r]) \/ \E a \in active' : t = a.task
      BY <1>9, <1>12, <3>6
    <3> QED
      BY <3>1, <3>2, <3>4, <3>5, <3>6
  <2> QED
    BY <2>1
<1>14. Placed'
  <2>1. \A s \in Stages : Distinct(waiting'[s]) /\ \A t \in Elems(waiting'[s]) : StageOf(t.ctx) = s
    BY <1>2, <1>12
  <2>2. \A a, b \in active' : a.task = b.task => a = b
    BY <1>3, <1>8, SMT
  <2>3. \A a \in active' : \A s \in Stages : a.task \notin Elems(waiting'[s])
    <3> SUFFICES ASSUME NEW a \in active', NEW s \in Stages, a.task \in Elems(waiting'[s])
                 PROVE  FALSE
      OBVIOUS
    <3>1. PICK r \in blocked : a = L(r)
      BY <1>8
    <3>2. r = s
      BY <1>3, <2>1, <3>1, SMT
    <3> QED
      BY <1>12, <3>1, <3>2
  <2>4. IsFiniteSet(TasksOf(waiting', active'))
    BY <1>13 DEF Placed, PlacedIn
  <2> QED
    BY <2>1, <2>2, <2>3, <2>4 DEF Placed, PlacedIn
<1>15. Tasks' = Tasks
  BY <1>13 DEF Tasks, TasksOf, Queued, Elems
<1>16. Tree'
  BY <1>1, <1>15 DEF Tree
<1>17. IsManager(kv')
  <2>1. u \in [StageIds -> Nat] /\ i \in [StageIds -> Nat]
    BY <1>2, <1>3, SMT DEF IsManager
  <2> QED
    BY <1>1, <1>2, <2>1, ManagerFields
<1>18. PTypeOK'
  <2>1. batch' = {} /\ cur' \in FirstStage..(LastStage + 1)
    BY <1>1, SegmentAssumption, SMT DEF PTypeOK
  <2> QED
    BY <1>1, <1>7, <1>10, <1>17, <2>1, TaskSetSame DEF PTypeOK
<1> QED
  BY <1>11, <1>14, <1>15, <1>16, <1>18 DEF L, blocked

\* A launched task after its operator: same task, same budget.
LEMMA RunTask ==
  ASSUME PTypeOK, NEW a \in active, NEW b,
         \/ \E x \in Statuses : b = [a EXCEPT !.status = x]
         \/ b = [a EXCEPT !.at = @ + 1] /\ a.at < Len(Ops[StageOf(a.task.ctx)])
  PROVE  b \in LaunchedSet /\ b.task = a.task /\ b.budget = a.budget
<1>1. /\ a \in [task : TaskSet, budget : Nat, at : Nat \ {0}, status : Statuses]
      /\ a.at <= Len(Ops[StageOf(a.task.ctx)])
  BY LaunchedFacts DEF LaunchedSet
<1>2. Len(Ops[StageOf(a.task.ctx)]) \in Nat
  BY LaunchedFacts, SegmentFacts DEF PTypeOK
<1>3. CASE \E x \in Statuses : b = [a EXCEPT !.status = x]
  BY <1>1, <1>3 DEF LaunchedSet
<1>4. CASE b = [a EXCEPT !.at = @ + 1] /\ a.at < Len(Ops[StageOf(a.task.ctx)])
  <2>1. /\ b \in [task : TaskSet, budget : Nat, at : Nat \ {0}, status : Statuses]
        /\ b.task = a.task /\ b.budget = a.budget /\ b.at = a.at + 1
    BY <1>1, <1>4, SMT
  <2> QED
    BY <1>1, <1>2, <1>4, <2>1, SMT DEF LaunchedSet
<1> QED
  BY <1>3, <1>4

\* A launched task that goes on stays where it is.
LEMMA BecomesStep ==
  ASSUME PTypeOK, Placed, Tree, NEW a \in active, NEW b, Becomes(a, b),
         b \in LaunchedSet, b.task = a.task
  PROVE  /\ PTypeOK' /\ Placed' /\ Tree' /\ Tasks' = Tasks /\ b \notin active \ {a}
<1>1. /\ active' = (active \ {a}) \cup {b}
      /\ UNCHANGED <<seg, kv, waiting, batch, tracker, out, pc, cur>>
  BY DEF Becomes
<1>2. PlacedIn(waiting, active') /\ TasksOf(waiting, active') = TasksOf(waiting, active)
  <2>1. Continues(waiting, active, a, b, active')
    BY <1>1 DEF Continues, Placed
  <2> QED
    BY <2>1, PlaceRun
<1>3. Placed'
  BY <1>1, <1>2 DEF Placed
<1>4. Tasks' = Tasks
  <2>1. Tasks' = TasksOf(waiting', active') /\ Tasks = TasksOf(waiting, active)
    BY DEF Tasks, TasksOf, Queued, Elems
  <2> QED
    BY <1>1, <1>2, <2>1
<1>5. PTypeOK'
  <2>1. active' \subseteq LaunchedSet /\ IsFiniteSet(active')
    <3>1. IsFiniteSet(active \ {a})
      BY FS_RemoveElement DEF PTypeOK
    <3> QED
      BY <1>1, <3>1, FS_AddElement DEF PTypeOK
  <2>2. batch' \subseteq {x.task.ctx : x \in active'}
    BY <1>1 DEF PTypeOK
  <2> QED
    BY <1>1, <2>1, <2>2, TaskSetSame DEF PTypeOK
<1>6. Tree'
  BY <1>1, <1>4 DEF Tree
<1>7. b \notin active \ {a}
  BY DEF Placed, PlacedIn
<1> QED
  BY <1>3, <1>4, <1>5, <1>6, <1>7

\* What operators do to a launched task keeps the structure.
LEMMA RunSteps ==
  ASSUME PTypeOK, Placed, Tree, NEW a \in active,
         (\E passed \in BOOLEAN : RunOp(a, passed)) \/ MapRetries(a) \/ OpRaises(a)
  PROVE  \E b \in LaunchedSet :
           /\ Becomes(a, b) /\ b.task = a.task /\ b.budget = a.budget
           /\ b \notin active \ {a}
           /\ PTypeOK' /\ Placed' /\ Tree' /\ Tasks' = Tasks
<1>0. a.at \in Nat /\ Len(Ops[StageOf(a.task.ctx)]) \in Nat
      /\ a.at <= Len(Ops[StageOf(a.task.ctx)])
  BY LaunchedFacts, SegmentFacts DEF PTypeOK
<1>1. PICK b : /\ Becomes(a, b)
               /\ \/ \E x \in Statuses : b = [a EXCEPT !.status = x]
                  \/ b = [a EXCEPT !.at = @ + 1] /\ a.at < Len(Ops[StageOf(a.task.ctx)])
  <2>1. CASE \E passed \in BOOLEAN : RunOp(a, passed)
    <3> DEFINE s == StageOf(a.task.ctx)
    <3>1. PICK passed \in BOOLEAN : RunOp(a, passed)
      BY <2>1
    <3> DEFINE b == IF ~passed /\ Ops[s][a.at] \in Predicates THEN [a EXCEPT !.status = "drop"]
                    ELSE IF a.at = Len(Ops[s]) THEN [a EXCEPT !.status = "pass"]
                    ELSE [a EXCEPT !.at = @ + 1]
    <3>2. Becomes(a, b)
      BY <3>1 DEF RunOp
    <3>3. \/ \E x \in Statuses : b = [a EXCEPT !.status = x]
          \/ b = [a EXCEPT !.at = @ + 1] /\ a.at < Len(Ops[s])
      BY <1>0, SMT DEF Statuses
    <3> QED
      BY <3>2, <3>3
  <2>2. CASE MapRetries(a)
    BY <2>2 DEF MapRetries, Statuses
  <2>3. CASE OpRaises(a)
    BY <2>3 DEF OpRaises, Statuses
  <2> QED
    BY <2>1, <2>2, <2>3
<1>2. b \in LaunchedSet /\ b.task = a.task /\ b.budget = a.budget
  BY <1>1, RunTask
<1> QED
  BY <1>1, <1>2, BecomesStep

\* What every handler does first, and what it finds.
LEMMA DetachFacts ==
  ASSUME PTypeOK, Placed, Tree, NEW a, NEW st, Detach(a, st)
  PROVE  /\ a \in active /\ active' = active \ {a} /\ UNCHANGED <<seg, cur>>
         /\ pc = "handle" /\ a.status = st
         /\ PlacedIn(waiting, active') /\ TasksOf(waiting, active') = Tasks \ {a.task}
         /\ a.task \in Tasks /\ IsFiniteSet(Tasks)
         /\ active' \subseteq LaunchedSet /\ IsFiniteSet(active')
         /\ batch' \subseteq {x.task.ctx : x \in active'}
         /\ a.task.trackers \subseteq DOMAIN tracker /\ a.task.ctx \notin DOMAIN tracker
<1>1. /\ a \in active /\ active' = active \ {a} /\ UNCHANGED <<seg, cur>>
      /\ pc = "handle" /\ a.status = st /\ batch' = batch \ {a.task.ctx}
  BY DEF Detach
<1>2. Tasks = TasksOf(waiting, active) /\ \A t \in Tasks : t.ctx \in Seq(Nat)
  BY TasksTyped
<1>3. /\ PlacedIn(waiting, active') /\ a.task \in TasksOf(waiting, active)
      /\ TasksOf(waiting, active') = TasksOf(waiting, active) \ {a.task}
  <2>1. Ends(waiting, active, a, active')
    BY <1>1 DEF Placed, Ends
  <2> QED
    BY <2>1, PlaceEnd, SMT
<1>4. active' \subseteq LaunchedSet /\ IsFiniteSet(active')
  BY <1>1, FS_RemoveElement DEF PTypeOK
<1>5. batch' \subseteq {x.task.ctx : x \in active'}
  BY <1>1 DEF PTypeOK
<1>6. a.task.trackers \subseteq DOMAIN tracker /\ a.task.ctx \notin DOMAIN tracker
  BY <1>2, <1>3, AboveSelf DEF Tree, TreeOver
<1>7. IsFiniteSet(Tasks)
  BY <1>2 DEF Placed, PlacedIn
<1> QED
  BY <1>1, <1>2, <1>3, <1>4, <1>5, <1>6, <1>7

\* The trackers after a handler: those there were, and perhaps one of c.
Grown(trk, new, c) ==
  /\ new \in [DOMAIN new -> Trackers]
  /\ DOMAIN trk \subseteq DOMAIN new /\ DOMAIN new \subseteq DOMAIN trk \cup {c}

\* The types after a handler.
LEMMA HandledTypes ==
  ASSUME PTypeOK, Placed, Tree, NEW a, NEW st, Detach(a, st), IsManager(kv'),
         waiting' \in [Stages -> Seq(TaskSet)], Grown(tracker, tracker', a.task.ctx),
         pc' \in {"top", "handle", "failed"}
  PROVE  PTypeOK'
<1>1. /\ active' \subseteq LaunchedSet /\ IsFiniteSet(active') /\ UNCHANGED <<seg, cur>>
      /\ batch' \subseteq {x.task.ctx : x \in active'} /\ a \in active
  BY DetachFacts
<1>2. a.task.ctx \in Seq(Nat)
  BY <1>1, LaunchedFacts
<1>3. DOMAIN tracker' \subseteq Seq(Nat) /\ tracker' \in [DOMAIN tracker' -> Trackers]
  BY <1>2 DEF PTypeOK, Grown
<1>4. IsFiniteSet(DOMAIN tracker')
  <2> DEFINE E == DOMAIN tracker \cup {a.task.ctx}
  <2>1. IsFiniteSet(E)
    BY FS_AddElement DEF PTypeOK
  <2>2. DOMAIN tracker' \subseteq E
    BY DEF Grown
  <2> HIDE DEF E
  <2> QED
    BY <2>1, <2>2, FS_Subset
<1> QED
  BY <1>1, <1>3, <1>4, TaskSetSame DEF PTypeOK

\* Handlers that queue nothing.
LEMMA EndStep ==
  ASSUME PTypeOK, Placed, Tree, NEW a, NEW st, Detach(a, st), UNCHANGED waiting,
         IsManager(kv'), Grown(tracker, tracker', a.task.ctx),
         pc' \in {"top", "handle", "failed"}
  PROVE  PTypeOK' /\ Placed' /\ Tree' /\ Tasks' = Tasks \ {a.task}
<1>1. /\ PlacedIn(waiting, active') /\ TasksOf(waiting, active') = Tasks \ {a.task}
      /\ a.task \in Tasks
  BY DetachFacts
<1>2. PTypeOK'
  BY HandledTypes DEF PTypeOK
<1>3. Placed'
  BY <1>1 DEF Placed
<1>4. Tasks' = Tasks \ {a.task}
  <2>1. Tasks' = TasksOf(waiting', active')
    BY DEF Tasks, TasksOf, Queued, Elems
  <2> QED
    BY <1>1, <2>1
<1>5. Tree'
  <2>1. TreeOver(Tasks, DOMAIN tracker) /\ DOMAIN tracker \subseteq Seq(Nat)
    BY DEF Tree, PTypeOK
  <2>2. \A u \in Tasks : u.ctx \in Seq(Nat)
    BY TasksTyped
  <2>3. FansOut(Tasks, DOMAIN tracker, a.task, {}, DOMAIN tracker', Tasks')
    BY <1>1, <1>4, <2>1, <2>2 DEF Grown, FansOut
  <2> QED
    BY <2>3, TreeGrows DEF Tree
<1> QED
  BY <1>2, <1>3, <1>4, <1>5

\* The tracker of a deferred parent.
LEMMA NewTracker ==
  ASSUME PTypeOK, Placed, Tree, NEW a, NEW st, Detach(a, st), NEW n \in Nat
  PROVE  LET c == a.task.ctx
             trk == WithTracker(a, n)
         IN /\ Grown(tracker, trk, c) /\ Carried(a) \subseteq DOMAIN trk
            /\ \A p \in DOMAIN tracker : trk[p] = tracker[p] /\ p # c
            /\ Deferred(a) => c \in DOMAIN trk /\ trk[c] = [pending |-> n, budget |-> a.budget]
            /\ ~Deferred(a) => trk = tracker
<1> DEFINE c == a.task.ctx
           trk == WithTracker(a, n)
<1>1. /\ a \in active /\ a.task.trackers \subseteq DOMAIN tracker
      /\ c \notin DOMAIN tracker
  BY DetachFacts
<1>2. a.budget \in Nat
  BY <1>1, LaunchedFacts
<1>3. tracker \in [DOMAIN tracker -> Trackers]
  BY DEF PTypeOK
<1>4. CASE Deferred(a)
  <2>1. trk = [p \in DOMAIN tracker \cup {c} |->
                 IF p = c THEN [pending |-> n, budget |-> a.budget] ELSE tracker[p]]
    BY <1>4 DEF WithTracker
  <2>2. DOMAIN trk = DOMAIN tracker \cup {c}
    BY <2>1
  <2>3. /\ \A p \in DOMAIN tracker : trk[p] = tracker[p] /\ p # c
        /\ trk[c] = [pending |-> n, budget |-> a.budget]
    BY <1>1, <2>1
  <2>4. [pending |-> n, budget |-> a.budget] \in Trackers
    BY <1>2, SMT DEF Trackers
  <2>5. trk \in [DOMAIN tracker \cup {c} -> Trackers]
    BY <1>3, <2>1, <2>4
  <2>6. Carried(a) \subseteq DOMAIN trk
    BY <1>1, <2>2 DEF Carried
  <2> HIDE DEF trk
  <2> QED
    BY <1>4, <2>2, <2>3, <2>5, <2>6 DEF Grown, trk
<1>5. CASE ~Deferred(a)
  <2>1. trk = tracker /\ Carried(a) = a.task.trackers
    BY <1>5 DEF WithTracker, Carried
  <2> HIDE DEF trk
  <2> QED
    BY <1>1, <1>3, <1>5, <2>1 DEF Grown, trk
<1> QED
  BY <1>4, <1>5

\* Counting down adds and removes no tracker.
LEMMA CountDownGrown ==
  ASSUME NEW trk, NEW new, NEW c, Grown(trk, new, c), NEW T \in SUBSET DOMAIN new,
         NEW n \in Nat \ {0}
  PROVE  Grown(trk, CountedDown(new, T, n), c)
<1>1. new \in [DOMAIN new -> Trackers]
  BY DEF Grown
<1>2. /\ DOMAIN CountedDown(new, T, n) = DOMAIN new
      /\ CountedDown(new, T, n) \in [DOMAIN CountedDown(new, T, n) -> Trackers]
  BY <1>1, CountDown
<1> QED
  BY <1>2 DEF Grown
-----------------------------------------------------------------------------
(* The counters and the books along with the structure. *)

Sound == PTypeOK /\ Placed /\ Tree /\ Counted /\ Ledger

\* The ledger in the form of the lemmas on books.
LEMMA BooksBefore ==
  ASSUME PTypeOK, Ledger, pc # "failed"
  PROVE  Books(kv, active, tracker, Open)
<1>1. Balanced(kv, active, tracker, Open)
  BY DEF Ledger, Balanced, Held, StagedAt
<1> QED
  BY <1>1, LedgerTypes DEF Books

\* And back.
LEMMA BooksAfter ==
  ASSUME Books(kv', active', tracker', OpenOf(tracker'))
  PROVE  Ledger'
<1>1. Balanced(kv', active', tracker', OpenOf(tracker'))
  BY DEF Books
<1> QED
  BY <1>1 DEF Ledger, Balanced, Held, StagedAt, Open, OpenOf

\* Giving a budget back leaves a manager.
LEMMA FreedManager ==
  ASSUME PTypeOK, NEW a \in active, NEW m, IsManager(m)
  PROVE  IsManager(Freed(m, a))
BY LaunchedFacts, ReleaseManager DEF Freed

\* A task ends and its trackers are counted down.
LEMMA SettledStep ==
  ASSUME Sound, NEW a, NEW st, Detach(a, st), UNCHANGED waiting,
         tracker' = CountedDown(tracker, a.task.trackers, 1), pc' \in {"top", "handle"},
         LET closing == Closing(tracker, a.task.trackers, 1)
         IN \/ kv' = Refunded(Rebalanced(Freed(kv, a), waiting, active'), tracker, closing)
            \/ kv' = Rebalanced(Freed(Refunded(kv, tracker, closing), a), waiting, active')
  PROVE  /\ Sound' /\ Tasks' = Tasks \ {a.task}
         /\ Open' = Open \ Closing(tracker, a.task.trackers, 1)
<1> DEFINE T == a.task.trackers
           closing == Closing(tracker, T, 1)
<1>0. PTypeOK /\ Placed /\ Tree /\ Counted /\ Ledger
  BY DEF Sound
<1>1. /\ a \in active /\ active' = active \ {a} /\ pc = "handle"
      /\ a.task \in Tasks /\ IsFiniteSet(Tasks) /\ T \subseteq DOMAIN tracker
  BY <1>0, DetachFacts
<1>2. tracker \in [DOMAIN tracker -> Trackers] /\ Open = OpenOf(tracker)
  BY <1>0, LedgerTypes DEF PTypeOK
<1>3. /\ DOMAIN tracker' = DOMAIN tracker /\ tracker' \in [DOMAIN tracker' -> Trackers]
      /\ SameBudgets(tracker', tracker)
      /\ closing \subseteq Open /\ OpenOf(tracker') = Open \ closing
  <2> DEFINE one == 1
  <2>1. /\ tracker' = CountedDown(tracker, T, one) /\ T \in SUBSET DOMAIN tracker
        /\ closing = Closing(tracker, T, one) /\ one \in Nat \ {0}
    BY <1>1, SMT
  <2> HIDE DEF T, closing, one
  <2>2. DOMAIN tracker' = DOMAIN tracker /\ tracker' \in [DOMAIN tracker' -> Trackers]
    <3>1. /\ DOMAIN CountedDown(tracker, T, one) = DOMAIN tracker
          /\ CountedDown(tracker, T, one) \in [DOMAIN CountedDown(tracker, T, one) -> Trackers]
      BY <1>2, <2>1, CountDown
    <3> QED
      BY <2>1, <3>1
  <2>3. SameBudgets(tracker', tracker)
    BY <1>2, <2>1, CountDown, SMT
  <2>4. closing \subseteq Open /\ OpenOf(tracker') = Open \ closing
    BY <1>2, <2>1, CountDown
  <2> QED
    BY <2>2, <2>3, <2>4
<1>4. Grown(tracker, tracker', a.task.ctx)
  BY <1>3 DEF Grown
<1>5. StageOf(a.task.ctx) \in StageIds
  BY <1>0, <1>1, LaunchedFacts
<1>6. Books(kv, active, tracker, Open)
  BY <1>0, <1>1, BooksBefore
<1> HIDE DEF closing, T
<1>7. Books(kv', active', tracker, Open \ closing)
  <2>1. CASE kv' = Refunded(Rebalanced(Freed(kv, a), waiting, active'), tracker, closing)
    <3> DEFINE m == Freed(kv, a)
               n == Rebalanced(m, waiting, active')
    <3>1. Books(m, active', tracker, Open)
      BY <1>1, <1>5, <1>6, BooksFree
    <3> HIDE DEF m
    <3>2. Books(n, active', tracker, Open)
      BY <3>1, BooksRebalance
    <3>3. kv' = Refunded(n, tracker, closing)
      BY <2>1 DEF m
    <3> HIDE DEF n
    <3> QED
      BY <1>3, <3>2, <3>3, BooksRefund
  <2>2. CASE kv' = Rebalanced(Freed(Refunded(kv, tracker, closing), a), waiting, active')
    <3> DEFINE m == Refunded(kv, tracker, closing)
               n == Freed(m, a)
    <3>1. Books(m, active, tracker, Open \ closing)
      BY <1>3, <1>6, BooksRefund
    <3> HIDE DEF m
    <3>2. Books(n, active', tracker, Open \ closing)
      BY <1>1, <1>5, <3>1, BooksFree
    <3>3. kv' = Rebalanced(n, waiting, active')
      BY <2>2 DEF m
    <3> HIDE DEF n
    <3> QED
      BY <3>2, <3>3, BooksRebalance
  <2> QED
    BY <2>1, <2>2 DEF closing, T
<1>8. Books(kv', active', tracker', OpenOf(tracker'))
  <2> DEFINE R == Open \ closing
  <2>1. Books(kv', active', tracker, R) /\ OpenOf(tracker') = R
    BY <1>3, <1>7
  <2>2. \A p \in R : tracker'[p].budget = tracker[p].budget
    BY <1>2, <1>3 DEF OpenOf, SameBudgets
  <2> HIDE DEF R
  <2>3. Books(kv', active', tracker', R)
    BY <2>1, <2>2, BooksSame
  <2> QED
    BY <2>1, <2>3
<1>9. Ledger'
  BY <1>8, BooksAfter
<1>10. PTypeOK' /\ Placed' /\ Tree' /\ Tasks' = Tasks \ {a.task}
  <2>1. IsManager(kv')
    BY <1>8 DEF Books
  <2> QED
    BY <1>0, <1>4, <2>1, EndStep
<1>11. Counted'
  <2>1. CountedOver(Tasks, tracker)
    BY <1>0, <1>1 DEF Counted
  <2>2. CountedOver(Tasks \ {a.task}, CountedDown(tracker, T, 1))
    <3>1. 1 \in Nat \ {0}
      BY SMT
    <3> QED
      BY <1>1, <1>2, <2>1, <3>1, CountedEnd DEF T
  <2> QED
    BY <1>10, <2>2 DEF Counted, T
<1>12. Open' = Open \ closing
  BY <1>3 DEF Open, OpenOf
<1> QED
  BY <1>9, <1>10, <1>11, <1>12 DEF Sound, closing, T

\* After a handler the loop goes on.
LEMMA NextPcIn ==
  ASSUME NEW a
  PROVE  NextPc(a) \in {"top", "handle"}
BY DEF NextPc

\* The handlers that end a task keep the structure and the books.
LEMMA SettledHandlers ==
  ASSUME Sound, NEW a, HandleDrop(a) \/ HandleEmit(a) \/ HandleNoChildren(a)
  PROVE  /\ Sound' /\ Tasks' = Tasks \ {a.task}
         /\ Open' = Open \ Closing(tracker, a.task.trackers, 1)
<1>1. CASE HandleDrop(a)
  <2>1. /\ Detach(a, "drop") /\ UNCHANGED waiting
        /\ tracker' = CountedDown(tracker, a.task.trackers, 1) /\ pc' = NextPc(a)
        /\ kv' = Refunded(Rebalanced(Freed(kv, a), waiting, active'), tracker,
                          Closing(tracker, a.task.trackers, 1))
    BY <1>1 DEF HandleDrop, Finalize
  <2> QED
    BY <2>1, NextPcIn, SettledStep
<1>2. CASE HandleEmit(a)
  <2>1. /\ Detach(a, "pass") /\ UNCHANGED waiting
        /\ tracker' = CountedDown(tracker, a.task.trackers, 1) /\ pc' = NextPc(a)
        /\ kv' = Rebalanced(Freed(Refunded(kv, tracker,
                              Closing(tracker, a.task.trackers, 1)), a), waiting, active')
    BY <1>2 DEF HandleEmit
  <2> QED
    BY <2>1, NextPcIn, SettledStep
<1>3. CASE HandleNoChildren(a)
  <2>1. /\ Detach(a, "pass") /\ UNCHANGED waiting
        /\ tracker' = CountedDown(tracker, a.task.trackers, 1) /\ pc' = NextPc(a)
        /\ kv' = Refunded(Rebalanced(Freed(kv, a), waiting, active'), tracker,
                          Closing(tracker, a.task.trackers, 1))
    BY <1>3 DEF HandleNoChildren
  <2> QED
    BY <2>1, NextPcIn, SettledStep
<1> QED
  BY <1>1, <1>2, <1>3

\* The handlers that raise keep the structure; of the books nothing is said then.
LEMMA RaisingHandlers ==
  ASSUME Sound, NEW a, HandleError(a) \/ FanoutRaises(a)
  PROVE  Sound' /\ Tasks' = Tasks \ {a.task} /\ tracker' = tracker
<1>0. PTypeOK /\ Placed /\ Tree
  BY DEF Sound
<1>1. PICK st : Detach(a, st)
  BY DEF HandleError, FanoutRaises
<1>2. UNCHANGED <<waiting, tracker>> /\ pc' = "failed"
  BY DEF HandleError, FanoutRaises
<1>3. IsManager(kv')
  <2>1. a \in active /\ IsManager(kv)
    BY <1>0, <1>1, DetachFacts DEF PTypeOK
  <2>2. kv' = kv \/ kv' = Freed(kv, a)
    BY DEF HandleError, FanoutRaises
  <2> QED
    BY <1>0, <2>1, <2>2, FreedManager
<1>4. Grown(tracker, tracker', a.task.ctx)
  BY <1>0, <1>2 DEF Grown, PTypeOK
<1>5. PTypeOK' /\ Placed' /\ Tree' /\ Tasks' = Tasks \ {a.task}
  BY <1>0, <1>1, <1>2, <1>3, <1>4, EndStep
<1> QED
  BY <1>2, <1>5 DEF Sound, Counted, Ledger

\* Handlers that queue tasks.
LEMMA QueueStep ==
  ASSUME PTypeOK, Placed, Tree, NEW a, NEW st, Detach(a, st), IsManager(kv'),
         Grown(tracker, tracker', a.task.ctx), pc' \in {"top", "handle", "failed"},
         NEW s, NEW q, NEW K, Queues(TaskSet, waiting, active', s, q, K, waiting'),
         NEW U, U = (Tasks \ {a.task}) \cup K, TreeOver(U, DOMAIN tracker')
  PROVE  PTypeOK' /\ Placed' /\ Tree' /\ Tasks' = U
<1>1. TasksOf(waiting, active') = Tasks \ {a.task}
  BY DetachFacts
<1>2. /\ waiting' \in [Stages -> Seq(TaskSet)] /\ PlacedIn(waiting', active')
      /\ TasksOf(waiting', active') = TasksOf(waiting, active') \cup K
  BY PlaceQueue, SMT
<1>3. Tasks' = TasksOf(waiting', active')
  BY DEF Tasks, TasksOf, Queued, Elems
<1>4. PTypeOK'
  BY <1>2, HandledTypes
<1>5. Tasks' = U
  BY <1>1, <1>2, <1>3
<1> QED
  BY <1>2, <1>4, <1>5 DEF Placed, Tree

\* A task that ends leaves its place for tasks of some stage.
LEMMA RoomFor ==
  ASSUME PTypeOK, Placed, Tree, NEW a, NEW st, Detach(a, st), NEW s \in Stages, NEW K,
         IsFiniteSet(K), K \cap (Tasks \ {a.task}) = {}, \A t \in K : StageOf(t.ctx) = s,
         NEW q \in Seq(TaskSet), Distinct(q), Elems(q) = Elems(waiting[s]) \cup K,
         waiting' = [waiting EXCEPT ![s] = q]
  PROVE  Queues(TaskSet, waiting, active', s, q, K, waiting')
<1>1. PlacedIn(waiting, active') /\ TasksOf(waiting, active') = Tasks \ {a.task}
  BY DetachFacts
<1>2. waiting \in [Stages -> Seq(TaskSet)]
  BY DEF PTypeOK
<1> QED
  BY <1>1, <1>2 DEF Queues

\* The queues a handler finds.
LEMMA QueueFacts ==
  ASSUME PTypeOK, Placed, Tree, NEW a, NEW st, Detach(a, st), NEW s \in Stages
  PROVE  /\ waiting[s] \in Seq(TaskSet) /\ Distinct(waiting[s])
         /\ Elems(waiting[s]) \subseteq Tasks \ {a.task}
<1>1. PlacedIn(waiting, active') /\ TasksOf(waiting, active') = Tasks \ {a.task}
  BY DetachFacts
<1>2. waiting[s] \in Seq(TaskSet)
  BY DEF PTypeOK
<1>3. Distinct(waiting[s])
  BY <1>1 DEF PlacedIn
<1>4. Elems(waiting[s]) \subseteq TasksOf(waiting, active')
  BY DEF TasksOf
<1> QED
  BY <1>1, <1>2, <1>3, <1>4

RetryOf(a) == Task(a.task.ctx, a.at, TRUE, a.task.trackers)

\* The handler of a retry puts a new task of the same context in place of the old.
LEMMA RetryHandler ==
  ASSUME Sound, NEW a, HandleRetry(a)
  PROVE  Sound' /\ Tasks' = (Tasks \ {a.task}) \cup {RetryOf(a)} /\ Open' = Open
<1> DEFINE s == StageOf(a.task.ctx)
           u == RetryOf(a)
           q == Enqueued(waiting[s], u)
           U == (Tasks \ {a.task}) \cup {u}
           m == Freed(kv, a)
<1>0. PTypeOK /\ Placed /\ Tree /\ Counted /\ Ledger
  BY DEF Sound
<1>1. /\ Detach(a, "retry") /\ waiting' = [waiting EXCEPT ![s] = q]
      /\ kv' = Rebalanced(m, waiting', active') /\ pc' = NextPc(a)
      /\ tracker' = tracker
  BY DEF HandleRetry, RetryOf
<1>2. /\ a \in active /\ active' = active \ {a} /\ pc = "handle"
      /\ a.task \in Tasks /\ IsFiniteSet(Tasks)
  BY <1>0, <1>1, DetachFacts
<1>3. /\ s \in Stages /\ s \in StageIds /\ a.task \in TaskSet /\ a.at \in Nat \ {0}
      /\ a.at <= Len(Ops[s]) /\ a.task.ctx \in Seq(Nat)
  BY <1>0, <1>2, LaunchedFacts
<1>4. /\ u.ctx = a.task.ctx /\ u.trackers = a.task.trackers /\ u \in TaskSet
  BY <1>3 DEF RetryOf, Task, TaskSet
<1> HIDE DEF u, s, U, m
<1>5. TreeOver(U, DOMAIN tracker) /\ u \notin Tasks \ {a.task}
  <2> DEFINE t == a.task
             T == Tasks
             D == DOMAIN tracker
  <2>1. /\ TreeOver(T, D) /\ U = (T \ {t}) \cup {u} /\ t \in T
        /\ u.ctx = t.ctx /\ u.trackers = t.trackers /\ t.ctx \in Seq(Nat)
    BY <1>0, <1>2, <1>3, <1>4 DEF Tree, U
  <2> HIDE DEF t, T, D
  <2>2. TreeOver(U, D) /\ u \notin T \ {t}
    BY <2>1, TreeRetry, SMT
  <2> QED
    BY <2>2 DEF t, T, D
<1>6. /\ waiting[s] \in Seq(TaskSet) /\ Distinct(waiting[s])
      /\ Elems(waiting[s]) \subseteq Tasks \ {a.task}
  BY <1>0, <1>1, <1>3, QueueFacts
<1>7. /\ q \in Seq(TaskSet) /\ Elems(q) = Elems(waiting[s]) \cup {u} /\ Distinct(q)
  BY <1>4, <1>5, <1>6, EnqueuedElems
<1> HIDE DEF q
<1>8. Queues(TaskSet, waiting, active', s, q, {u}, waiting')
  <2>1. IsFiniteSet({u}) /\ {u} \cap (Tasks \ {a.task}) = {} /\ \A t \in {u} : StageOf(t.ctx) = s
    BY <1>4, <1>5, FS_Singleton DEF s
  <2> QED
    BY <1>0, <1>1, <1>3, <1>7, <2>1, RoomFor
<1>9. Books(kv', active', tracker, Open)
  <2>1. Books(kv, active, tracker, Open)
    BY <1>0, <1>2, BooksBefore
  <2>2. Books(m, active', tracker, Open)
    BY <1>2, <1>3, <2>1, BooksFree DEF m, s
  <2> QED
    BY <1>1, <2>2, BooksRebalance
<1>10. Open' = Open /\ Open = OpenOf(tracker)
  BY <1>1 DEF Open, OpenOf
<1>11. Ledger'
  BY <1>1, <1>9, <1>10, BooksAfter
<1>12. PTypeOK' /\ Placed' /\ Tree' /\ Tasks' = U
  <2>1. IsManager(kv')
    BY <1>9 DEF Books
  <2>2. Grown(tracker, tracker', a.task.ctx)
    BY <1>0, <1>1 DEF Grown, PTypeOK
  <2>3. pc' \in {"top", "handle", "failed"}
    BY <1>1, NextPcIn
  <2>4. U = (Tasks \ {a.task}) \cup {u} /\ TreeOver(U, DOMAIN tracker')
    BY <1>1, <1>5 DEF U
  <2> QED
    BY <1>0, <1>1, <1>8, <2>1, <2>2, <2>3, <2>4, QueueStep
<1>13. Counted'
  <2>1. CountedOver(Tasks, tracker) /\ tracker \in [DOMAIN tracker -> Trackers]
    BY <1>0, <1>2 DEF Counted, PTypeOK
  <2>2. /\ IsFiniteSet({u}) /\ {u} # {} /\ {u} \cap (Tasks \ {a.task}) = {}
        /\ \A t \in {u} : a.task.trackers \subseteq t.trackers
    BY <1>4, <1>5, FS_Singleton
  <2>3. CountedOver((Tasks \ {a.task}) \cup {u}, tracker)
    BY <1>2, <2>1, <2>2, CountedReplaced
  <2> QED
    BY <1>1, <1>12, <2>3 DEF Counted, U
<1> QED
  BY <1>10, <1>11, <1>12, <1>13 DEF Sound, U, u

\* The books once a pinned parent's budget is its tracker's.
LEMMA HandOver ==
  ASSUME Sound, NEW a, NEW st, Detach(a, st), NEW n \in Nat \ {0},
         NEW trk, trk = WithTracker(a, n)
  PROVE  /\ Grown(tracker, trk, a.task.ctx) /\ Carried(a) \subseteq DOMAIN trk
         /\ OpenOf(trk) = Open \cup (IF Deferred(a) THEN {a.task.ctx} ELSE {})
         /\ IF Deferred(a) THEN Books(kv, active', trk, OpenOf(trk))
                           ELSE Books(kv, active, trk, OpenOf(trk))
<1> DEFINE c == a.task.ctx
<1>0. PTypeOK /\ Placed /\ Tree /\ Counted /\ Ledger
  BY DEF Sound
<1>1. /\ a \in active /\ active' = active \ {a} /\ pc = "handle" /\ c \notin DOMAIN tracker
  BY <1>0, DetachFacts
<1>2. /\ Grown(tracker, trk, c) /\ Carried(a) \subseteq DOMAIN trk
      /\ \A p \in DOMAIN tracker : trk[p] = tracker[p] /\ p # c
      /\ Deferred(a) => c \in DOMAIN trk /\ trk[c] = [pending |-> n, budget |-> a.budget]
      /\ ~Deferred(a) => trk = tracker
  BY <1>0, NewTracker, SMT
<1>3. Books(kv, active, tracker, Open)
  BY <1>0, <1>1, BooksBefore
<1>4. CASE Deferred(a)
  <2>1. trk[c].pending = n /\ trk[c].budget = a.budget /\ c \in DOMAIN trk
    BY <1>2, <1>4, SMT
  <2>2. OpenOf(trk) = Open \cup {c}
    BY <1>2, <2>1, SMT DEF OpenOf, Open, Grown
  <2>3. HandedOver(tracker, trk, Open, a) /\ c \notin Open
    BY <1>1, <1>2, <2>1 DEF HandedOver, Open
  <2>4. Books(kv, active', trk, OpenOf(trk))
    BY <1>1, <1>3, <2>2, <2>3, BooksHandOver
  <2> QED
    BY <1>2, <1>4, <2>2, <2>4
<1>5. CASE ~Deferred(a)
  <2>1. trk = tracker /\ OpenOf(trk) = Open
    BY <1>2, <1>5 DEF OpenOf, Open
  <2> QED
    BY <1>2, <1>3, <1>5, <2>1
<1> QED
  BY <1>4, <1>5

\* The children of a context, as tasks.
LEMMA NewChildren ==
  ASSUME PTypeOK, Placed, Tree, NEW a, NEW st, Detach(a, st), NEW n \in Nat \ {0},
         StageOf(a.task.ctx) < LastStage, Carried(a) \subseteq Seq(Nat)
  PROVE  LET q == Children(a.task.ctx, n, Carried(a))
         IN /\ StageOf(a.task.ctx) + 1 \in Stages
            /\ q \in Seq(TaskSet) /\ Distinct(q)
            /\ Brood(Elems(q), a.task.ctx, n, Carried(a))
            /\ \A u \in Elems(q) : StageOf(u.ctx) = StageOf(a.task.ctx) + 1
<1> DEFINE c == a.task.ctx
           C == Carried(a)
           s == StageOf(c)
           q == Children(c, n, C)
<1>1. a \in active
  BY DetachFacts
<1>2. c \in Seq(Nat) /\ s \in Stages
  BY <1>1, LaunchedFacts
<1>3. seg \in Segments
  BY DEF PTypeOK
<1>4. s + 1 \in Stages
  BY <1>2, <1>3, SegmentFacts, SMT DEF Stages
<1>5. ASSUME NEW j \in Nat
      PROVE  Append(c, j) \in Seq(Nat) /\ StageOf(Append(c, j)) = s + 1
  BY <1>2, ContextFacts
<1>6. Len(Ops[s + 1]) \in Nat \ {0}
  BY <1>3, <1>4, SegmentFacts
<1> HIDE DEF c, s, C
<1>7. ASSUME NEW j \in 1..n PROVE Task(Append(c, j), 1, FALSE, C) \in TaskSet
  <2>1. Append(c, j) \in Ctx
    BY <1>4, <1>5, SMT DEF Ctx
  <2>2. 1 <= Len(Ops[StageOf(Append(c, j))])
    BY <1>5, <1>6, SMT
  <2>3. C \in SUBSET Seq(Nat)
    BY DEF C
  <2> DEFINE d == Append(c, j)
             u == Task(d, 1, FALSE, C)
  <2> HIDE DEF d
  <2>4. u \in [ctx : Ctx, op : Nat \ {0}, retry : BOOLEAN, trackers : SUBSET Seq(Nat)]
    BY <2>1, <2>3, SMT DEF d, Task
  <2>5. u.op = 1 /\ u.ctx = d
    BY DEF Task
  <2>6. 1 <= Len(Ops[StageOf(d)])
    BY <2>2 DEF d
  <2> HIDE DEF u
  <2>7. u \in TaskSet
    BY <2>4, <2>5, <2>6 DEF TaskSet
  <2> QED
    BY <2>7 DEF u, d
<1>8. q \in Seq(TaskSet) /\ Distinct(q) /\ Brood(Elems(q), c, n, C)
  <2>1. c \in Seq(Nat) /\ n \in Nat
    BY <1>2
  <2>2. ChildrenIn(TaskSet, c, n, C)
    BY <1>7 DEF ChildrenIn
  <2> QED
    BY <2>1, <2>2, ChildTasks
<1> HIDE DEF q
<1>9. ASSUME NEW u \in Elems(q) PROVE StageOf(u.ctx) = s + 1
  <2>1. u.ctx \in {Append(c, j) : j \in 1..n}
    BY <1>8 DEF Brood
  <2>2. PICK j \in 1..n : u.ctx = Append(c, j)
    BY <2>1
  <2> QED
    BY <1>5, <2>2, SMT
<1> QED
  BY <1>4, <1>8, <1>9 DEF q, c, s, C

-----------------------------------------------------------------------------
(* The steps that fan out, launch and run. *)

\* The handler of a task with children keeps the structure and the books; the children
\* take the place of the task.
LEMMA ChildrenHandler ==
  ASSUME Sound, NEW a, NEW n \in Nat \ {0}, HandleChildren(a, n)
  PROVE  /\ Sound'
         /\ Open' = Open \cup (IF Deferred(a) THEN {a.task.ctx} ELSE {})
         /\ \E K : /\ Tasks' = (Tasks \ {a.task}) \cup K
                   /\ Brood(K, a.task.ctx, n, Carried(a))
<1> DEFINE c == a.task.ctx
           s == StageOf(c)
           r == Children(c, n, Carried(a))
           K == Elems(r)
           q == waiting[s + 1] \o r
           U == (Tasks \ {a.task}) \cup K
           m == FreedUnlessDeferred(kv, a)
<1>0. PTypeOK /\ Placed /\ Tree /\ Counted /\ Ledger
  BY DEF Sound
<1>1. /\ Detach(a, "pass") /\ s < LastStage /\ waiting' = [waiting EXCEPT ![s + 1] = q]
      /\ kv' = Rebalanced(m, waiting', active') /\ pc' = NextPc(a)
      /\ tracker' = WithTracker(a, n)
  BY DEF HandleChildren
<1>2. /\ a \in active /\ active' = active \ {a} /\ pc = "handle"
      /\ a.task \in Tasks /\ IsFiniteSet(Tasks)
  BY <1>0, <1>1, DetachFacts
<1>3. /\ s \in Stages /\ s \in StageIds /\ c \in Seq(Nat)
  BY <1>0, <1>2, LaunchedFacts
<1>4. /\ Grown(tracker, tracker', c) /\ Carried(a) \subseteq DOMAIN tracker'
      /\ OpenOf(tracker') = Open \cup (IF Deferred(a) THEN {c} ELSE {})
      /\ IF Deferred(a) THEN Books(kv, active', tracker', OpenOf(tracker'))
                        ELSE Books(kv, active, tracker', OpenOf(tracker'))
  BY <1>1, HandOver
<1>5. Carried(a) \subseteq Seq(Nat)
  BY <1>0, <1>3, <1>4 DEF Grown, PTypeOK
<1>6. /\ s + 1 \in Stages /\ r \in Seq(TaskSet) /\ Distinct(r)
      /\ Brood(K, c, n, Carried(a)) /\ \A u \in K : StageOf(u.ctx) = s + 1
  <2>1. n \in Nat \ {0} /\ StageOf(a.task.ctx) < LastStage
    BY <1>1
  <2> QED
    BY <1>0, <1>1, <1>5, <2>1, NewChildren
<1> HIDE DEF c, s, r, K, U, m, q
<1>7. TreeOver(U, DOMAIN tracker') /\ K \cap Tasks = {}
  <2>1. TreeOver(Tasks, DOMAIN tracker) /\ DOMAIN tracker \subseteq Seq(Nat)
    BY <1>0 DEF Tree, PTypeOK
  <2>2. \A u \in Tasks : u.ctx \in Seq(Nat)
    BY <1>0, TasksTyped
  <2>3. ASSUME NEW u \in K
        PROVE  (\E j \in Nat : u.ctx = Append(c, j)) /\ u.trackers \subseteq DOMAIN tracker'
    <3>1. u.ctx \in {Append(c, j) : j \in 1..n} /\ u.trackers = Carried(a)
      BY <1>6 DEF Brood
    <3>2. PICK j \in 1..n : u.ctx = Append(c, j)
      BY <3>1
    <3> QED
      BY <1>4, <3>1, <3>2, SMT
  <2>4. \A u, v \in K : u.ctx = v.ctx => u = v
    BY <1>6 DEF Brood
  <2>5. FansOut(Tasks, DOMAIN tracker, a.task, K, DOMAIN tracker', U)
    BY <1>2, <1>4, <2>1, <2>2, <2>3, <2>4 DEF Grown, FansOut, U, c
  <2> QED
    BY <2>5, TreeGrows
<1>8. /\ waiting[s + 1] \in Seq(TaskSet) /\ Distinct(waiting[s + 1])
      /\ Elems(waiting[s + 1]) \subseteq Tasks \ {a.task}
  BY <1>0, <1>1, <1>6, QueueFacts
<1>9. /\ q \in Seq(TaskSet) /\ Elems(q) = Elems(waiting[s + 1]) \cup K /\ Distinct(q)
  BY <1>6, <1>7, <1>8, ConcatElems DEF q, K
<1>10. Queues(TaskSet, waiting, active', s + 1, q, K, waiting')
  <2>1. IsFiniteSet(K) /\ K \cap (Tasks \ {a.task}) = {} /\ \A u \in K : StageOf(u.ctx) = s + 1
    BY <1>6, <1>7 DEF Brood
  <2> QED
    BY <1>0, <1>1, <1>6, <1>9, <2>1, RoomFor
<1>11. Books(kv', active', tracker', OpenOf(tracker'))
  <2>1. Books(m, active', tracker', OpenOf(tracker'))
    <3>1. CASE Deferred(a)
      BY <1>4, <3>1 DEF FreedUnlessDeferred, m
    <3>2. CASE ~Deferred(a)
      <4>1. Books(kv, active, tracker', OpenOf(tracker')) /\ m = Freed(kv, a)
        BY <1>4, <3>2 DEF FreedUnlessDeferred, m
      <4> QED
        BY <1>2, <1>3, <4>1, BooksFree DEF s, c
    <3> QED
      BY <3>1, <3>2
  <2> QED
    BY <1>1, <2>1, BooksRebalance
<1>12. Ledger'
  BY <1>11, BooksAfter
<1>13. PTypeOK' /\ Placed' /\ Tree' /\ Tasks' = U
  <2>1. IsManager(kv')
    BY <1>11 DEF Books
  <2>2. pc' \in {"top", "handle", "failed"} /\ Grown(tracker, tracker', a.task.ctx)
    BY <1>1, <1>4, NextPcIn DEF c
  <2>3. U = (Tasks \ {a.task}) \cup K
    BY DEF U
  <2> QED
    BY <1>0, <1>1, <1>7, <1>10, <2>1, <2>2, <2>3, QueueStep
<1>14. Counted'
  <2>1. /\ CountedOver(Tasks, tracker) /\ tracker \in [DOMAIN tracker -> Trackers]
        /\ \A p \in DOMAIN tracker : tracker'[p] = tracker[p]
        /\ Deferred(a) => tracker'[c].pending = n
        /\ ~Deferred(a) => tracker' = tracker
    <3>1. CountedOver(Tasks, tracker) /\ tracker \in [DOMAIN tracker -> Trackers] /\ n \in Nat
      BY <1>0, <1>2 DEF Counted, PTypeOK
    <3>2. /\ \A p \in DOMAIN tracker : tracker'[p] = tracker[p] /\ p # c
          /\ Deferred(a) => tracker'[c] = [pending |-> n, budget |-> a.budget]
          /\ ~Deferred(a) => tracker' = tracker
      BY <1>0, <1>1, <3>1, NewTracker, SMT DEF c
    <3> QED
      BY <3>1, <3>2, SMT
  <2>2. /\ IsFiniteSet(K) /\ Cardinality(K) = n /\ K # {} /\ K \cap (Tasks \ {a.task}) = {}
        /\ \A u \in K : u.trackers = Carried(a)
    BY <1>6, <1>7, FS_EmptySet DEF Brood
  <2>3. \A u \in K : a.task.trackers \subseteq u.trackers
    BY <2>2 DEF Carried
  <2>4. CountedOver(U, tracker)
    BY <1>2, <2>1, <2>2, <2>3, CountedReplaced DEF U
  <2>5. ASSUME NEW p \in DOMAIN tracker'
        PROVE  tracker'[p].pending <= Cardinality(Carriers(U, p))
    <3>1. CASE p \in DOMAIN tracker
      BY <2>1, <2>4, <3>1 DEF CountedOver
    <3>2. CASE p \notin DOMAIN tracker
      <4>1. p = c /\ Deferred(a) /\ tracker'[p].pending = n
        BY <1>4, <2>1, <2>5, <3>2 DEF Grown
      <4>2. K \subseteq Carriers(U, p)
        BY <2>2, <4>1 DEF U, Carried, Carriers, c
      <4>3. IsFiniteSet(Carriers(U, p))
        <5>1. IsFiniteSet(U)
          BY <1>2, <2>2, FS_RemoveElement, FS_Union DEF U
        <5> QED
          BY <5>1, FS_Subset DEF Carriers
      <4> QED
        BY <2>2, <4>1, <4>2, <4>3, FS_Subset, SMT
    <3> QED
      BY <3>1, <3>2
  <2> QED
    BY <1>13, <2>5 DEF Counted, CountedOver
<1>15. Open' = Open \cup (IF Deferred(a) THEN {c} ELSE {})
  BY <1>4 DEF Open, OpenOf
<1>16. Tasks' = (Tasks \ {a.task}) \cup K /\ Brood(K, c, n, Carried(a))
  BY <1>6, <1>13 DEF U
<1> QED
  BY <1>12, <1>13, <1>14, <1>15, <1>16 DEF Sound, c

\* So does the handler after the last stage, which ends the children at once.
LEMMA ChildrenOutHandler ==
  ASSUME Sound, NEW a, NEW n \in Nat \ {0}, HandleChildrenOut(a, n)
  PROVE  /\ Sound' /\ Tasks' = Tasks \ {a.task}
         /\ Open' = Open \ Closing(WithTracker(a, n), Carried(a), n)
         /\ Deferred(a) => a.task.ctx \in Closing(WithTracker(a, n), Carried(a), n)
<1> DEFINE c == a.task.ctx
           C == Carried(a)
           trk == WithTracker(a, n)
           closing == Closing(trk, C, n)
           m == Refunded(kv, trk, closing)
           f == FreedUnlessDeferred(m, a)
           R == OpenOf(trk) \ closing
<1>0. PTypeOK /\ Placed /\ Tree /\ Counted /\ Ledger
  BY DEF Sound
<1>1. /\ Detach(a, "pass") /\ UNCHANGED waiting /\ pc' = NextPc(a)
      /\ kv' = Rebalanced(f, waiting, active') /\ tracker' = CountedDown(trk, C, n)
  BY DEF HandleChildrenOut
<1>2. /\ a \in active /\ active' = active \ {a} /\ pc = "handle"
      /\ a.task \in Tasks /\ IsFiniteSet(Tasks) /\ a.task.trackers \subseteq DOMAIN tracker
  BY <1>0, <1>1, DetachFacts
<1>3. StageOf(c) \in StageIds
  BY <1>0, <1>2, LaunchedFacts
<1>4. /\ Grown(tracker, trk, c) /\ C \subseteq DOMAIN trk
      /\ OpenOf(trk) = Open \cup (IF Deferred(a) THEN {c} ELSE {})
      /\ IF Deferred(a) THEN Books(kv, active', trk, OpenOf(trk))
                        ELSE Books(kv, active, trk, OpenOf(trk))
  BY <1>1, HandOver
<1>5. /\ \A p \in DOMAIN tracker : trk[p] = tracker[p] /\ p # c
      /\ Deferred(a) => c \in DOMAIN trk /\ trk[c] = [pending |-> n, budget |-> a.budget]
      /\ ~Deferred(a) => trk = tracker
  <2>1. n \in Nat
    OBVIOUS
  <2> QED
    BY <1>0, <1>1, <2>1, NewTracker
<1>6. Deferred(a) => c \in closing
  BY <1>5, SMT DEF Closing, Carried
<1> HIDE DEF c, C, trk, closing
<1>7. trk \in [DOMAIN trk -> Trackers]
  BY <1>4 DEF Grown
<1>8. /\ SameBudgets(tracker', trk) /\ FewerPending(tracker', trk, C, n)
      /\ closing \subseteq OpenOf(trk) /\ OpenOf(tracker') = OpenOf(trk) \ closing
  BY <1>1, <1>4, <1>7, CountDown DEF closing
<1>9. DOMAIN tracker' = DOMAIN trk /\ Grown(tracker, tracker', c)
  BY <1>1, <1>4, <1>7, CountDown, CountDownGrown
<1> HIDE DEF m, f, R
<1>10. Books(kv', active', trk, R)
  <2>1. Books(f, active', trk, R)
    <3>1. CASE Deferred(a)
      <4>1. Books(kv, active', trk, OpenOf(trk)) /\ f = m
        BY <1>4, <3>1 DEF FreedUnlessDeferred, f
      <4> QED
        BY <1>8, <4>1, BooksRefund DEF m, R
    <3>2. CASE ~Deferred(a)
      <4>1. Books(kv, active, trk, OpenOf(trk)) /\ f = Freed(m, a)
        BY <1>4, <3>2 DEF FreedUnlessDeferred, f
      <4>2. Books(m, active, trk, R)
        BY <1>8, <4>1, BooksRefund DEF m, R
      <4> QED
        BY <1>2, <1>3, <4>1, <4>2, BooksFree DEF c
    <3> QED
      BY <3>1, <3>2
  <2> QED
    BY <1>1, <2>1, BooksRebalance
<1>11. Books(kv', active', tracker', OpenOf(tracker'))
  <2>1. \A p \in R : tracker'[p].budget = trk[p].budget
    BY <1>8 DEF R, OpenOf, SameBudgets
  <2>2. Books(kv', active', tracker', R)
    BY <1>10, <2>1, BooksSame
  <2> QED
    BY <1>8, <2>2 DEF R
<1>12. Ledger'
  BY <1>11, BooksAfter
<1>13. PTypeOK' /\ Placed' /\ Tree' /\ Tasks' = Tasks \ {a.task}
  <2>1. IsManager(kv')
    BY <1>11 DEF Books
  <2>2. pc' \in {"top", "handle", "failed"} /\ Grown(tracker, tracker', a.task.ctx)
    BY <1>1, <1>9, NextPcIn DEF c
  <2> QED
    BY <1>0, <1>1, <2>1, <2>2, EndStep
<1>14. Counted'
  <2> DEFINE T == a.task.trackers
             V == Tasks \ {a.task}
             new == CountedDown(tracker, T, n)
  <2>1. CountedOver(Tasks, tracker) /\ tracker \in [DOMAIN tracker -> Trackers]
    BY <1>0, <1>2 DEF Counted, PTypeOK
  <2>2. CountedOver(V, new)
    BY <1>2, <2>1, CountedEnd
  <2>3. DOMAIN new = DOMAIN tracker /\ FewerPending(new, tracker, T, n)
    BY <1>2, <2>1, CountDown
  <2>4. IsFiniteSet(V)
    BY <1>2, FS_RemoveElement
  <2> HIDE DEF new, V
  <2>5. ASSUME NEW p \in DOMAIN tracker'
        PROVE  tracker'[p].pending <= Cardinality(Carriers(V, p))
    <3>1. CASE p \in DOMAIN tracker
      <4>1. p # c /\ trk[p] = tracker[p] /\ (p \in C <=> p \in T)
        BY <1>5, <3>1 DEF C, Carried, c
      <4>2. tracker'[p].pending = new[p].pending
        BY <1>8, <1>9, <2>3, <2>5, <3>1, <4>1, SMT DEF FewerPending
      <4> QED
        BY <2>2, <2>3, <3>1, <4>2 DEF CountedOver
    <3>2. CASE p \notin DOMAIN tracker
      <4>1. p = c /\ Deferred(a) /\ p \in C /\ trk[p].pending = n
        BY <1>4, <1>5, <1>9, <2>5, <3>2, SMT DEF Grown, Carried, C, c
      <4>2. tracker'[p].pending = 0
        BY <1>8, <1>9, <2>5, <4>1, SMT DEF FewerPending
      <4>3. IsFiniteSet(Carriers(V, p))
        BY <2>4, FS_Subset DEF Carriers
      <4> QED
        BY <4>2, <4>3, FS_CardinalityType, SMT
    <3> QED
      BY <3>1, <3>2
  <2> QED
    BY <1>13, <2>5 DEF Counted, CountedOver, V
<1>15. Open' = Open \ closing
  <2>1. Open' = OpenOf(tracker')
    BY DEF Open, OpenOf
  <2> QED
    BY <1>4, <1>6, <1>8, <2>1
<1> QED
  BY <1>6, <1>12, <1>13, <1>14, <1>15 DEF Sound, c, closing, C, trk

\* The steps of the main loop that launch nothing.
LEMMA LoopSteps ==
  ASSUME Sound,
         \/ LoopTop \/ StartWait \/ Wake \/ Finished \/ UNCHANGED vars
         \/ \E b \in Budgets : LeaveStage(b)
  PROVE  /\ Sound' /\ Tasks' = Tasks /\ Open' = Open
         /\ UNCHANGED <<seg, waiting, active, tracker, pin, out>>
         /\ pc' # "failed" => pc # "failed"
<1>1. PTypeOK /\ Placed /\ Tree /\ Counted /\ Ledger
  BY DEF Sound
<1>2. /\ PTypeOK' /\ Placed' /\ Tree' /\ Tasks' = Tasks
      /\ UNCHANGED <<seg, waiting, active, tracker, pin, out>>
      /\ kv'.used = kv.used /\ kv'.inflight = kv.inflight
  BY <1>1, StillActions
<1>3. pc' # "failed" => pc # "failed"
  BY DEF LoopTop, StartWait, Wake, Finished, vars, LeaveStage
<1>4. Open' = Open
  BY <1>2 DEF Open
<1>5. Counted'
  BY <1>1, <1>2, <1>3 DEF Counted
<1>6. Ledger'
  BY <1>1, <1>2, <1>3, <1>4 DEF Ledger
<1> QED
  BY <1>2, <1>3, <1>4, <1>5, <1>6 DEF Sound

\* Launching the head of a queue keeps the structure and the books.
LEMMA LaunchSound ==
  ASSUME Sound, NEW b \in Budgets, LaunchHead(b)
  PROVE  Sound' /\ Tasks' = Tasks /\ Open' = Open
<1> DEFINE a == Launched(Head(waiting[cur]), b)
<1>1. PTypeOK /\ Placed /\ Tree /\ Counted /\ Ledger
  BY DEF Sound
<1>2. /\ PTypeOK' /\ Placed' /\ Tree' /\ Tasks' = Tasks
      /\ a \notin active /\ StageOf(a.task.ctx) = cur
      /\ a.budget = b /\ b \in Nat /\ cur \in StageIds
  BY <1>1, LaunchHeadStep
<1>3. /\ kv' = Charged(kv, cur, b) /\ active' = active \cup {a}
      /\ UNCHANGED <<tracker, pc>> /\ pc = "launch"
  BY DEF LaunchHead
<1> HIDE DEF a
<1>4. Open' = Open /\ Open = OpenOf(tracker)
  BY <1>3 DEF Open, OpenOf
<1>5. Books(kv, active, tracker, Open)
  BY <1>1, <1>3, BooksBefore
<1>6. kv' = Charged(kv, cur, a.budget)
  BY <1>2, <1>3
<1>7. Books(kv', active', tracker, Open)
  BY <1>2, <1>3, <1>5, <1>6, BooksCharge, SMT
<1>8. Ledger'
  BY <1>3, <1>4, <1>7, BooksAfter
<1>9. Counted'
  BY <1>1, <1>2, <1>3 DEF Counted
<1> QED
  BY <1>2, <1>4, <1>8, <1>9 DEF Sound

\* Forcing the heads of all queues does, too: nothing ran before.
LEMMA ForceLaunchSound ==
  ASSUME Sound, NEW bs \in [Stages -> Budgets], ForceLaunch(bs)
  PROVE  Sound' /\ Tasks' = Tasks /\ Open' = Open
<1> DEFINE blocked == {s \in Stages : waiting[s] # <<>>}
           L(s) == Launched(Head(waiting[s]), bs[s])
<1>1. PTypeOK /\ Placed /\ Tree /\ Counted /\ Ledger
  BY DEF Sound
<1>2. /\ PTypeOK' /\ Placed' /\ Tree' /\ Tasks' = Tasks
      /\ \A s \in StageIds : At(active', s) = IF s \in blocked THEN {L(s)} ELSE {}
  BY <1>1, ForceLaunchStep
<1>3. /\ active = {} /\ UNCHANGED tracker /\ pc = "launch" /\ pc' = "top"
      /\ \A s \in StageIds :
           /\ kv'.used[s] = kv.used[s] + (IF s \in blocked THEN bs[s] ELSE 0)
           /\ kv'.inflight[s] = kv.inflight[s] + (IF s \in blocked THEN 1 ELSE 0)
  BY <1>1 DEF ForceLaunch, PTypeOK, IsManager
<1>4. Open' = Open
  BY <1>3 DEF Open
<1>5. ASSUME NEW s \in StageIds
      PROVE  /\ SumOver([a \in active' |-> a.budget], At(active', s)) =
                  (IF s \in blocked THEN bs[s] ELSE 0)
             /\ Cardinality(At(active', s)) = (IF s \in blocked THEN 1 ELSE 0)
  <2> DEFINE f == [a \in active' |-> a.budget]
  <2>1. CASE s \notin blocked
    <3>1. At(active', s) = {}
      BY <1>2, <2>1
    <3> HIDE DEF f
    <3>2. SumOver(f, At(active', s)) = 0 /\ Cardinality(At(active', s)) = 0
      BY <3>1, SumEmpty, FS_EmptySet
    <3> HIDE DEF blocked
    <3> QED
      BY <2>1, <3>2 DEF f
  <2>2. CASE s \in blocked
    <3> DEFINE x == L(s)
               b == bs[s]
    <3>1. At(active', s) = {x} /\ x.budget = b /\ b \in Nat
      BY <1>2, <2>2, BoundsAssumption DEF Launched
    <3> HIDE DEF x, b, L, blocked
    <3>2. x \in active'
      BY <3>1 DEF At
    <3>3. f[x] = b
      BY <3>1, <3>2
    <3> HIDE DEF f
    <3>4. SumOver(f, {}) = 0 /\ IsFiniteSet({}) /\ x \notin {}
      BY SumEmpty, FS_EmptySet
    <3>5. SumOver(f, {} \cup {x}) = SumOver(f, {}) + f[x]
      <4>1. IsFiniteSet({}) /\ (\A y \in {} : f[y] \in Nat) /\ x \notin {} /\ f[x] \in Nat
        BY <3>1, <3>3, FS_EmptySet
      <4> QED
        BY <4>1, SumAdd
    <3>6. {} \cup {x} = {x} /\ Cardinality({x}) = 1
      BY FS_Singleton
    <3>7. SumOver(f, At(active', s)) = b /\ Cardinality(At(active', s)) = 1
      BY <3>1, <3>3, <3>4, <3>5, <3>6, SMT
    <3> QED
      BY <2>2, <3>7 DEF f, b
  <2> QED
    BY <2>1, <2>2
<1>6. ASSUME NEW s \in StageIds
      PROVE  /\ kv.used[s] = ReservedBy(tracker, Open, s) /\ kv.used[s] \in Nat
             /\ kv.inflight[s] = Cardinality({p \in Open : StageOf(p) = s})
             /\ kv.inflight[s] \in Nat
  <2> DEFINE f == [a \in active |-> a.budget]
             r == ReservedBy(tracker, Open, s)
             k == Cardinality({p \in Open : StageOf(p) = s})
  <2>1. At(active, s) = {}
    BY <1>3 DEF At
  <2>2. kv.used[s] = SumOver(f, At(active, s)) + r /\ kv.inflight[s] = Cardinality(At(active, s)) + k
    BY <1>1, <1>3 DEF Ledger
  <2>3. kv.used[s] \in Nat /\ kv.inflight[s] \in Nat
    BY <1>1 DEF PTypeOK, IsManager
  <2>4. r \in Nat /\ k \in Nat
    <3>1. Reserving(tracker, Open)
      BY <1>1, LedgerTypes DEF Open
    <3>2. ReservedBy(tracker, Open, s) \in Nat /\ Cardinality(StagedAt(Open, s)) \in Nat
      BY <3>1, ReservedSplit
    <3> QED
      BY <3>2 DEF StagedAt
  <2> HIDE DEF f, r, k
  <2>5. SumOver(f, At(active, s)) = 0 /\ Cardinality(At(active, s)) = 0
    BY <2>1, SumEmpty, FS_EmptySet
  <2>6. kv.used[s] = r /\ kv.inflight[s] = k
    BY <2>2, <2>4, <2>5, SMT
  <2> QED
    BY <2>3, <2>6 DEF r, k
<1> HIDE DEF blocked
<1>7. \A s \in blocked : bs[s] \in Nat
  BY BoundsAssumption DEF blocked
<1>8. Ledger'
  <2> DEFINE f == [a \in active |-> a.budget]
  <2> SUFFICES ASSUME NEW s \in StageIds
               PROVE  /\ kv'.used[s] = SumOver(f', At(active', s)) + ReservedBy(tracker', Open', s)
                      /\ kv'.inflight[s] = Cardinality(At(active', s))
                            + Cardinality({p \in Open' : StageOf(p) = s})
    BY DEF Ledger
  <2>1. /\ SumOver(f', At(active', s)) = (IF s \in blocked THEN bs[s] ELSE 0)
        /\ Cardinality(At(active', s)) = (IF s \in blocked THEN 1 ELSE 0)
    BY <1>5
  <2>2. /\ ReservedBy(tracker', Open', s) = kv.used[s] /\ kv.used[s] \in Nat
        /\ Cardinality({p \in Open' : StageOf(p) = s}) = kv.inflight[s] /\ kv.inflight[s] \in Nat
    BY <1>3, <1>4, <1>6
  <2> HIDE DEF f
  <2> QED
    BY <1>3, <1>7, <2>1, <2>2, SMT
<1>9. Counted'
  BY <1>1, <1>2, <1>3 DEF Counted
<1> QED
  BY <1>2, <1>4, <1>8, <1>9 DEF Sound

\* What a launched task does changes no books.
LEMMA RunSound ==
  ASSUME Sound, NEW a \in active,
         (\E passed \in BOOLEAN : RunOp(a, passed)) \/ MapRetries(a) \/ OpRaises(a)
  PROVE  Sound' /\ Tasks' = Tasks /\ Open' = Open
<1>1. PTypeOK /\ Placed /\ Tree /\ Counted /\ Ledger
  BY DEF Sound
<1>2. PICK b \in LaunchedSet :
           /\ Becomes(a, b) /\ b.task = a.task /\ b.budget = a.budget
           /\ b \notin active \ {a}
           /\ PTypeOK' /\ Placed' /\ Tree' /\ Tasks' = Tasks
  BY <1>1, RunSteps
<1>3. active' = (active \ {a}) \cup {b} /\ UNCHANGED <<kv, tracker, pc>>
  BY <1>2 DEF Becomes
<1>4. Open' = Open /\ Open = OpenOf(tracker)
  BY <1>3 DEF Open, OpenOf
<1>5. Ledger'
  <2>1. CASE pc = "failed"
    BY <1>3, <2>1 DEF Ledger
  <2>2. CASE pc # "failed"
    <3>1. Books(kv, active, tracker, Open)
      BY <1>1, <2>2, BooksBefore
    <3>2. Books(kv, active', tracker, Open)
      BY <1>2, <1>3, <3>1, BooksRun
    <3> QED
      BY <1>3, <1>4, <3>2, BooksAfter
  <2> QED
    BY <2>1, <2>2
<1>6. Counted'
  BY <1>1, <1>2, <1>3 DEF Counted
<1> QED
  BY <1>2, <1>4, <1>5, <1>6 DEF Sound

-----------------------------------------------------------------------------
(* Who unpins what. *)

\* Two launched tasks of a context are the same.
LEMMA SameCtx ==
  ASSUME PTypeOK, Placed, Tree, NEW a \in active, NEW b \in active,
         a.task.ctx = b.task.ctx
  PROVE  a = b
<1>1. a.task \in Tasks /\ b.task \in Tasks /\ a.task.ctx \in Seq(Nat)
  BY LaunchedFacts DEF Tasks
<1>2. Above(a.task.ctx, b.task.ctx)
  BY <1>1, AboveSelf
<1>3. a.task = b.task
  BY <1>1, <1>2 DEF Tree, TreeOver
<1> QED
  BY <1>3 DEF Placed, PlacedIn
=============================================================================
