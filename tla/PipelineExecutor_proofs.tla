----------------------- MODULE PipelineExecutor_proofs -----------------------
(***************************************************************************)
(* What the pipeline executor keeps on every path but the raising ones: it *)
(* charges the manager exactly what its tasks and open trackers hold,      *)
(* leaves no pinned context without somebody to unpin it, hands back an    *)
(* empty manager, and computes what Dataflow says.  For any segment, any   *)
(* number of inputs and children and any budgets.                          *)
(*                                                                         *)
(* The argument has four layers.  Placed: a task is in one place, a queue  *)
(* of its stage or the active set.  Tree: the live contexts are tuples     *)
(* none of which is above another, and no context that has had a tracker   *)
(* is at or below one, so that a context never comes back and no tracker   *)
(* is ever overwritten.  Counted: an open tracker counts no more children  *)
(* than there are live tasks that carry it, so none is open when no task   *)
(* is left.  PinsOwed: how the status of a done task bears on its pin.     *)
(* Dataflow follows from the second: the tuples of the tasks are live, and *)
(* a handler takes one away and adds its children.                         *)
(***************************************************************************)
EXTENDS PipelineSteps_proofs, PipelineDataflow

\* The leaves are first-order steps for Zenon; those with arithmetic or large records name SMT.
USE Zenon

LastKind(s) == Ops[s][Len(Ops[s])]
(* What a launched task may be whose context is pinned. *)
PinnedAs(a) ==
  /\ a.status # "drop"
  /\ a.status = "retry" => a.at > 1
  /\ a.status = "pass" /\ StageOf(a.task.ctx) \notin Fanout =>
       LastKind(StageOf(a.task.ctx)) = "search"
PinsOwed ==
  /\ \A c \in pin : Pins(StageOf(c), 1)
  /\ \A a \in active : a.task.ctx \in pin => PinnedAs(a)

Returns == pc = "returned" => Tasks = {}

PInv ==
  PTypeOK /\ Placed /\ Tree /\ Counted /\ Ledger /\ PinsOwed /\ PinCovered /\ Returns

-----------------------------------------------------------------------------
(* What is owed to the pins. *)

\* Pins come with the first operator of a stage that pins; whoever drops the
\* tuple or ends its chain has unpinned it, an index search excepted.
LEMMA RunPins ==
  ASSUME PTypeOK, PinsOwed, NEW a \in active,
         (\E passed \in BOOLEAN : RunOp(a, passed)) \/ MapRetries(a) \/ OpRaises(a)
  PROVE  /\ pin' \subseteq pin \cup {a.task.ctx}
         /\ \A c \in pin' : Pins(StageOf(c), 1)
         /\ \E b : /\ active' = (active \ {a}) \cup {b} /\ b.task = a.task
                   /\ a.task.ctx \in pin' => PinnedAs(b)
<1> DEFINE c == a.task.ctx
           s == StageOf(c)
           n == Len(Ops[s])
<1>1. /\ a.at \in Nat \ {0} /\ a.at <= n /\ n \in Nat /\ a.status \in Statuses
      /\ a \in [task : {a.task}, budget : {a.budget}, at : {a.at}, status : {a.status}]
  <2>1. a \in LaunchedSet /\ a.at \in Nat \ {0} /\ a.at <= n /\ s \in Stages
    BY LaunchedFacts
  <2>2. n \in Nat
    BY <2>1, SegmentFacts DEF PTypeOK
  <2>3. a \in [task : {a.task}, budget : {a.budget}, at : {a.at}, status : {a.status}]
    BY <2>1 DEF LaunchedSet
  <2> QED
    BY <2>1, <2>2, <2>3 DEF LaunchedSet
<1>2. \A d \in pin : Pins(StageOf(d), 1)
  BY DEF PinsOwed
<1>3. ASSUME NEW passed \in BOOLEAN, RunOp(a, passed)
      PROVE  /\ pin' \subseteq pin \cup {c} /\ \A d \in pin' : Pins(StageOf(d), 1)
             /\ \E b : /\ active' = (active \ {a}) \cup {b} /\ b.task = a.task
                       /\ c \in pin' => PinnedAs(b)
  <2> DEFINE kind == Ops[s][a.at]
             b == IF ~passed /\ kind \in Predicates THEN [a EXCEPT !.status = "drop"]
                   ELSE IF a.at = n THEN [a EXCEPT !.status = "pass"]
                   ELSE [a EXCEPT !.at = @ + 1]
  <2>1. active' = (active \ {a}) \cup {b} /\ Runs(a)
    BY <1>3 DEF RunOp, Becomes
  <2>2. PICK asks \in MayPin(kind) :
          LET pinned == pin \cup (IF asks /\ Pins(s, a.at) THEN {c} ELSE {})
          IN pin' = IF kind # "search" /\ (Unpins(s, a.at) \/ ~passed)
                    THEN pinned \ {c} ELSE pinned
    BY <1>3 DEF RunOp
  <2>3. pin' \subseteq pin \cup {c} /\ (c \in pin' => c \in pin \/ Pins(s, a.at))
    BY <2>2
  <2>4. c \in pin' => kind = "search" \/ (~Unpins(s, a.at) /\ passed)
    BY <2>2
  <2>5. c \in pin' => Pins(s, 1)
    BY <1>2, <2>3 DEF Pins
  <2>6. \A d \in pin' : Pins(StageOf(d), 1)
    BY <1>2, <2>3, <2>5
  <2>7. b.task = a.task
    BY <1>1
  <2>8. ASSUME c \in pin' PROVE PinnedAs(b)
    <3>1. CASE ~passed /\ kind \in Predicates
      BY <2>4, <2>8, <3>1 DEF Predicates
    <3>2. CASE ~(~passed /\ kind \in Predicates) /\ a.at = n
      <4>1. b.status = "pass" /\ b.task.ctx = c
        BY <1>1, <3>2
      <4>2. s \notin Fanout => Unpins(s, n)
        BY <2>5, <2>8 DEF Pins, Unpins
      <4>3. s \notin Fanout => LastKind(s) = "search"
        BY <2>4, <2>8, <3>2, <4>2 DEF LastKind
      <4> HIDE DEF b
      <4> QED
        BY <4>1, <4>3 DEF PinnedAs
    <3>3. CASE ~(~passed /\ kind \in Predicates) /\ a.at # n
      <4>1. b.status = "run"
        BY <1>1, <2>1, <3>3 DEF Runs
      <4> HIDE DEF b
      <4> QED
        BY <4>1 DEF PinnedAs
    <3> QED
      BY <3>1, <3>2, <3>3
  <2> HIDE DEF b
  <2> QED
    BY <2>1, <2>3, <2>6, <2>7, <2>8
<1>4. ASSUME MapRetries(a)
      PROVE  /\ pin' \subseteq pin
             /\ \E b : /\ active' = (active \ {a}) \cup {b} /\ b.task = a.task
                       /\ c \in pin' => PinnedAs(b)
  <2> DEFINE b == [a EXCEPT !.status = "retry"]
  <2>1. /\ active' = (active \ {a}) \cup {b}
        /\ pin' = IF Pins(s, a.at) THEN pin \ {c} ELSE pin
    BY <1>4 DEF MapRetries, Becomes
  <2>2. b.task = a.task /\ b.status = "retry" /\ b.at = a.at
    BY <1>1
  <2>3. c \in pin' => a.at > 1
    BY <1>1, <1>2, <2>1, SMT
  <2> HIDE DEF b
  <2> QED
    BY <2>1, <2>2, <2>3 DEF PinnedAs
<1>5. ASSUME OpRaises(a)
      PROVE  /\ pin' \subseteq pin
             /\ \E b : /\ active' = (active \ {a}) \cup {b} /\ b.task = a.task
                       /\ c \in pin' => PinnedAs(b)
  <2> DEFINE b == [a EXCEPT !.status = "error"]
  <2>1. active' = (active \ {a}) \cup {b} /\ pin' = pin
    BY <1>5 DEF OpRaises, Becomes
  <2>2. b.task = a.task /\ b.status = "error"
    BY <1>1
  <2> HIDE DEF b
  <2> QED
    BY <2>1, <2>2 DEF PinnedAs
<1> HIDE DEF c, s
<1> QED
  <2>1. CASE \E passed \in BOOLEAN : RunOp(a, passed)
    BY <1>3, <2>1 DEF c
  <2>2. CASE MapRetries(a)
    BY <1>2, <1>4, <2>2 DEF c
  <2>3. CASE OpRaises(a)
    BY <1>2, <1>5, <2>3 DEF c
  <2> QED
    BY <2>1, <2>2, <2>3

Covered(c) ==
  \/ c \in Open
  \/ \E a \in active : a.task.ctx = c
  \/ \E t \in Tasks : t.ctx = c /\ t.retry /\ t.op > 1
  \/ LeftPinned(c)

\* What the segment says of pins does not change.
LEMMA SegKeeps ==
  ASSUME UNCHANGED seg
  PROVE  /\ \A s, i : Pins(s, i)' <=> Pins(s, i)
         /\ \A a : PinnedAs(a)' <=> PinnedAs(a)
         /\ \A c : LeftPinned(c) /\ c \in out' => LeftPinned(c)'
BY DEF Pins, PinnedAs, LeftPinned, LastKind, Ops, Fanout, Pinning, EndsQuery

\* Steps after which no pin, no tracker and no task is gone.
LEMMA LoopPins ==
  ASSUME PinsOwed, PinCovered, UNCHANGED <<seg, pin, out>>, Tasks' = Tasks, Open' = Open,
         active \subseteq active', \A a \in active' \ active : a.status = "run",
         pc' # "failed" => pc # "failed"
  PROVE  PinsOwed' /\ PinCovered'
<1>1. PinsOwed'
  <2>1. \A a \in active' : a.task.ctx \in pin' => PinnedAs(a)
    BY DEF PinsOwed, PinnedAs
  <2> QED
    BY <2>1, SegKeeps DEF PinsOwed
<1>2. PinCovered'
  <2> SUFFICES ASSUME pc' # "failed", NEW c \in pin' PROVE Covered(c)'
    BY DEF PinCovered, Covered
  <2>1. Covered(c)
    BY DEF PinCovered, Covered
  <2> QED
    BY <2>1, SegKeeps DEF Covered, LeftPinned
<1> QED
  BY <1>1, <1>2

\* An operator pins or unpins its own context, which is running.
LEMMA RunPinned ==
  ASSUME Sound, PinsOwed, PinCovered, NEW a \in active,
         (\E passed \in BOOLEAN : RunOp(a, passed)) \/ MapRetries(a) \/ OpRaises(a)
  PROVE  PinsOwed' /\ PinCovered'
<1> DEFINE c == a.task.ctx
<1>0. PTypeOK /\ Placed /\ Tree
  BY DEF Sound
<1>1. Tasks' = Tasks /\ Open' = Open
  BY RunSound
<1>2. UNCHANGED <<seg, out, pc>>
  BY DEF RunOp, MapRetries, OpRaises, Becomes
<1>3. pin' \subseteq pin \cup {c} /\ \A d \in pin' : Pins(StageOf(d), 1)
  BY <1>0, RunPins
<1>4. PICK b : /\ active' = (active \ {a}) \cup {b} /\ b.task = a.task
               /\ c \in pin' => PinnedAs(b)
  BY <1>0, RunPins
<1>5. PinsOwed'
  <2>1. ASSUME NEW x \in active', x.task.ctx \in pin' PROVE PinnedAs(x)
    <3>1. CASE x = b
      BY <1>4, <2>1, <3>1
    <3>2. CASE x # b
      <4>1. x \in active /\ x # a
        BY <1>4, <3>2
      <4>2. x.task.ctx # c
        BY <1>0, <4>1, SameCtx
      <4> QED
        BY <1>3, <2>1, <4>1, <4>2 DEF PinsOwed
    <3> QED
      BY <3>1, <3>2
  <2> QED
    BY <1>2, <1>3, <2>1, SegKeeps DEF PinsOwed
<1>6. PinCovered'
  <2> SUFFICES ASSUME pc' # "failed", NEW d \in pin' PROVE Covered(d)'
    BY DEF PinCovered, Covered
  <2>1. CASE d = c
    BY <1>4, <2>1 DEF Covered
  <2>2. CASE d # c
    <3>1. Covered(d)
      BY <1>2, <1>3, <2>2 DEF PinCovered, Covered
    <3>2. (\E x \in active : x.task.ctx = d) => \E x \in active' : x.task.ctx = d
      BY <1>4
    <3> QED
      BY <1>1, <1>2, <3>1, <3>2, SegKeeps DEF Covered, LeftPinned
  <2> QED
    BY <2>1, <2>2
<1> QED
  BY <1>5, <1>6

\* A handler: the other contexts are as they were, whatever it closes it
\* unpins, and Covered is left to show of its own context.
LEMMA HandlePins ==
  ASSUME Sound, PinsOwed, PinCovered, NEW a, NEW st, Detach(a, st),
         pin' \subseteq pin, Open \cap pin' \subseteq Open',
         Tasks \ {a.task} \subseteq Tasks', out \subseteq out',
         a.task.ctx \in pin' /\ pc' # "failed" => Covered(a.task.ctx)'
  PROVE  PinsOwed' /\ PinCovered'
<1>1. active' = active \ {a} /\ UNCHANGED seg /\ pc = "handle"
  BY DEF Detach
<1>2. PinsOwed'
  BY <1>1, SegKeeps DEF PinsOwed
<1>3. PinCovered'
  <2> SUFFICES ASSUME pc' # "failed", NEW d \in pin', d # a.task.ctx PROVE Covered(d)'
    BY DEF PinCovered, Covered
  <2>1. Covered(d)
    BY <1>1 DEF PinCovered, Covered
  <2>2. d \in Open => d \in Open'
    OBVIOUS
  <2>3. (\E x \in active : x.task.ctx = d) => \E x \in active' : x.task.ctx = d
    BY <1>1
  <2>4. (\E t \in Tasks : t.ctx = d /\ t.retry /\ t.op > 1) =>
          \E t \in Tasks' : t.ctx = d /\ t.retry /\ t.op > 1
    OBVIOUS
  <2>5. LeftPinned(d) => LeftPinned(d)'
    BY <1>1, SegKeeps DEF LeftPinned
  <2> QED
    BY <2>1, <2>2, <2>3, <2>4, <2>5 DEF Covered
<1> QED
  BY <1>2, <1>3

\* Every handler keeps the books and what is owed to the pins.
LEMMA HandlersPinned ==
  ASSUME Sound, PinsOwed, PinCovered, NEW a \in active,
         \/ HandleError(a) \/ HandleRetry(a) \/ HandleDrop(a) \/ HandleEmit(a)
         \/ FanoutRaises(a) \/ HandleNoChildren(a)
         \/ \E n \in fanout_op \ {0} : HandleChildren(a, n) \/ HandleChildrenOut(a, n)
  PROVE  Sound' /\ PinsOwed' /\ PinCovered'
<1> DEFINE c == a.task.ctx
           closing == Closing(tracker, a.task.trackers, 1)
<1>0. c \in pin => PinnedAs(a)
  BY DEF PinsOwed
<1>1. CASE HandleError(a) \/ FanoutRaises(a)
  <2>1. Sound' /\ Tasks' = Tasks \ {a.task} /\ tracker' = tracker
    BY <1>1, RaisingHandlers
  <2>2. PICK st : Detach(a, st)
    BY <1>1 DEF HandleError, FanoutRaises
  <2>3. pc' = "failed" /\ UNCHANGED <<pin, out>>
    BY <1>1 DEF HandleError, FanoutRaises
  <2>4. Open' = Open
    BY <2>1 DEF Open
  <2> QED
    BY <2>1, <2>2, <2>3, <2>4, HandlePins
<1>2. CASE HandleRetry(a)
  <2>1. Sound' /\ Tasks' = (Tasks \ {a.task}) \cup {RetryOf(a)} /\ Open' = Open
    BY <1>2, RetryHandler
  <2>2. Detach(a, "retry") /\ UNCHANGED <<pin, out>> /\ a.status = "retry"
    BY <1>2 DEF HandleRetry, Detach
  <2>3. c \in pin' => Covered(c)'
    <3>1. RetryOf(a).ctx = c /\ RetryOf(a).retry /\ RetryOf(a).op = a.at
      BY DEF RetryOf, Task
    <3>2. c \in pin' => a.at > 1
      BY <1>0, <2>2 DEF PinnedAs
    <3> QED
      BY <2>1, <3>1, <3>2 DEF Covered
  <2> QED
    BY <2>1, <2>2, <2>3, HandlePins
<1>3. CASE HandleDrop(a)
  <2>1. Sound' /\ Tasks' = Tasks \ {a.task} /\ Open' = Open \ closing
    BY <1>3, SettledHandlers
  <2>2. Detach(a, "drop") /\ pin' = pin \ closing /\ UNCHANGED out /\ a.status = "drop"
    BY <1>3 DEF HandleDrop, Finalize, Detach
  <2>3. c \notin pin'
    BY <1>0, <2>2 DEF PinnedAs
  <2> HIDE DEF closing
  <2> QED
    BY <2>1, <2>2, <2>3, HandlePins
<1>4. CASE HandleEmit(a)
  <2>1. Sound' /\ Tasks' = Tasks \ {a.task} /\ Open' = Open \ closing
    BY <1>4, SettledHandlers
  <2>2. /\ Detach(a, "pass") /\ pin' = pin \ closing /\ out' = out \cup {c}
        /\ a.status = "pass" /\ StageOf(c) \notin Fanout /\ UNCHANGED seg
    BY <1>4 DEF HandleEmit, Detach
  <2>3. c \in pin' => LeftPinned(c)'
    <3>1. c \in pin' => LastKind(StageOf(c)) = "search"
      BY <1>0, <2>2 DEF PinnedAs
    <3> QED
      BY <2>2, <3>1 DEF LeftPinned, LastKind, Ops
  <2> HIDE DEF closing
  <2> QED
    BY <2>1, <2>2, <2>3, HandlePins DEF Covered
<1>5. CASE HandleNoChildren(a)
  <2>1. Sound' /\ Tasks' = Tasks \ {a.task} /\ Open' = Open \ closing
    BY <1>5, SettledHandlers
  <2>2. Detach(a, "pass") /\ pin' = pin \ (closing \cup {c}) /\ UNCHANGED out
    BY <1>5 DEF HandleNoChildren
  <2> HIDE DEF closing
  <2> QED
    BY <2>1, <2>2, HandlePins
<1>6. ASSUME NEW n \in fanout_op \ {0}, HandleChildren(a, n)
      PROVE  Sound' /\ PinsOwed' /\ PinCovered'
  <2>0. n \in Nat \ {0}
    BY BoundsAssumption, SMT DEF fanout_op
  <2>1. PICK K : /\ Sound' /\ Open' = Open \cup (IF Deferred(a) THEN {c} ELSE {})
                 /\ Tasks' = (Tasks \ {a.task}) \cup K
    BY <1>6, <2>0, ChildrenHandler
  <2>2. Detach(a, "pass") /\ UNCHANGED <<pin, out>>
    BY <1>6 DEF HandleChildren
  <2>3. c \in pin' => Covered(c)'
    BY <2>1, <2>2 DEF Deferred, Covered
  <2> QED
    BY <2>1, <2>2, <2>3, HandlePins
<1>7. ASSUME NEW n \in fanout_op \ {0}, HandleChildrenOut(a, n)
      PROVE  Sound' /\ PinsOwed' /\ PinCovered'
  <2> DEFINE gone == Closing(WithTracker(a, n), Carried(a), n)
  <2>0. n \in Nat \ {0}
    BY BoundsAssumption, SMT DEF fanout_op
  <2>1. /\ Sound' /\ Tasks' = Tasks \ {a.task} /\ Open' = Open \ gone
        /\ Deferred(a) => c \in gone
    BY <1>7, <2>0, ChildrenOutHandler
  <2>2. Detach(a, "pass") /\ pin' = pin \ gone /\ out \subseteq out'
    BY <1>7 DEF HandleChildrenOut
  <2> HIDE DEF gone
  <2>3. c \notin pin'
    BY <2>1, <2>2 DEF Deferred
  <2> QED
    BY <2>1, <2>2, <2>3, HandlePins
<1> QED
  BY <1>1, <1>2, <1>3, <1>4, <1>5, <1>6, <1>7

-----------------------------------------------------------------------------
(* The invariant. *)

\* No queue has a task and none runs: there is none.
LEMMA NoTasks ==
  ASSUME ~Pending, active = {}
  PROVE  Tasks = {}
<1>1. \A s \in Stages : Queued(s) = {}
  BY SMT DEF Pending, Queued
<1> QED
  BY <1>1 DEF Tasks

\* The loop ends only when no task is left, and none comes after.
LEMMA ReturnsStep ==
  ASSUME Returns, [Next]_vars
  PROVE  Returns'
<1>1. CASE LoopTop
  <2>1. pc' = "returned" => ~Pending /\ active = {}
    BY <1>1 DEF LoopTop
  <2>2. UNCHANGED <<waiting, active>>
    BY <1>1 DEF LoopTop
  <2>3. Tasks' = Tasks
    BY <2>2, SMT DEF Tasks, Queued
  <2> QED
    BY <2>1, <2>3, NoTasks DEF Returns
<1>2. CASE UNCHANGED vars
  <2>1. UNCHANGED <<waiting, active, pc>>
    BY <1>2 DEF vars
  <2>2. Tasks' = Tasks
    BY <2>1, SMT DEF Tasks, Queued
  <2> QED
    BY <2>1, <2>2 DEF Returns
<1>3. ASSUME NEW a \in active, 
             (\E passed \in BOOLEAN : RunOp(a, passed)) \/ MapRetries(a) \/ OpRaises(a)
      PROVE  pc' # "returned"
  BY <1>3 DEF RunOp, MapRetries, OpRaises, Becomes, Runs
<1>4. ASSUME NEW a \in active,
             \/ HandleError(a) \/ HandleRetry(a) \/ HandleDrop(a) \/ HandleEmit(a)
             \/ FanoutRaises(a) \/ HandleNoChildren(a)
             \/ \E n \in fanout_op \ {0} : HandleChildren(a, n) \/ HandleChildrenOut(a, n)
      PROVE  pc' # "returned"
  <2>1. pc' = "failed" \/ pc' = NextPc(a)
    BY <1>4 DEF HandleError, HandleRetry, HandleDrop, HandleEmit, FanoutRaises,
       HandleNoChildren, HandleChildren, HandleChildrenOut
  <2> QED
    BY <2>1, NextPcIn
<1>5. CASE \E b \in Budgets : LaunchHead(b) \/ LeaveStage(b)
  BY <1>5 DEF LaunchHead, LeaveStage, Returns
<1>6. CASE (\E bs \in [Stages -> Budgets] : ForceLaunch(bs)) \/ StartWait \/ Wake
  BY <1>6 DEF ForceLaunch, StartWait, Wake, Returns
<1> QED
  BY <1>1, <1>2, <1>3, <1>4, <1>5, <1>6 DEF Next, RunStep, HandleStep, Finished, Returns

\* Every step keeps the invariant.
LEMMA PInvStep ==
  ASSUME PInv, [Next]_vars
  PROVE  PInv'
<1>0. Sound /\ PinsOwed /\ PinCovered /\ Returns
  BY DEF PInv, Sound
<1>1. CASE \/ LoopTop \/ StartWait \/ Wake \/ Finished \/ UNCHANGED vars
           \/ \E b \in Budgets : LeaveStage(b)
  <2>1. /\ Sound' /\ Tasks' = Tasks /\ Open' = Open
        /\ UNCHANGED <<seg, pin, out>> /\ active' = active
        /\ pc' # "failed" => pc # "failed"
    BY <1>0, <1>1, LoopSteps
  <2>2. PinsOwed' /\ PinCovered'
    <3>1. active \subseteq active' /\ \A a \in active' \ active : a.status = "run"
      BY <2>1
    <3> QED
      BY <1>0, <2>1, <3>1, LoopPins
  <2> QED
    BY <1>0, <2>1, <2>2, ReturnsStep DEF PInv, Sound
<1>2. ASSUME NEW b \in Budgets, LaunchHead(b) PROVE PInv'
  <2>1. Sound' /\ Tasks' = Tasks /\ Open' = Open
    BY <1>0, <1>2, LaunchSound
  <2>2. /\ UNCHANGED <<seg, pin, out, pc>> /\ active \subseteq active'
        /\ \A a \in active' \ active : a.status = "run"
    BY <1>2, SMT DEF LaunchHead, Launched
  <2>3. PinsOwed' /\ PinCovered'
    BY <1>0, <2>1, <2>2, LoopPins
  <2> QED
    BY <1>0, <2>1, <2>3, ReturnsStep DEF PInv, Sound
<1>3. ASSUME NEW bs \in [Stages -> Budgets], ForceLaunch(bs) PROVE PInv'
  <2>1. Sound' /\ Tasks' = Tasks /\ Open' = Open
    BY <1>0, <1>3, ForceLaunchSound
  <2>2. /\ UNCHANGED <<seg, pin, out>> /\ active \subseteq active' /\ pc = "launch"
        /\ \A a \in active' \ active : a.status = "run"
    BY <1>3, SMT DEF ForceLaunch, Launched
  <2>3. PinsOwed' /\ PinCovered'
    BY <1>0, <2>1, <2>2, LoopPins
  <2> QED
    BY <1>0, <2>1, <2>3, ReturnsStep DEF PInv, Sound
<1>4. CASE RunStep
  <2>1. PICK a \in active :
          (\E passed \in BOOLEAN : RunOp(a, passed)) \/ MapRetries(a) \/ OpRaises(a)
    BY <1>4 DEF RunStep
  <2>2. Sound' /\ PinsOwed' /\ PinCovered'
    BY <1>0, <2>1, RunSound, RunPinned
  <2> QED
    BY <1>0, <2>2, ReturnsStep DEF PInv, Sound
<1>5. CASE HandleStep
  <2>1. PICK a \in active :
          \/ HandleError(a) \/ HandleRetry(a) \/ HandleDrop(a) \/ HandleEmit(a)
          \/ FanoutRaises(a) \/ HandleNoChildren(a)
          \/ \E n \in fanout_op \ {0} : HandleChildren(a, n) \/ HandleChildrenOut(a, n)
    BY <1>5 DEF HandleStep
  <2>2. Sound' /\ PinsOwed' /\ PinCovered'
    BY <1>0, <2>1, HandlersPinned
  <2> QED
    BY <1>0, <2>2, ReturnsStep DEF PInv, Sound
<1> QED
  BY <1>1, <1>2, <1>3, <1>4, <1>5 DEF Next

\* The inputs, seen as children of a root.
LEMMA PInvInit ==
  ASSUME Init
  PROVE  PInv
<1> DEFINE n == seg.inputs
           q == Children(<<>>, n, {})
           K == Elems(q)
<1>1. /\ seg \in Segments /\ active = {} /\ batch = {} /\ pin = {} /\ tracker = <<>>
      /\ pc = "top" /\ cur = FirstStage
  BY DEF Init
<1>2. n \in Nat
  BY <1>1, SegmentsAssumption, BoundsAssumption, SMT
<1>3. /\ FirstStage \in Stages /\ FirstStage \in Nat /\ LastStage \in Nat
      /\ FirstStage <= LastStage /\ Len(Ops[FirstStage]) \in Nat \ {0}
  BY <1>1, SegmentFacts, SegmentAssumption
<1>4. ASSUME NEW j \in Nat
      PROVE  /\ Append(<<>>, j) = <<j>> /\ <<j>> \in Seq(Nat) /\ Len(<<j>>) = 1
             /\ StageOf(<<j>>) = FirstStage /\ <<j>> \in Ctx
  BY <1>3, SMT DEF StageOf, Ctx
<1>5. waiting = [s \in Stages |-> IF s = FirstStage THEN q ELSE <<>>]
  <2>1. q = [i \in 1..n |-> Task(<<i>>, 1, FALSE, {})]
    BY <1>2, <1>4, SMT DEF Children
  <2> QED
    BY <2>1 DEF Init
<1>6. ChildrenIn(TaskSet, <<>>, n, {})
  <2> SUFFICES ASSUME NEW j \in 1..n PROVE Task(Append(<<>>, j), 1, FALSE, {}) \in TaskSet
    BY DEF ChildrenIn
  <2> DEFINE d == <<j>>
             u == Task(d, 1, FALSE, {})
  <2>1. d \in Ctx /\ StageOf(d) = FirstStage /\ Append(<<>>, j) = d
    BY <1>2, <1>4, SMT
  <2> HIDE DEF d
  <2>2. u \in [ctx : Ctx, op : Nat \ {0}, retry : BOOLEAN, trackers : SUBSET Seq(Nat)]
    BY <2>1, SMT DEF Task
  <2>3. u.op = 1 /\ u.ctx = d
    BY DEF Task
  <2> HIDE DEF u
  <2>4. u \in TaskSet
    BY <1>3, <2>1, <2>2, <2>3, SMT DEF TaskSet
  <2> QED
    BY <2>1, <2>4 DEF u
<1>7. q \in Seq(TaskSet) /\ Distinct(q) /\ Brood(K, <<>>, n, {})
  <2>1. <<>> \in Seq(Nat)
    BY SMT
  <2> HIDE DEF n
  <2> QED
    BY <1>2, <1>6, <2>1, ChildTasks
<1> HIDE DEF q, K, n
<1>8. \A u \in K : \E j \in Nat : u.ctx = Append(<<>>, j) /\ u.ctx = <<j>>
  <2> SUFFICES ASSUME NEW u \in K PROVE \E j \in Nat : u.ctx = Append(<<>>, j) /\ u.ctx = <<j>>
    OBVIOUS
  <2>1. u.ctx \in {Append(<<>>, j) : j \in 1..n}
    BY <1>7 DEF Brood
  <2>2. PICK j \in 1..n : u.ctx = Append(<<>>, j)
    BY <2>1
  <2> QED
    BY <1>2, <1>4, <2>2, SMT
<1>9. /\ <<>> \in Seq(TaskSet) /\ Distinct(<<>>) /\ Elems(<<>>) = {}
  BY SMT DEF Distinct, Elems
<1>10. TasksOf(waiting, active) = K
  <2>1. \A t : t \in TasksOf(waiting, active) <=> \E s \in Stages : t \in Elems(waiting[s])
    BY <1>1 DEF TasksOf
  <2>2. waiting[FirstStage] = q /\ \A s \in Stages \ {FirstStage} : waiting[s] = <<>>
    BY <1>3, <1>5
  <2>3. \A t : t \in TasksOf(waiting, active) <=> t \in K
    BY <1>3, <1>9, <2>1, <2>2, SMT DEF K
  <2> QED
    BY <2>3
<1>11. IsFiniteSet(K)
  BY <1>7 DEF Brood
<1>12. Placed
  <2>1. \A s \in Stages : Distinct(waiting[s]) /\ \A t \in Elems(waiting[s]) : StageOf(t.ctx) = s
    BY <1>3, <1>4, <1>5, <1>7, <1>8, <1>9 DEF K
  <2> QED
    BY <1>1, <1>10, <1>11, <2>1 DEF Placed, PlacedIn
<1>13. Tasks = K
  BY <1>10 DEF Tasks, TasksOf, Queued, Elems
<1>14. DOMAIN tracker = {} /\ tracker \in [DOMAIN tracker -> Trackers]
  BY <1>1, SMT
<1>15. IsManager(kv)
  BY DEF Init, IsManager
<1>16. PTypeOK
  <2>1. waiting \in [Stages -> Seq(TaskSet)]
    BY <1>5, <1>7, <1>9
  <2>2. cur \in FirstStage..(LastStage + 1)
    BY <1>1, <1>3, SMT
  <2>3. IsFiniteSet(active) /\ IsFiniteSet(DOMAIN tracker)
    BY <1>1, <1>14, FS_EmptySet
  <2> QED
    BY <1>1, <1>14, <1>15, <2>1, <2>2, <2>3 DEF PTypeOK
<1>17. Tree
  <2> DEFINE root == Task(<<>>, 1, FALSE, {})
  <2>1. root.ctx = <<>> /\ root.trackers = {} /\ <<>> \in Seq(Nat)
    BY SMT DEF Task
  <2> HIDE DEF root
  <2>2. TreeOver({root}, {})
    BY <2>1 DEF TreeOver
  <2>3. \A u \in K : u.trackers = {}
    BY <1>7 DEF Brood
  <2>4. \A u, v \in K : u.ctx = v.ctx => u = v
    BY <1>7 DEF Brood
  <2>5. FansOut({root}, {}, root, K, {}, K)
    BY <1>8, <2>1, <2>2, <2>3, <2>4 DEF FansOut
  <2>6. TreeOver(K, {})
    BY <2>5, TreeGrows
  <2> QED
    BY <1>13, <1>14, <2>6 DEF Tree
<1>18. Counted
  BY <1>14 DEF Counted, CountedOver
<1>19. Ledger
  <2> SUFFICES ASSUME NEW s \in StageIds
               PROVE  /\ kv.used[s] = SumOver([a \in active |-> a.budget], At(active, s))
                                        + ReservedBy(tracker, Open, s)
                      /\ kv.inflight[s] = Cardinality(At(active, s))
                                            + Cardinality({p \in Open : StageOf(p) = s})
    BY DEF Ledger
  <2>1. kv.used[s] = 0 /\ kv.inflight[s] = 0
    BY DEF Init
  <2>2. At(active, s) = {} /\ Open = {} /\ {p \in Open : StageOf(p) = s} = {}
    BY <1>1, <1>14 DEF At, Open
  <2>3. /\ SumOver([a \in active |-> a.budget], {}) = 0 /\ Cardinality({}) = 0
        /\ SumOver([p \in Open |-> tracker[p].budget], {}) = 0
    BY SumEmpty, FS_EmptySet
  <2> DEFINE f == [a \in active |-> a.budget]
             r == ReservedBy(tracker, Open, s)
             k == Cardinality({p \in Open : StageOf(p) = s})
  <2>4. r = 0 /\ k = 0
    BY <2>2, <2>3 DEF ReservedBy
  <2>5. SumOver(f, At(active, s)) = 0 /\ Cardinality(At(active, s)) = 0
    BY <2>2, <2>3
  <2>6. /\ SumOver(f, At(active, s)) + r = 0
        /\ Cardinality(At(active, s)) + k = 0
    <3> HIDE DEF f, r, k
    <3> QED
      BY <2>4, <2>5, SMT
  <2> QED
    BY <2>1, <2>6
<1> QED
  BY <1>1, <1>12, <1>16, <1>17, <1>18, <1>19
  DEF PInv, PinsOwed, PinCovered, Returns

\* Nothing live, nothing running, nothing counted: the books are empty.
LEMMA ReturnsClean ==
  ASSUME PInv
  PROVE  CleanReturn
<1> SUFFICES ASSUME pc = "returned"
             PROVE  /\ \A s \in StageIds : kv.used[s] = 0 /\ kv.inflight[s] = 0
                    /\ Open = {}
                    /\ \A c \in pin : LeftPinned(c)
  BY DEF CleanReturn
<1>1. Tasks = {}
  BY DEF PInv, Returns
<1>2. active = {}
  BY <1>1 DEF Tasks
<1>3. Open = {}
  <2>1. \A p : Carriers(Tasks, p) = {}
    BY <1>1 DEF Carriers
  <2>2. \A p \in DOMAIN tracker : tracker[p].pending <= 0
    BY <2>1, FS_EmptySet DEF PInv, Counted, CountedOver
  <2>3. \A p \in DOMAIN tracker : tracker[p].pending \in Int
    BY DEF PInv, PTypeOK, Trackers
  <2> QED
    BY <2>2, <2>3, SMT DEF Open
<1>4. ASSUME NEW s \in StageIds PROVE kv.used[s] = 0 /\ kv.inflight[s] = 0
  <2>1. /\ kv.used[s] = SumOver([a \in active |-> a.budget], At(active, s))
                          + ReservedBy(tracker, Open, s)
        /\ kv.inflight[s] = Cardinality(At(active, s))
                              + Cardinality({p \in Open : StageOf(p) = s})
    BY DEF PInv, Ledger
  <2>2. At(active, s) = {} /\ {p \in Open : StageOf(p) = s} = {}
    BY <1>2, <1>3 DEF At
  <2>3. /\ SumOver([a \in active |-> a.budget], {}) = 0 /\ Cardinality({}) = 0
        /\ SumOver([p \in Open |-> tracker[p].budget], {}) = 0
    BY SumEmpty, FS_EmptySet
  <2> DEFINE f == [a \in active |-> a.budget]
             r == ReservedBy(tracker, Open, s)
             k == Cardinality({p \in Open : StageOf(p) = s})
  <2>4. r = 0 /\ k = 0
    BY <2>2, <2>3 DEF ReservedBy
  <2>5. SumOver(f, At(active, s)) = 0 /\ Cardinality(At(active, s)) = 0
    BY <2>2, <2>3
  <2>6. /\ SumOver(f, At(active, s)) + r = 0
        /\ Cardinality(At(active, s)) + k = 0
    <3> HIDE DEF f, r, k
    <3> QED
      BY <2>4, <2>5, SMT
  <2> QED
    BY <2>1, <2>6
<1>5. \A c \in pin : LeftPinned(c)
  BY <1>1, <1>2, <1>3 DEF PInv, PinCovered
<1> QED
  BY <1>3, <1>4, <1>5

-----------------------------------------------------------------------------
(* The steps as steps of Dataflow. *)

(* What Dataflow calls the state, the stages that filter and the end. *)
Outcome == IF pc \in {"returned", "failed"} THEN pc ELSE "running"
Filtering == {s - FirstStage + 1 : s \in FilteringStages}
EndsInJoin == LastStage \in Fanout

\* What a segment filters, and whether it ends in a join, does not change.
LEMMA FixedParts ==
  ASSUME UNCHANGED seg
  PROVE  Filtering' = Filtering /\ EndsInJoin' = EndsInJoin
BY DEF Filtering, EndsInJoin, FilteringStages, Ops, Fanout

\* Steps that Dataflow does not see.
LEMMA Unseen ==
  ASSUME UNCHANGED <<seg, out>>, Tasks' = Tasks, RejectedTuples' = RejectedTuples,
         Outcome' = Outcome
  PROVE  UNCHANGED DF!dvars
<1>1. Live' = Live
  BY DEF Live
<1> QED
  BY <1>1, FixedParts DEF DF!dvars, Outcome, Filtering, EndsInJoin

\* A launched task's tuple is live, and is rejected if the task says so.
LEMMA LaunchedTuple ==
  ASSUME Sound, NEW a \in active
  PROVE  /\ a.task \in Tasks /\ a.task.ctx \in Live
         /\ a.task.ctx \in RejectedTuples <=> a.status = "drop"
         /\ Len(a.task.ctx) = StageOf(a.task.ctx) - FirstStage + 1
         /\ Len(a.task.ctx) \in Nat /\ StageOf(a.task.ctx) \in Stages
<1>0. PTypeOK /\ Placed /\ Tree
  BY DEF Sound
<1>1. a.task \in Tasks
  BY DEF Tasks
<1>2. a.task.ctx \in Live
  BY <1>1 DEF Live
<1>3. ASSUME NEW b \in active, b.task.ctx = a.task.ctx PROVE b = a
  BY <1>0, <1>3, SameCtx
<1>4. a.task.ctx \in RejectedTuples <=> a.status = "drop"
  BY <1>3 DEF RejectedTuples
<1>5. a.task.ctx \in Seq(Nat) /\ StageOf(a.task.ctx) \in Stages
  BY <1>0, LaunchedFacts
<1>6. Len(a.task.ctx) = StageOf(a.task.ctx) - FirstStage + 1 /\ Len(a.task.ctx) \in Nat
  <2> DEFINE n == Len(a.task.ctx)
  <2>1. n \in Nat
    BY <1>5, SMT
  <2> HIDE DEF n
  <2>2. StageOf(a.task.ctx) = FirstStage + n - 1
    BY DEF n, StageOf
  <2>3. n = StageOf(a.task.ctx) - FirstStage + 1
    BY <2>1, <2>2, SegmentAssumption, SMT
  <2> QED
    BY <2>1, <2>3 DEF n
<1> QED
  BY <1>1, <1>2, <1>4, <1>5, <1>6

\* What is live, and what is rejected, when a task has been handled.
LEMMA HandledTuple ==
  ASSUME Sound, NEW a, NEW st, Detach(a, st), NEW K, Tasks' = (Tasks \ {a.task}) \cup K
  PROVE  /\ Live' = (Live \ {a.task.ctx}) \cup {t.ctx : t \in K}
         /\ RejectedTuples' = RejectedTuples \ {a.task.ctx}
         /\ a \in active /\ a.status = st /\ pc = "handle" /\ UNCHANGED seg
<1>0. PTypeOK /\ Placed /\ Tree
  BY DEF Sound
<1>1. a \in active /\ active' = active \ {a} /\ UNCHANGED seg /\ pc = "handle" /\ a.status = st
  BY DEF Detach
<1>2. ASSUME NEW b \in active, b.task.ctx = a.task.ctx PROVE b = a
  BY <1>0, <1>1, <1>2, SameCtx
<1>3. ASSUME NEW t \in Tasks, t.ctx = a.task.ctx PROVE t = a.task
  <2>1. a.task \in Tasks /\ a.task.ctx \in Seq(Nat)
    BY <1>0, <1>1, LaunchedTuple, LaunchedFacts
  <2>2. Above(t.ctx, a.task.ctx)
    BY <1>3, <2>1, AboveSelf
  <2> QED
    BY <1>0, <2>1, <2>2 DEF Tree, TreeOver
<1>4. RejectedTuples' = RejectedTuples \ {a.task.ctx}
  BY <1>1, <1>2 DEF RejectedTuples
<1>5. Live' = (Live \ {a.task.ctx}) \cup {t.ctx : t \in K}
  BY <1>3 DEF Live
<1> QED
  BY <1>1, <1>4, <1>5

\* The steps of the loop are no steps of the dataflow, but for the last, with which the
\* segment ends.
LEMMA LoopFlow ==
  ASSUME Sound,
         \/ LoopTop \/ StartWait \/ Wake \/ Finished \/ UNCHANGED vars
         \/ \E b \in Budgets : LeaveStage(b)
  PROVE  DF!DNext \/ UNCHANGED DF!dvars
<1>1. /\ Tasks' = Tasks /\ UNCHANGED <<seg, active, out>>
  BY LoopSteps
<1>2. RejectedTuples' = RejectedTuples
  BY <1>1 DEF RejectedTuples
<1>3. CASE Outcome' = Outcome
  BY <1>1, <1>2, <1>3, Unseen
<1>4. CASE Outcome' # Outcome
  <2>1. LoopTop /\ ~Pending /\ active = {} /\ pc = "top" /\ pc' = "returned"
    BY <1>4 DEF LoopTop, StartWait, Wake, Finished, vars, LeaveStage, Outcome
  <2>2. Live = {} /\ Live' = {}
    BY <1>1, <2>1, NoTasks DEF Live
  <2>3. Outcome = "running" /\ Outcome' = "returned"
    BY <2>1 DEF Outcome
  <2>4. DF!End
    BY <1>1, <1>2, <2>2, <2>3 DEF DF!End, Outcome
  <2> QED
    BY <1>1, <2>4, FixedParts DEF DF!DNext, Filtering, EndsInJoin
<1> QED
  BY <1>3, <1>4

\* Nor are launches: a task is live before and after, and rejects nothing yet.
LEMMA LaunchFlow ==
  ASSUME Sound,
         \/ \E b \in Budgets : LaunchHead(b)
         \/ \E bs \in [Stages -> Budgets] : ForceLaunch(bs)
  PROVE  UNCHANGED DF!dvars
<1>1. Tasks' = Tasks
  BY LaunchSound, ForceLaunchSound
<1>2. UNCHANGED <<seg, out>>
  BY DEF LaunchHead, ForceLaunch
<1>3. active \subseteq active' /\ \A a \in active' \ active : a.status = "run"
  <2>1. ASSUME NEW b \in Budgets, LaunchHead(b)
        PROVE  active \subseteq active' /\ \A a \in active' \ active : a.status = "run"
    <3>1. active' = active \cup {Launched(Head(waiting[cur]), b)}
      BY <2>1 DEF LaunchHead
    <3>2. Launched(Head(waiting[cur]), b).status = "run"
      BY DEF Launched
    <3> QED
      BY <3>1, <3>2
  <2>2. ASSUME NEW bs \in [Stages -> Budgets], ForceLaunch(bs)
        PROVE  active \subseteq active' /\ \A a \in active' \ active : a.status = "run"
    <3>1. active = {}
      BY <2>2 DEF ForceLaunch
    <3>2. active' = {Launched(Head(waiting[s]), bs[s]) : s \in {x \in Stages : waiting[x] # <<>>}}
      BY <2>2 DEF ForceLaunch
    <3>3. \A t, b : Launched(t, b).status = "run"
      BY DEF Launched
    <3>4. \A a \in active' : a.status = "run"
      BY <3>2, <3>3
    <3> QED
      BY <3>1, <3>4
  <2> QED
    BY <2>1, <2>2
<1>4. RejectedTuples' = RejectedTuples
  BY <1>3 DEF RejectedTuples
<1>5. Outcome' = Outcome
  BY DEF LaunchHead, ForceLaunch, Outcome
<1> QED
  BY <1>1, <1>2, <1>4, <1>5, Unseen

\* An operator that rejects its tuple is a step of the dataflow; what else an operator
\* does is not.
LEMMA RunFlow ==
  ASSUME Sound, NEW a \in active,
         (\E passed \in BOOLEAN : RunOp(a, passed)) \/ MapRetries(a) \/ OpRaises(a)
  PROVE  DF!DNext \/ UNCHANGED DF!dvars
<1> DEFINE c == a.task.ctx
           s == StageOf(c)
<1>0. PTypeOK
  BY DEF Sound
<1>1. Tasks' = Tasks
  BY RunSound
<1>2. /\ a \in LaunchedSet /\ a.at \in Nat \ {0} /\ a.at <= Len(Ops[s])
      /\ a \in [task : {a.task}, budget : {a.budget}, at : {a.at}, status : {a.status}]
  BY <1>0, LaunchedFacts DEF LaunchedSet
<1>3. PICK b :
        /\ Becomes(a, b) /\ b.task = a.task /\ Runs(a)
        /\ b.status = "drop" => Ops[s][a.at] \in Predicates
  <2>1. ASSUME NEW passed \in BOOLEAN, RunOp(a, passed)
        PROVE  \E b : /\ Becomes(a, b) /\ b.task = a.task /\ Runs(a)
                      /\ b.status = "drop" => Ops[s][a.at] \in Predicates
    <3> DEFINE kind == Ops[s][a.at]
               b == IF ~passed /\ kind \in Predicates THEN [a EXCEPT !.status = "drop"]
                    ELSE IF a.at = Len(Ops[s]) THEN [a EXCEPT !.status = "pass"]
                    ELSE [a EXCEPT !.at = @ + 1]
    <3>1. Runs(a) /\ Becomes(a, b)
      BY <2>1 DEF RunOp
    <3>2. a.status = "run"
      BY <3>1 DEF Runs
    <3>3. b.task = a.task /\ (b.status = "drop" => kind \in Predicates)
      BY <1>2, <3>2, SMT
    <3> HIDE DEF b
    <3> QED
      BY <3>1, <3>3
  <2>2. ASSUME MapRetries(a) \/ OpRaises(a)
        PROVE  \E b : /\ Becomes(a, b) /\ b.task = a.task /\ Runs(a)
                      /\ b.status = "drop" => Ops[s][a.at] \in Predicates
    BY <1>2, <2>2, SMT DEF MapRetries, OpRaises
  <2> QED
    BY <2>1, <2>2
<1>4. /\ active' = (active \ {a}) \cup {b} /\ UNCHANGED <<seg, out, pc>>
      /\ a.status = "run" /\ pc \in {"wait", "failed"}
  BY <1>3 DEF Becomes, Runs
<1>5. /\ c \in Live \ RejectedTuples /\ s \in Stages
      /\ Len(c) = s - FirstStage + 1
  BY <1>4, LaunchedTuple
<1>6. Outcome' = Outcome /\ Outcome # "returned"
  BY <1>4 DEF Outcome
<1>7. CASE b.status = "drop"
  <2>1. RejectedTuples' = RejectedTuples \cup {c}
    BY <1>3, <1>4, <1>7 DEF RejectedTuples
  <2>2. s \in FilteringStages
    BY <1>2, <1>3, <1>5, <1>7, SMT DEF FilteringStages, Predicates
  <2>3. Len(c) \in Filtering
    BY <1>5, <2>2 DEF Filtering
  <2>4. Live' = Live
    BY <1>1 DEF Live
  <2>5. DF!Reject(c)
    BY <1>4, <1>5, <1>6, <2>1, <2>3, <2>4 DEF DF!Reject, Outcome, Filtering
  <2> QED
    BY <1>4, <1>5, <2>5, FixedParts DEF DF!DNext, Filtering, EndsInJoin
<1>8. CASE b.status # "drop"
  <2>1. RejectedTuples' = RejectedTuples
    BY <1>3, <1>4, <1>8 DEF RejectedTuples
  <2> QED
    BY <1>1, <1>4, <1>6, <2>1, Unseen
<1> QED
  BY <1>7, <1>8

\* Every handler is a step of the dataflow, but that of a retry, which keeps the tuple.
LEMMA HandlerFlow ==
  ASSUME Sound, NEW a \in active,
         \/ HandleError(a) \/ HandleRetry(a) \/ HandleDrop(a) \/ HandleEmit(a)
         \/ FanoutRaises(a) \/ HandleNoChildren(a)
         \/ \E n \in fanout_op \ {0} : HandleChildren(a, n) \/ HandleChildrenOut(a, n)
  PROVE  DF!DNext \/ UNCHANGED DF!dvars
<1> DEFINE c == a.task.ctx
           s == StageOf(c)
           kids(n) == {Append(c, j) : j \in 1..n}
<1>0. PTypeOK
  BY DEF Sound
<1>1. /\ c \in Live /\ (c \in RejectedTuples <=> a.status = "drop")
      /\ Len(c) = s - FirstStage + 1 /\ s \in Stages
  BY LaunchedTuple
<1>2. /\ FirstStage \in Nat /\ LastStage \in Nat /\ s \in Nat /\ s <= LastStage
      /\ (s \notin Fanout => s = LastStage)
  BY <1>0, <1>1, SegmentFacts, SegmentAssumption, SMT DEF PTypeOK, Stages
<1>3. pc = "handle" /\ Outcome = "running" /\ UNCHANGED seg
  BY DEF HandleError, HandleRetry, HandleDrop, HandleEmit, FanoutRaises, HandleNoChildren,
         HandleChildren, HandleChildrenOut, Detach, Outcome
<1>4. NextPc(a) \notin {"returned", "failed"} 
  BY DEF NextPc
<1>5. ASSUME NEW n \in 0..MaxFanout, s < LastStage, a.status = "pass", Outcome' = "running",
             Live' = (Live \ {c}) \cup kids(n), RejectedTuples' = RejectedTuples, UNCHANGED out
      PROVE  DF!DNext
  <2>1. Len(c) < LastStage - FirstStage + 1
    BY <1>1, <1>2, <1>5, SMT
  <2>2. c \in Live \ RejectedTuples
    BY <1>1, <1>5
  <2>3. DF!Join(c, n)
    BY <1>3, <1>5, <2>1, <2>2 DEF DF!Join, DF!Children, Outcome
  <2> QED
    BY <1>1, <1>3, <1>5, <2>3, FixedParts DEF DF!DNext, Filtering, EndsInJoin
<1>6. ASSUME NEW n \in 0..MaxFanout, s = LastStage, a.status = "pass", Outcome' = "running",
             Live' = Live \ {c}, RejectedTuples' = RejectedTuples,
             out' = out \cup (IF EndsInJoin THEN kids(n) ELSE {c})
      PROVE  DF!DNext
  <2>1. Len(c) = LastStage - FirstStage + 1
    BY <1>1, <1>2, <1>6
  <2>2. c \in Live \ RejectedTuples
    BY <1>1, <1>6
  <2>3. DF!Return(c, n)
    BY <1>3, <1>6, <2>1, <2>2 DEF DF!Return, DF!Children, Outcome, EndsInJoin
  <2> QED
    BY <1>1, <1>3, <1>6, <2>3, FixedParts DEF DF!DNext, Filtering, EndsInJoin
<1>7. 0 \in 0..MaxFanout /\ kids(0) = {}
  BY BoundsAssumption, SMT
<1>8. CASE HandleError(a) \/ FanoutRaises(a)
  <2>1. Tasks' = (Tasks \ {a.task}) \cup {}
    BY <1>8, RaisingHandlers
  <2>2. PICK st : Detach(a, st) /\ st # "drop"
    BY <1>8, SMT DEF HandleError, FanoutRaises
  <2>3. /\ Live' = (Live \ {c}) \cup {t.ctx : t \in {}} /\ RejectedTuples' = RejectedTuples \ {c}
        /\ a.status = st
    BY <2>1, <2>2, HandledTuple
  <2>4. Live' = Live \ {c} /\ c \in Live \ RejectedTuples /\ RejectedTuples' = RejectedTuples
    BY <1>1, <2>2, <2>3
  <2>5. pc' = "failed" /\ UNCHANGED out
    BY <1>8 DEF HandleError, FanoutRaises
  <2>6. Outcome' = "failed"
    BY <2>5 DEF Outcome
  <2>7. DF!Fail(c)
    BY <1>3, <2>4, <2>5, <2>6 DEF DF!Fail, Outcome
  <2> QED
    BY <1>1, <1>3, <2>7, FixedParts DEF DF!DNext, Filtering, EndsInJoin
<1>9. CASE HandleRetry(a)
  <2>1. Tasks' = (Tasks \ {a.task}) \cup {RetryOf(a)}
    BY <1>9, RetryHandler
  <2>2. Detach(a, "retry") /\ pc' = NextPc(a) /\ UNCHANGED out
    BY <1>9 DEF HandleRetry
  <2>3. /\ Live' = (Live \ {c}) \cup {t.ctx : t \in {RetryOf(a)}}
        /\ RejectedTuples' = RejectedTuples \ {c} /\ a.status = "retry"
    BY <2>1, <2>2, HandledTuple
  <2>4. RetryOf(a).ctx = c
    BY DEF RetryOf, Task
  <2>5. Live' = Live /\ RejectedTuples' = RejectedTuples
    BY <1>1, <2>3, <2>4
  <2>6. Outcome' = Outcome
    BY <1>3, <1>4, <2>2 DEF Outcome
  <2> QED
    BY <1>3, <2>2, <2>5, <2>6, FixedParts DEF DF!dvars, Outcome, Filtering, EndsInJoin
<1>10. CASE HandleDrop(a)
  <2>1. Tasks' = (Tasks \ {a.task}) \cup {}
    BY <1>10, SettledHandlers
  <2>2. Detach(a, "drop") /\ pc' = NextPc(a) /\ UNCHANGED out
    BY <1>10 DEF HandleDrop
  <2>3. /\ Live' = (Live \ {c}) \cup {t.ctx : t \in {}} /\ RejectedTuples' = RejectedTuples \ {c}
        /\ a.status = "drop"
    BY <2>1, <2>2, HandledTuple
  <2>4. Live' = Live \ {c} /\ c \in RejectedTuples
    BY <1>1, <2>3
  <2>5. Outcome' = "running"
    BY <1>4, <2>2 DEF Outcome
  <2>6. DF!Remove(c)
    BY <1>3, <2>2, <2>3, <2>4, <2>5 DEF DF!Remove, Outcome
  <2> QED
    BY <1>1, <1>3, <2>6, FixedParts DEF DF!DNext, Filtering, EndsInJoin
<1>11. CASE HandleEmit(a) \/ HandleNoChildren(a)
  <2>1. Tasks' = (Tasks \ {a.task}) \cup {}
    BY <1>11, SettledHandlers
  <2>2. Detach(a, "pass") /\ pc' = NextPc(a)
    BY <1>11 DEF HandleEmit, HandleNoChildren
  <2>3. /\ Live' = (Live \ {c}) \cup {t.ctx : t \in {}} /\ RejectedTuples' = RejectedTuples \ {c}
        /\ a.status = "pass"
    BY <2>1, <2>2, HandledTuple
  <2>4. Live' = Live \ {c} /\ RejectedTuples' = RejectedTuples
    BY <1>1, <2>3
  <2>5. Outcome' = "running"
    BY <1>4, <2>2 DEF Outcome
  <2>6. CASE HandleEmit(a)
    <3>1. s = LastStage /\ ~EndsInJoin /\ out' = out \cup {c}
      BY <1>2, <2>6 DEF HandleEmit, EndsInJoin
    <3>2. out' = out \cup (IF EndsInJoin THEN kids(0) ELSE {c})
      BY <3>1
    <3> QED
      BY <1>6, <1>7, <2>3, <2>4, <2>5, <3>1, <3>2
  <2>7. CASE HandleNoChildren(a)
    <3>1. s \in Fanout /\ UNCHANGED out
      BY <2>7 DEF HandleNoChildren
    <3>2. CASE s < LastStage
      <4>1. Live' = (Live \ {c}) \cup kids(0)
        BY <1>7, <2>4
      <4> QED
        BY <1>5, <1>7, <2>3, <2>4, <2>5, <3>1, <3>2, <4>1
    <3>3. CASE s = LastStage
      <4>1. out' = out \cup (IF EndsInJoin THEN kids(0) ELSE {c})
        BY <1>7, <3>1, <3>3 DEF EndsInJoin
      <4> QED
        BY <1>6, <1>7, <2>3, <2>4, <2>5, <3>3, <4>1
    <3> QED
      BY <1>2, <3>2, <3>3, SMT
  <2> QED
    BY <1>11, <2>6, <2>7
<1>12. ASSUME NEW n \in fanout_op \ {0}, HandleChildren(a, n) PROVE DF!DNext
  <2>0. n \in Nat \ {0} /\ n \in 0..MaxFanout
    BY BoundsAssumption, SMT DEF fanout_op
  <2>1. PICK K : Tasks' = (Tasks \ {a.task}) \cup K /\ Brood(K, c, n, Carried(a))
    BY <1>12, <2>0, ChildrenHandler
  <2>2. Detach(a, "pass") /\ pc' = NextPc(a) /\ UNCHANGED out /\ s < LastStage
    BY <1>12 DEF HandleChildren
  <2>3. /\ Live' = (Live \ {c}) \cup {t.ctx : t \in K} /\ RejectedTuples' = RejectedTuples \ {c}
        /\ a.status = "pass"
    BY <2>1, <2>2, HandledTuple
  <2>4. RejectedTuples' = RejectedTuples
    BY <1>1, <2>3
  <2>5. Live' = (Live \ {c}) \cup kids(n)
    BY <2>1, <2>3 DEF Brood
  <2>6. Outcome' = "running"
    BY <1>4, <2>2 DEF Outcome
  <2> QED
    BY <1>5, <2>0, <2>2, <2>3, <2>4, <2>5, <2>6
<1>13. ASSUME NEW n \in fanout_op \ {0}, HandleChildrenOut(a, n) PROVE DF!DNext
  <2>0. n \in Nat \ {0} /\ n \in 0..MaxFanout
    BY BoundsAssumption, SMT DEF fanout_op
  <2>1. Tasks' = (Tasks \ {a.task}) \cup {}
    BY <1>13, <2>0, ChildrenOutHandler
  <2>2. /\ Detach(a, "pass") /\ pc' = NextPc(a) /\ out' = out \cup kids(n)
        /\ s = LastStage /\ EndsInJoin
    BY <1>13 DEF HandleChildrenOut, EndsInJoin
  <2>3. /\ Live' = (Live \ {c}) \cup {t.ctx : t \in {}} /\ RejectedTuples' = RejectedTuples \ {c}
        /\ a.status = "pass"
    BY <2>1, <2>2, HandledTuple
  <2>4. Live' = Live \ {c} /\ RejectedTuples' = RejectedTuples
    BY <1>1, <2>3
  <2>5. out' = out \cup (IF EndsInJoin THEN kids(n) ELSE {c})
    BY <2>2
  <2>6. Outcome' = "running"
    BY <1>4, <2>2 DEF Outcome
  <2> QED
    BY <1>6, <2>0, <2>2, <2>3, <2>4, <2>5, <2>6
<1> QED
  BY <1>8, <1>9, <1>10, <1>11, <1>12, <1>13

\* The first state of a segment is one of the dataflow: its inputs are live.
LEMMA InitFlow ==
  ASSUME Init
  PROVE  DF!DInit
<1>1. /\ seg \in Segments /\ active = {} /\ out = {} /\ pc = "top"
      /\ waiting = [s \in Stages |->
           IF s = FirstStage THEN [i \in 1..seg.inputs |-> Task(<<i>>, 1, FALSE, {})] ELSE <<>>]
  BY DEF Init
<1>2. seg.inputs \in 0..Inputs /\ seg.inputs \in Nat
  BY <1>1, SegmentsAssumption, BoundsAssumption, SMT
<1>3. FirstStage \in Stages /\ FirstStage \in Nat /\ LastStage \in Nat
  BY <1>1, SegmentFacts
<1>4. Queued(FirstStage) = {Task(<<i>>, 1, FALSE, {}) : i \in 1..seg.inputs}
  <2> DEFINE n == seg.inputs
             q == [i \in 1..n |-> Task(<<i>>, 1, FALSE, {})]
  <2>1. waiting[FirstStage] = q
    BY <1>1, <1>3
  <2>2. n \in Nat
    BY <1>2
  <2> HIDE DEF n
  <2>3. Len(q) = n
    BY <2>2, SMT
  <2>4. \A i \in 1..n : q[i] = Task(<<i>>, 1, FALSE, {})
    OBVIOUS
  <2> HIDE DEF q
  <2> QED
    BY <2>1, <2>3, <2>4 DEF Queued, n
<1>5. \A s \in Stages : s # FirstStage => Queued(s) = {}
  BY <1>1, SMT DEF Queued
<1>6. Tasks = {Task(<<i>>, 1, FALSE, {}) : i \in 1..seg.inputs}
  BY <1>1, <1>3, <1>4, <1>5 DEF Tasks
<1>7. Live = {<<i>> : i \in 1..seg.inputs}
  <2>1. \A c : Task(c, 1, FALSE, {}).ctx = c
    BY DEF Task
  <2> QED
    BY <1>6, <2>1 DEF Live
<1>8. RejectedTuples = {} /\ Outcome = "running"
  BY <1>1 DEF RejectedTuples, Outcome
<1>9. Filtering \subseteq 1..(LastStage - FirstStage + 1) /\ EndsInJoin \in BOOLEAN
  BY <1>3, SMT DEF Filtering, FilteringStages, Stages, EndsInJoin
<1> QED
  BY <1>1, <1>2, <1>7, <1>8, <1>9 DEF DF!DInit, Outcome, Filtering, EndsInJoin

\* Every step of the executor is a step of the dataflow or none.
LEMMA FlowStep == PInv /\ [Next]_vars => [DF!DNext]_(DF!dvars)
<1> SUFFICES ASSUME PInv, [Next]_vars PROVE DF!DNext \/ UNCHANGED DF!dvars
  OBVIOUS
<1>0. Sound
  BY DEF PInv, Sound
<1> QED
  BY <1>0, LoopFlow, LaunchFlow, RunFlow, HandlerFlow DEF Next, RunStep, HandleStep

-----------------------------------------------------------------------------
(* The theorems. *)

\* The invariant holds in every state.
THEOREM PipelineInvariant == Spec => []PInv
BY PInvInit, PInvStep, PTL DEF Spec

\* On every path but the raising ones a stage is charged what its launched
\* tasks and the open trackers of its contexts hold, in bytes and in number.
THEOREM LedgerHolds == Spec => []Ledger
<1>1. PInv => Ledger
  BY DEF PInv
<1> QED
  BY <1>1, PipelineInvariant, PTL

\* Every pinned context has somebody left to unpin it.
THEOREM PinCoveredHolds == Spec => []PinCovered
<1>1. PInv => PinCovered
  BY DEF PInv
<1> QED
  BY <1>1, PipelineInvariant, PTL

\* execute_tasks returns the manager empty and leaves no context pinned but
\* the results of a query that ends in an index search.
THEOREM CleanReturnHolds == Spec => []CleanReturn
BY ReturnsClean, PipelineInvariant, PTL

\* execute_tasks computes what Dataflow says: no tuple is lost, repeated or passed on
\* without its join, for any segment, inputs, fan-out and budgets.
THEOREM PipelineIsDataflow == Spec => ImplementsDataflow
BY InitFlow, FlowStep, PipelineInvariant, PTL DEF Spec, ImplementsDataflow, DF!DataflowSpec
=============================================================================
