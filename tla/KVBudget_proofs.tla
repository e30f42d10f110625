--------------------------- MODULE KVBudget_proofs ---------------------------
(***************************************************************************)
(* Theorems about KVBudget, for any capacity, any stages, any finite set   *)
(* of clients and any budgets.  The lemmas about sums come from            *)
(* PipelineTasks_proofs, which needs them for the executor's books.        *)
(***************************************************************************)
EXTENDS KVBudget, PipelineTasks_proofs

\* The leaves are first-order steps for Zenon; those with arithmetic or large records name SMT.
USE Zenon

(* quantum = max(1, ...): a move is never of zero bytes. *)
LEMMA QuantumType == Quantum \in Nat /\ Quantum >= 1
  BY CapacityAssumption, SMT DEF Quantum, Larger

(* What a call of rebalance_stage_capacity takes from the donor: something, *)
(* within its spare bytes, the receiver's room and a quantum.              *)
LEMMA BorrowBounds ==
  ASSUME NEW m \in ManagerState, NEW r \in StageIds, NEW d \in Donors(m, r)
  PROVE  /\ d \in StageIds /\ d # r
         /\ BorrowDelta(m, r, d) \in 1..Quantum
         /\ m.used[d] <= m.cap[d] - BorrowDelta(m, r, d)
         /\ m.cap[r] + BorrowDelta(m, r, d) <= m.max[r]
  BY QuantumType, SMT
  DEF Donors, BorrowDelta, Borrowable, Smaller, Larger, ManagerState

(* The same for return_stage_capacity, forced or not. *)
LEMMA ReturnBounds ==
  ASSUME NEW m \in ManagerState, NEW s \in StageIds, NEW r \in StageIds,
         NEW force \in BOOLEAN, CanReturn(m, s, r, force)
  PROVE  /\ r # s
         /\ ReturnDelta(m, s, r, force) \in 1..Quantum
         /\ m.used[s] <= m.cap[s] - ReturnDelta(m, s, r, force)
         /\ m.cap[r] + ReturnDelta(m, s, r, force) <= m.max[r]
  BY QuantumType, SMT
  DEF CanReturn, ReturnDelta, Releasable, Floor, Smaller, Larger, ManagerState

(* Moving capacity keeps the manager well formed when the donor has it. *)
LEMMA MovedType ==
  ASSUME NEW m \in ManagerState, NEW d \in StageIds, NEW r \in StageIds, d # r,
         NEW q \in Nat, q <= m.cap[d]
  PROVE  /\ Moved(m, d, r, q) \in ManagerState
         /\ Moved(m, d, r, q).cap =
              [m.cap EXCEPT ![d] = m.cap[d] - q, ![r] = m.cap[r] + q]
         /\ Moved(m, d, r, q).reg = m.reg
         /\ Moved(m, d, r, q).max = m.max
         /\ Moved(m, d, r, q).used = m.used
         /\ Moved(m, d, r, q).inflight = m.inflight
  BY SMT DEF Moved, ManagerState

\* A manager with other counters is a manager.
LEMMA CountersType ==
  ASSUME NEW m \in ManagerState,
         NEW u \in [StageIds -> Nat], NEW i \in [StageIds -> Nat]
  PROVE  [m EXCEPT !.used = u, !.inflight = i] \in ManagerState
  BY DEF ManagerState

(* What charging and releasing a stage do to the manager. *)
LEMMA ChargedType ==
  ASSUME NEW m \in ManagerState, NEW s \in StageIds, NEW b \in Nat
  PROVE  /\ Charged(m, s, b) \in ManagerState
         /\ Charged(m, s, b).cap = m.cap
         /\ Charged(m, s, b).max = m.max
         /\ Charged(m, s, b).reg = m.reg
         /\ Charged(m, s, b).used = [m.used EXCEPT ![s] = m.used[s] + b]
         /\ Charged(m, s, b).inflight = [m.inflight EXCEPT ![s] = m.inflight[s] + 1]
  <1>1. /\ [m.used EXCEPT ![s] = m.used[s] + b] \in [StageIds -> Nat]
        /\ [m.inflight EXCEPT ![s] = m.inflight[s] + 1] \in [StageIds -> Nat]
    BY SMT DEF ManagerState
  <1>2. Charged(m, s, b) \in ManagerState
    BY <1>1, CountersType DEF Charged
  <1> QED
    BY <1>2 DEF Charged, ManagerState

\* What release_stage does: it clamps the counters of one stage at zero, no more.
LEMMA ReleasedType ==
  ASSUME NEW m \in ManagerState, NEW s \in StageIds, NEW b \in Nat
  PROVE  /\ Released(m, s, b) \in ManagerState
         /\ Released(m, s, b).cap = m.cap
         /\ Released(m, s, b).max = m.max
         /\ Released(m, s, b).reg = m.reg
         /\ Released(m, s, b).used =
              [m.used EXCEPT ![s] = Larger(0, m.used[s] - b)]
         /\ Released(m, s, b).inflight =
              [m.inflight EXCEPT ![s] = Larger(0, m.inflight[s] - 1)]
  <1>1. /\ [m.used EXCEPT ![s] = Larger(0, m.used[s] - b)] \in [StageIds -> Nat]
        /\ [m.inflight EXCEPT ![s] = Larger(0, m.inflight[s] - 1)]
             \in [StageIds -> Nat]
    BY SMT DEF ManagerState, Larger
  <1>2. Released(m, s, b) \in ManagerState
    BY <1>1, CountersType DEF Released
  <1> QED
    BY <1>2 DEF Released, ManagerState

(* A client that holds a charge holds a proper one. *)
LEMMA ChargeHeld ==
  ASSUME TypeOK, NEW c \in Clients, charge[c] # NoCharge
  PROVE  /\ charge[c].stage \in StageIds
         /\ charge[c].budget \in Nat
         /\ charge[c].forced \in BOOLEAN
  BY BudgetsAssumption DEF TypeOK, Charge

(* Both capacity moves are a Moved step of a proper amount. *)
CapacityStep ==
  \E d, r \in StageIds : \E q \in 1..Quantum :
    /\ d # r
    /\ kv.used[d] <= kv.cap[d] - q
    /\ kv.cap[r] + q <= kv.max[r]
    /\ kv' = Moved(kv, d, r, q)
    /\ UNCHANGED <<charge, lent, restarted>>

\* rebalance_stage_capacity moves capacity and nothing else.
LEMMA RebalanceIsCapacityStep ==
  ASSUME TypeOK, NEW r \in StageIds, NEW hint \in StageIds,
         RebalanceStageCapacity(r, hint)
  PROVE  CapacityStep
  <1>1. PICK d \in Donors(kv, r) : kv' = Moved(kv, d, r, BorrowDelta(kv, r, d))
    BY DEF RebalanceStageCapacity
  <1>2. kv \in ManagerState
    BY DEF TypeOK
  <1> QED
    BY <1>1, <1>2, BorrowBounds DEF CapacityStep, RebalanceStageCapacity

\* return_stage_capacity moves capacity and nothing else.
LEMMA ReturnIsCapacityStep ==
  ASSUME TypeOK, NEW s \in StageIds, NEW force \in BOOLEAN,
         ReturnStageCapacity(s, force)
  PROVE  CapacityStep
  <1>1. PICK r \in kv.reg : /\ CanReturn(kv, s, r, force)
                            /\ kv' = Moved(kv, s, r, ReturnDelta(kv, s, r, force))
    BY DEF ReturnStageCapacity
  <1>2. kv \in ManagerState /\ r \in StageIds
    BY DEF TypeOK, ManagerState
  <1> QED
    BY <1>1, <1>2, ReturnBounds DEF CapacityStep, ReturnStageCapacity

(* The effect of the three kinds of step on the manager's fields. *)
LEMMA AllocateEffect ==
  ASSUME TypeOK, NEW c \in Clients, NEW s \in StageIds, NEW b \in Budgets,
         TryAllocateStage(c, s, b) \/ ForceAllocateStage(c, s, b)
  PROVE  /\ kv' \in ManagerState
         /\ kv'.cap = kv.cap /\ kv'.max = kv.max
         /\ \A t \in StageIds :
              /\ kv'.used[t] = kv.used[t] + (IF t = s THEN b ELSE 0)
              /\ kv'.inflight[t] = kv.inflight[t] + (IF t = s THEN 1 ELSE 0)
  <1>1. kv \in ManagerState /\ b \in Nat
    BY BudgetsAssumption DEF TypeOK
  <1>2. kv' = Charged(kv, s, b)
    BY DEF TryAllocateStage, ForceAllocateStage
  <1>3. /\ kv' \in ManagerState
        /\ kv'.cap = kv.cap /\ kv'.max = kv.max
        /\ kv'.used = [kv.used EXCEPT ![s] = kv.used[s] + b]
        /\ kv'.inflight = [kv.inflight EXCEPT ![s] = kv.inflight[s] + 1]
    BY <1>1, <1>2, ChargedType, SMT
  <1> QED
    BY <1>1, <1>3, SMT DEF ManagerState

\* A task that gives its budget back holds none, and its stage is released.
LEMMA ReleaseEffect ==
  ASSUME TypeOK, NEW c \in Clients, ReleaseStage(c)
  PROVE  LET s == charge[c].stage
             b == charge[c].budget
         IN /\ kv' \in ManagerState /\ s \in StageIds /\ b \in Nat
            /\ kv'.cap = kv.cap /\ kv'.max = kv.max
            /\ kv'.used = [kv.used EXCEPT ![s] = Larger(0, kv.used[s] - b)]
            /\ kv'.inflight =
                 [kv.inflight EXCEPT ![s] = Larger(0, kv.inflight[s] - 1)]
  <1> DEFINE s == charge[c].stage
             b == charge[c].budget
  <1>1. kv \in ManagerState /\ s \in StageIds /\ b \in Nat
    BY ChargeHeld DEF TypeOK, ReleaseStage
  <1>2. kv' = Released(kv, s, b)
    BY DEF ReleaseStage
  <1> HIDE DEF s, b
  <1>3. /\ kv' \in ManagerState /\ s \in StageIds /\ b \in Nat
        /\ kv'.cap = kv.cap /\ kv'.max = kv.max
        /\ kv'.used = [kv.used EXCEPT ![s] = Larger(0, kv.used[s] - b)]
        /\ kv'.inflight = [kv.inflight EXCEPT ![s] = Larger(0, kv.inflight[s] - 1)]
    BY <1>1, <1>2, ReleasedType, SMT
  <1> QED
    BY <1>3 DEF s, b

\* Every move takes some bytes, at most a quantum, from a stage that can spare them
\* to one that has room.
LEMMA CapacityEffect ==
  ASSUME TypeOK, CapacityStep
  PROVE  \E d, r \in StageIds : \E q \in 1..Quantum :
           /\ d # r /\ q \in Nat
           /\ kv.used[d] <= kv.cap[d] - q
           /\ kv.cap[r] + q <= kv.max[r]
           /\ kv' \in ManagerState
           /\ kv'.cap = [kv.cap EXCEPT ![d] = kv.cap[d] - q, ![r] = kv.cap[r] + q]
           /\ kv'.max = kv.max /\ kv'.used = kv.used
           /\ kv'.inflight = kv.inflight
           /\ UNCHANGED <<charge, lent, restarted>>
  <1>1. PICK d, r \in StageIds, q \in 1..Quantum :
               /\ d # r
               /\ kv.used[d] <= kv.cap[d] - q
               /\ kv.cap[r] + q <= kv.max[r]
               /\ kv' = Moved(kv, d, r, q)
               /\ UNCHANGED <<charge, lent, restarted>>
    BY DEF CapacityStep
  <1>2. kv \in ManagerState
    BY DEF TypeOK
  <1>3. q \in Nat /\ q <= kv.cap[d]
    BY <1>1, <1>2, QuantumType, SMT DEF ManagerState
  <1> QED
    BY <1>1, <1>2, <1>3, MovedType, SMT

-----------------------------------------------------------------------------
(* Type correctness: in particular no counter and no capacity of           *)
(* KVMemoryManager ever becomes negative.                                  *)
LEMMA TypeStep == TypeOK /\ [Next]_vars => TypeOK'
  <1> SUFFICES ASSUME TypeOK, [Next]_vars PROVE TypeOK'
    OBVIOUS
  <1> USE DEF TypeOK
  <1>1. ASSUME NEW s \in StageIds, NEW g \in Grants[s], RegisterStage(s, g)
        PROVE  TypeOK'
    BY <1>1, GrantsAssumption DEF RegisterStage, Registered, ManagerState, Smaller
  <1>2. ASSUME NEW c \in Clients, NEW s \in StageIds, NEW b \in Budgets,
               TryAllocateStage(c, s, b) \/ ForceAllocateStage(c, s, b)
        PROVE  TypeOK'
    <2>1. kv' \in ManagerState
      BY <1>2, AllocateEffect
    <2>2. charge' \in [Clients -> Charge \cup {NoCharge}]
      <3>1. [stage |-> s, budget |-> b, forced |-> FALSE] \in Charge
            /\ [stage |-> s, budget |-> b, forced |-> TRUE] \in Charge
        BY DEF Charge
      <3> QED
        BY <1>2, <3>1 DEF TryAllocateStage, ForceAllocateStage
    <2>3. lent' \in [StageIds -> Nat]
      BY <1>2, BudgetsAssumption, SMT DEF TryAllocateStage, ForceAllocateStage
    <2>4. restarted' = restarted
      BY <1>2 DEF TryAllocateStage, ForceAllocateStage
    <2> QED
      BY <2>1, <2>2, <2>3, <2>4
  <1>4. ASSUME NEW c \in Clients, ReleaseStage(c)
        PROVE  TypeOK'
    <2>1. kv' \in ManagerState /\ charge[c].stage \in StageIds
          /\ charge[c].budget \in Nat
      BY <1>4, ReleaseEffect
    <2>2. charge' \in [Clients -> Charge \cup {NoCharge}]
      BY <1>4 DEF ReleaseStage
    <2>3. lent' \in [StageIds -> Nat]
      BY <1>4, <2>1, SMT DEF ReleaseStage, Larger
    <2>4. restarted' = restarted
      BY <1>4 DEF ReleaseStage
    <2> QED
      BY <2>1, <2>2, <2>3, <2>4
  <1>5. ASSUME CapacityStep PROVE TypeOK'
    BY <1>5, CapacityEffect
  <1>6. CASE UNCHANGED vars
    BY <1>6 DEF vars
  <1> QED
    BY <1>1, <1>2, <1>4, <1>5, <1>6, RebalanceIsCapacityStep,
       ReturnIsCapacityStep DEF Next

\* The fields of KVMemoryManager keep their types: counters stay natural numbers,
\* whatever is charged, released, moved or registered again.
THEOREM TypeCorrect == Spec => []TypeOK
  <1>1. Init => TypeOK
    BY SMT DEF Init, TypeOK, EmptyManager, ManagerState
  <1> QED
    BY <1>1, TypeStep, PTL DEF Spec

-----------------------------------------------------------------------------
(* Over-commitment is the work of force_allocate_stage alone: checked      *)
(* admission, borrowing, returning and releasing never put a stage further *)
(* above its capacity than the forced bytes still out.  Inductive together *)
(* with the types, whether or not a stage is restarted under holders.   *)
THEOREM OnlyForceOverCommits == Spec => []OverCommitIsForced
  <1>1. Init => OverCommitIsForced
    BY SMT DEF Init, OverCommitIsForced, EmptyManager
  <1>2. TypeOK /\ OverCommitIsForced /\ [Next]_vars => OverCommitIsForced'
    <2> SUFFICES ASSUME TypeOK, OverCommitIsForced, [Next]_vars,
                        NEW t \in StageIds
                 PROVE  kv'.used[t] <= kv'.cap[t] + lent'[t]
      BY DEF OverCommitIsForced
    <2>0. /\ kv \in ManagerState /\ lent \in [StageIds -> Nat]
          /\ kv.used[t] <= kv.cap[t] + lent[t]
          /\ kv.used \in [StageIds -> Nat] /\ kv.cap \in [StageIds -> Nat]
      BY DEF TypeOK, OverCommitIsForced, ManagerState
    <2>1. ASSUME NEW s \in StageIds, NEW g \in Grants[s], RegisterStage(s, g)
          PROVE  kv'.used[t] <= kv'.cap[t] + lent'[t]
      BY <2>0, <2>1, GrantsAssumption, SMT DEF RegisterStage, Registered, ManagerState
    <2>2. ASSUME NEW c \in Clients, NEW s \in StageIds, NEW b \in Budgets,
                 TryAllocateStage(c, s, b)
          PROVE  kv'.used[t] <= kv'.cap[t] + lent'[t]
      <3>0. TryAllocateStage(c, s, b) \/ ForceAllocateStage(c, s, b)
        BY <2>2
      <3>1. /\ kv'.cap = kv.cap
            /\ kv'.used[t] = kv.used[t] + (IF t = s THEN b ELSE 0)
        BY <3>0, AllocateEffect
      <3>2. b \in Nat /\ lent' = lent /\ kv.used[s] + b <= kv.cap[s]
        BY <2>2, BudgetsAssumption DEF TryAllocateStage, Fits
      <3> QED
        BY <2>0, <3>1, <3>2, SMT
    <2>3. ASSUME NEW c \in Clients, NEW s \in StageIds, NEW b \in Budgets,
                 ForceAllocateStage(c, s, b)
          PROVE  kv'.used[t] <= kv'.cap[t] + lent'[t]
      <3>0. TryAllocateStage(c, s, b) \/ ForceAllocateStage(c, s, b)
        BY <2>3
      <3>1. /\ kv'.cap = kv.cap
            /\ kv'.used[t] = kv.used[t] + (IF t = s THEN b ELSE 0)
        BY <3>0, AllocateEffect
      <3>2. b \in Nat /\ lent' = [lent EXCEPT ![s] = lent[s] + b]
        BY <2>3, BudgetsAssumption DEF ForceAllocateStage
      <3> QED
        BY <2>0, <3>1, <3>2, SMT
    <2>4. ASSUME NEW c \in Clients, ReleaseStage(c)
          PROVE  kv'.used[t] <= kv'.cap[t] + lent'[t]
      <3> DEFINE s == charge[c].stage
                 b == charge[c].budget
      <3>1. /\ s \in StageIds /\ b \in Nat /\ kv'.cap = kv.cap
            /\ kv'.used = [kv.used EXCEPT ![s] = Larger(0, kv.used[s] - b)]
        BY <2>4, ReleaseEffect
      <3>2. lent' = lent \/ lent' = [lent EXCEPT ![s] = Larger(0, lent[s] - b)]
        BY <2>4 DEF ReleaseStage
      <3> HIDE DEF s, b
      <3> QED
        BY <2>0, <3>1, <3>2, SMT DEF Larger
    <2>5. ASSUME CapacityStep PROVE kv'.used[t] <= kv'.cap[t] + lent'[t]
      <3>1. PICK d, r \in StageIds, q \in Nat :
                   /\ d # r
                   /\ kv.used[d] <= kv.cap[d] - q
                   /\ kv'.cap = [kv.cap EXCEPT ![d] = kv.cap[d] - q,
                                              ![r] = kv.cap[r] + q]
                   /\ kv'.used = kv.used /\ lent' = lent
        BY <2>5, CapacityEffect
      <3> QED
        BY <2>0, <3>1, SMT
    <2>6. CASE UNCHANGED vars
      BY <2>0, <2>6 DEF vars
    <2> QED
      BY <2>1, <2>2, <2>3, <2>4, <2>5, <2>6, RebalanceIsCapacityStep,
         ReturnIsCapacityStep DEF Next
  <1> QED
    BY <1>1, <1>2, TypeCorrect, PTL DEF Spec

(* No sequence of borrowing and returning lifts a stage above the maximum  *)
(* it was registered with.                                                 *)
THEOREM CapacityBounded == Spec => []CapWithinMax
  <1>1. Init => CapWithinMax
    BY SMT DEF Init, CapWithinMax, EmptyManager
  <1>2. TypeOK /\ CapWithinMax /\ [Next]_vars => CapWithinMax'
    <2> SUFFICES ASSUME TypeOK, CapWithinMax, [Next]_vars, NEW t \in StageIds
                 PROVE  kv'.cap[t] <= kv'.max[t]
      BY DEF CapWithinMax
    <2>0. /\ kv \in ManagerState /\ kv.cap[t] <= kv.max[t]
          /\ kv.cap[t] \in Nat /\ kv.max[t] \in Nat
      BY DEF TypeOK, CapWithinMax, ManagerState
    <2>1. ASSUME NEW s \in StageIds, NEW g \in Grants[s], RegisterStage(s, g)
          PROVE  kv'.cap[t] <= kv'.max[t]
      BY <2>0, <2>1, GrantsAssumption DEF RegisterStage, Registered, ManagerState
    <2>2. ASSUME NEW c \in Clients, NEW s \in StageIds, NEW b \in Budgets,
                 TryAllocateStage(c, s, b) \/ ForceAllocateStage(c, s, b)
          PROVE  kv'.cap[t] <= kv'.max[t]
      BY <2>0, <2>2, AllocateEffect
    <2>3. ASSUME NEW c \in Clients, ReleaseStage(c)
          PROVE  kv'.cap[t] <= kv'.max[t]
      BY <2>0, <2>3, ReleaseEffect
    <2>4. ASSUME CapacityStep PROVE kv'.cap[t] <= kv'.max[t]
      <3>1. PICK d, r \in StageIds, q \in Nat :
                   /\ d # r
                   /\ kv.cap[r] + q <= kv.max[r]
                   /\ kv'.cap = [kv.cap EXCEPT ![d] = kv.cap[d] - q,
                                              ![r] = kv.cap[r] + q]
                   /\ kv'.max = kv.max
        BY <2>4, CapacityEffect
      <3> QED
        BY <2>0, <3>1, SMT DEF ManagerState
    <2>5. CASE UNCHANGED vars
      BY <2>0, <2>5 DEF vars
    <2> QED
      BY <2>1, <2>2, <2>3, <2>4, <2>5, RebalanceIsCapacityStep,
         ReturnIsCapacityStep DEF Next
  <1> QED
    BY <1>1, <1>2, TypeCorrect, PTL DEF Spec

-----------------------------------------------------------------------------
(* Capacity is neither created nor destroyed by a step that registers no   *)
(* stage: it moves from one stage to one other, at most a quantum at a     *)
(* time, never out of what is in use and never above a maximum.            *)
THEOREM CapacityMovesBalance == Spec => CapacityMoves
  <1>1. TypeOK /\ [Next]_vars => [MovesBalance]_vars
    <2> SUFFICES ASSUME TypeOK, [Next]_vars, ~Registers
                 PROVE  \A s \in StageIds : Gain(s) # 0 =>
                          /\ \E t \in StageIds \ {s} :
                               /\ Gain(t) = -Gain(s)
                               /\ \A u \in StageIds \ {s, t} : Gain(u) = 0
                          /\ Gain(s) <= Quantum
                          /\ IF Gain(s) < 0 THEN kv'.used[s] <= kv'.cap[s]
                                            ELSE kv'.cap[s] <= kv'.max[s]
      BY DEF MovesBalance
    <2>0. /\ kv \in ManagerState /\ kv.cap \in [StageIds -> Nat]
          /\ kv.used \in [StageIds -> Nat] /\ kv.max \in [StageIds -> Nat]
      BY DEF TypeOK, ManagerState
    <2>1. CASE kv'.cap = kv.cap
      BY <2>0, <2>1, SMT DEF Gain
    <2>2. CASE CapacityStep
      <3>1. PICK d, r \in StageIds, q \in 1..Quantum :
                   /\ d # r /\ q \in Nat
                   /\ kv.used[d] <= kv.cap[d] - q
                   /\ kv.cap[r] + q <= kv.max[r]
                   /\ kv'.cap = [kv.cap EXCEPT ![d] = kv.cap[d] - q,
                                              ![r] = kv.cap[r] + q]
                   /\ kv'.max = kv.max /\ kv'.used = kv.used
        BY <2>2, CapacityEffect
      <3>2. q <= Quantum /\ Quantum \in Nat /\ q >= 1
        BY QuantumType, SMT
      <3>3. /\ kv'.cap[d] = kv.cap[d] - q /\ kv'.cap[r] = kv.cap[r] + q
            /\ \A u \in StageIds \ {d, r} : kv'.cap[u] = kv.cap[u]
        BY <2>0, <3>1
      <3>4. kv.cap[d] \in Nat /\ kv.cap[r] \in Nat /\ \A u \in StageIds : kv.cap[u] \in Nat
        BY <2>0, <3>1
      <3>5. /\ Gain(d) = -q /\ Gain(r) = q
            /\ \A u \in StageIds \ {d, r} : Gain(u) = 0
        BY <3>1, <3>3, <3>4, SMT DEF Gain
      <3>6. ASSUME NEW s \in StageIds, Gain(s) # 0
            PROVE  s = d \/ s = r
        BY <3>5, <3>6
      <3>7. kv'.used[d] <= kv'.cap[d] /\ kv'.cap[r] <= kv'.max[r]
        BY <3>1, <3>3
      <3>8. /\ Gain(d) = -Gain(r) /\ Gain(r) = -Gain(d)
            /\ Gain(d) < 0 /\ ~(Gain(r) < 0) /\ Gain(d) <= Quantum /\ Gain(r) <= Quantum
        BY <3>1, <3>2, <3>5, SMT
      <3> QED
        BY <3>1, <3>5, <3>6, <3>7, <3>8
    <2>3. ASSUME NEW c \in Clients, NEW x \in StageIds, NEW b \in Budgets,
                 TryAllocateStage(c, x, b) \/ ForceAllocateStage(c, x, b)
          PROVE  kv'.cap = kv.cap
      BY <2>3, AllocateEffect
    <2>4. ASSUME NEW c \in Clients, ReleaseStage(c)
          PROVE  kv'.cap = kv.cap
      BY <2>4, ReleaseEffect
    <2>5. CASE UNCHANGED vars
      BY <2>1, <2>5 DEF vars
    <2> QED
      BY <2>1, <2>2, <2>3, <2>4, <2>5, RebalanceIsCapacityStep,
         ReturnIsCapacityStep DEF Next, Registers
  <1> QED
    BY <1>1, TypeCorrect, PTL DEF Spec, CapacityMoves

-----------------------------------------------------------------------------
(* The holders of a stage are finitely many, and a client that takes or    *)
(* gives up a charge changes them by itself alone.                         *)
LEMMA HoldersFinite ==
  ASSUME NEW s PROVE IsFiniteSet(Holders(s)) /\ Cardinality(Holders(s)) \in Nat
  <1>1. Holders(s) \subseteq Clients
    BY DEF Holders
  <1> QED
    BY <1>1, ClientsAssumption, FS_Subset, FS_CardinalityType

(* What InflightExact says of one stage. *)
Counts(s) ==
  /\ kv.inflight[s] <= Cardinality(Holders(s))
  /\ s \notin restarted => kv.inflight[s] = Cardinality(Holders(s))

(* _stage_inflight counts exactly the tasks that hold a budget, so the     *)
(* clamp in release_stage is not reached, unless register_stage restarted  *)
(* the stage under its holders; then it counts too few, never too many.    *)
THEOREM InflightIsExact == Spec => []InflightExact
  <1>1. Init => InflightExact
    <2> SUFFICES ASSUME Init, NEW s \in StageIds
                 PROVE  kv.inflight[s] = Cardinality(Holders(s)) /\ kv.inflight[s] = 0
      BY SMT DEF InflightExact
    <2>1. Holders(s) = {}
      BY StageIdsAssumption, SMT DEF Init, Holders, NoCharge
    <2> QED
      BY <2>1, FS_EmptySet DEF Init, EmptyManager
  <1>2. TypeOK /\ InflightExact /\ [Next]_vars => InflightExact'
    <2> SUFFICES ASSUME TypeOK, InflightExact, [Next]_vars, NEW t \in StageIds
                 PROVE  Counts(t)'
      BY DEF InflightExact, Counts
    <2>0. /\ kv \in ManagerState /\ kv.inflight \in [StageIds -> Nat]
          /\ Counts(t)
          /\ kv.inflight[t] \in Nat /\ Cardinality(Holders(t)) \in Nat
          /\ charge \in [Clients -> Charge \cup {NoCharge}]
      BY HoldersFinite DEF TypeOK, InflightExact, Counts, ManagerState
    <2>1. ASSUME NEW s \in StageIds, NEW g \in Grants[s], RegisterStage(s, g)
          PROVE  Counts(t)'
      <3>1. Holders(t)' = Holders(t)
        BY <2>1 DEF RegisterStage, Holders
      <3>2. kv'.inflight = [kv.inflight EXCEPT ![s] = 0]
        BY <2>1 DEF RegisterStage, Registered
      <3>3. restarted' = IF Holders(s) = {} THEN restarted \ {s} ELSE restarted \cup {s}
        BY <2>1 DEF RegisterStage
      <3>4. CASE t = s
        <4>1. kv'.inflight[t] = 0
          BY <2>0, <3>2, <3>4
        <4>2. t \notin restarted' => Cardinality(Holders(t)) = 0
          BY <3>3, <3>4, FS_EmptySet
        <4> QED
          BY <2>0, <3>1, <4>1, <4>2, SMT DEF Counts
      <3>5. CASE t # s
        BY <2>0, <3>1, <3>2, <3>3, <3>5 DEF Counts
      <3> QED
        BY <3>4, <3>5
    <2>2. ASSUME NEW c \in Clients, NEW s \in StageIds, NEW b \in Budgets,
                 TryAllocateStage(c, s, b) \/ ForceAllocateStage(c, s, b)
          PROVE  Counts(t)'
      <3>1. kv'.inflight[t] = kv.inflight[t] + (IF t = s THEN 1 ELSE 0)
        BY <2>2, AllocateEffect
      <3>0. restarted' = restarted
        BY <2>2 DEF TryAllocateStage, ForceAllocateStage
      <3>2. /\ charge[c].stage = -1
            /\ charge'[c].stage = s
            /\ \A x \in Clients \ {c} : charge'[x] = charge[x]
        BY <2>0, <2>2, SMT DEF TryAllocateStage, ForceAllocateStage, NoCharge
      <3>3. CASE t = s
        <4>1. Holders(t)' = Holders(t) \cup {c} /\ c \notin Holders(t)
          BY <2>0, <3>2, <3>3, StageIdsAssumption, SMT DEF Holders
        <4>2. Cardinality(Holders(t)') = Cardinality(Holders(t)) + 1
          BY <4>1, HoldersFinite, FS_AddElement
        <4> QED
          BY <2>0, <3>0, <3>1, <3>3, <4>2, SMT DEF Counts
      <3>4. CASE t # s
        <4>1. Holders(t)' = Holders(t)
          BY <2>0, <3>2, <3>4, StageIdsAssumption, SMT DEF Holders
        <4> QED
          BY <2>0, <3>0, <3>1, <3>4, <4>1, SMT DEF Counts
      <3> QED
        BY <3>3, <3>4
    <2>3. ASSUME NEW c \in Clients, ReleaseStage(c)
          PROVE  Counts(t)'
      <3> DEFINE s == charge[c].stage
      <3>1. s \in StageIds
            /\ kv'.inflight = [kv.inflight EXCEPT ![s] = Larger(0, kv.inflight[s] - 1)]
        BY <2>3, ReleaseEffect
      <3>2. charge' = [charge EXCEPT ![c] = NoCharge]
        BY <2>3 DEF ReleaseStage
      <3>0. restarted' = restarted
        BY <2>3 DEF ReleaseStage
      <3>3. CASE t = s
        <4>1. Holders(t)' = Holders(t) \ {c} /\ c \in Holders(t)
          BY <2>0, <3>2, <3>3, StageIdsAssumption, SMT DEF Holders, NoCharge
        <4>2. Cardinality(Holders(t)') = Cardinality(Holders(t)) - 1
          BY <4>1, HoldersFinite, FS_RemoveElement
        <4>3. Cardinality(Holders(t)) # 0
          BY <4>1, HoldersFinite, FS_EmptySet
        <4>4. kv'.inflight[t] = Larger(0, kv.inflight[t] - 1)
          BY <2>0, <3>1, <3>3
        <4> QED
          BY <2>0, <3>0, <4>2, <4>3, <4>4, HoldersFinite, SMT DEF Larger, Counts
      <3>4. CASE t # s
        <4>1. Holders(t)' = Holders(t)
          BY <2>0, <3>2, <3>4, StageIdsAssumption, SMT DEF Holders, NoCharge
        <4> QED
          BY <2>0, <3>0, <3>1, <3>4, <4>1 DEF Counts
      <3> QED
        BY <3>3, <3>4
    <2>4. ASSUME CapacityStep PROVE Counts(t)'
      BY <2>0, <2>4, CapacityEffect DEF Holders, Counts
    <2>5. CASE UNCHANGED vars
      BY <2>0, <2>5 DEF vars, Holders, Counts
    <2> QED
      BY <2>1, <2>2, <2>3, <2>4, <2>5, RebalanceIsCapacityStep,
         ReturnIsCapacityStep DEF Next
  <1> QED
    BY <1>1, <1>2, TypeCorrect, PTL DEF Spec

(* What UsedExact says of one stage. *)
Adds(s) ==
  /\ kv.used[s] <= BudgetHeld(s)
  /\ s \notin restarted => kv.used[s] = BudgetHeld(s)

\* What the tasks hold on a stage is a natural number.
LEMMA BudgetHeldType ==
  ASSUME TypeOK, NEW s \in StageIds
  PROVE  BudgetHeld(s) \in Nat /\ \A c \in Holders(s) : Budget[c] \in Nat
  <1>1. \A c \in Holders(s) : Budget[c] \in Nat
    BY ChargeHeld, StageIdsAssumption, SMT DEF Holders, Budget, NoCharge
  <1> QED
    BY <1>1, HoldersFinite, SumType DEF BudgetHeld

(* What is held on a stage changes with its holders alone. *)
LEMMA BudgetHeldSame ==
  ASSUME NEW s, Holders(s)' = Holders(s), \A c \in Holders(s) : charge'[c] = charge[c]
  PROVE  BudgetHeld(s)' = BudgetHeld(s)
  <1>1. \A c \in Holders(s) : Budget'[c] = Budget[c]
    BY DEF Budget, Holders
  <1>2. SumOver(Budget', Holders(s)) = SumOver(Budget, Holders(s))
    BY <1>1, HoldersFinite, SumSame, SMT
  <1> QED
    BY <1>2 DEF BudgetHeld

(* _stage_used is the sum of the budgets held on the stage, so that the    *)
(* clamp in release_stage hides nothing, unless register_stage restarted   *)
(* the stage under its holders; then it is too small, never too large.     *)
THEOREM UsedIsExact == Spec => []UsedExact
  <1>1. Init => UsedExact
    <2> SUFFICES ASSUME Init, NEW s \in StageIds
                 PROVE  kv.used[s] = BudgetHeld(s) /\ kv.used[s] = 0
      BY SMT DEF UsedExact
    <2>1. Holders(s) = {}
      BY StageIdsAssumption, SMT DEF Init, Holders, NoCharge
    <2> QED
      BY <2>1, SumEmpty DEF Init, EmptyManager, BudgetHeld
  <1>2. TypeOK /\ TypeOK' /\ UsedExact /\ [Next]_vars => UsedExact'
    <2> SUFFICES ASSUME TypeOK, TypeOK', UsedExact, [Next]_vars, NEW t \in StageIds
                 PROVE  Adds(t)'
      BY DEF UsedExact, Adds
    <2>0. /\ kv \in ManagerState /\ kv.used \in [StageIds -> Nat]
          /\ Adds(t)
          /\ kv.used[t] \in Nat /\ BudgetHeld(t) \in Nat
          /\ charge \in [Clients -> Charge \cup {NoCharge}]
      BY BudgetHeldType DEF TypeOK, UsedExact, Adds, ManagerState
    <2>1. ASSUME NEW s \in StageIds, NEW g \in Grants[s], RegisterStage(s, g)
          PROVE  Adds(t)'
      <3>1. Holders(t)' = Holders(t) /\ charge' = charge
        BY <2>1 DEF RegisterStage, Holders
      <3>2. BudgetHeld(t)' = BudgetHeld(t)
        BY <3>1, BudgetHeldSame
      <3>3. kv'.used = [kv.used EXCEPT ![s] = 0]
        BY <2>1 DEF RegisterStage, Registered
      <3>4. restarted' = IF Holders(s) = {} THEN restarted \ {s} ELSE restarted \cup {s}
        BY <2>1 DEF RegisterStage
      <3>5. CASE t = s
        <4>1. kv'.used[t] = 0
          BY <2>0, <3>3, <3>5
        <4>2. t \notin restarted' => BudgetHeld(t) = 0
          BY <3>4, <3>5, SumEmpty DEF BudgetHeld
        <4> QED
          BY <2>0, <3>2, <4>1, <4>2, SMT DEF Adds
      <3>6. CASE t # s
        BY <2>0, <3>2, <3>3, <3>4, <3>6 DEF Adds
      <3> QED
        BY <3>5, <3>6
    <2>2. ASSUME NEW c \in Clients, NEW s \in StageIds, NEW b \in Budgets,
                 TryAllocateStage(c, s, b) \/ ForceAllocateStage(c, s, b)
          PROVE  Adds(t)'
      <3>1. kv'.used[t] = kv.used[t] + (IF t = s THEN b ELSE 0)
        BY <2>2, AllocateEffect
      <3>0. restarted' = restarted /\ b \in Nat
        BY <2>2, BudgetsAssumption DEF TryAllocateStage, ForceAllocateStage
      <3>2. /\ charge[c].stage = -1
            /\ charge'[c].stage = s /\ charge'[c].budget = b
            /\ \A x \in Clients \ {c} : charge'[x] = charge[x]
        BY <2>0, <2>2, SMT DEF TryAllocateStage, ForceAllocateStage, NoCharge
      <3>3. CASE t = s
        <4>1. Holders(t)' = Holders(t) \cup {c} /\ c \notin Holders(t)
          BY <2>0, <3>2, <3>3, StageIdsAssumption, SMT DEF Holders
        <4>2. /\ \A x \in Holders(t) : Budget'[x] = Budget[x]
              /\ Budget'[c] = b
          BY <3>2, <4>1 DEF Budget, Holders
        <4>3. /\ IsFiniteSet(Holders(t)) /\ \A x \in Holders(t) : Budget'[x] \in Nat
              /\ SumOver(Budget', Holders(t)) = SumOver(Budget, Holders(t))
          BY <4>2, BudgetHeldType, HoldersFinite, SumSame
        <4>4. SumOver(Budget', Holders(t) \cup {c}) = SumOver(Budget', Holders(t)) + Budget'[c]
          BY <3>0, <4>1, <4>2, <4>3, SumAdd
        <4>5. BudgetHeld(t)' = BudgetHeld(t) + b
          BY <4>1, <4>2, <4>3, <4>4 DEF BudgetHeld
        <4> QED
          BY <2>0, <3>0, <3>1, <3>3, <4>5, SMT DEF Adds
      <3>4. CASE t # s
        <4>1. Holders(t)' = Holders(t) /\ \A x \in Holders(t) : charge'[x] = charge[x]
          BY <2>0, <3>2, <3>4, StageIdsAssumption, SMT DEF Holders
        <4>2. BudgetHeld(t)' = BudgetHeld(t)
          BY <4>1, BudgetHeldSame
        <4> QED
          BY <2>0, <3>0, <3>1, <3>4, <4>2, SMT DEF Adds
      <3> QED
        BY <3>3, <3>4
    <2>3. ASSUME NEW c \in Clients, ReleaseStage(c)
          PROVE  Adds(t)'
      <3> DEFINE s == charge[c].stage
                 b == charge[c].budget
      <3>1. /\ s \in StageIds /\ b \in Nat
            /\ kv'.used = [kv.used EXCEPT ![s] = Larger(0, kv.used[s] - b)]
        BY <2>3, ReleaseEffect
      <3>2. charge' = [charge EXCEPT ![c] = NoCharge]
        BY <2>3 DEF ReleaseStage
      <3>0. restarted' = restarted
        BY <2>3 DEF ReleaseStage
      <3>3. CASE t = s
        <4>1. Holders(t)' = Holders(t) \ {c} /\ c \in Holders(t)
          BY <2>0, <3>2, <3>3, StageIdsAssumption, SMT DEF Holders, NoCharge
        <4>2. \A x \in Holders(t) \ {c} : Budget'[x] = Budget[x]
          BY <2>0, <3>2 DEF Budget, Holders
        <4>3. BudgetHeld(t) = b + SumOver(Budget, Holders(t) \ {c})
          <5>1. Budget[c] = b
            BY DEF Budget
          <5> QED
            BY <4>1, <5>1, BudgetHeldType, HoldersFinite, SumRemove, SMT DEF BudgetHeld
        <4>4. IsFiniteSet(Holders(t) \ {c})
          BY HoldersFinite, FS_RemoveElement
        <4>5. SumOver(Budget', Holders(t) \ {c}) = SumOver(Budget, Holders(t) \ {c})
          BY <4>2, <4>4, SumSame
        <4>6. BudgetHeld(t)' = SumOver(Budget, Holders(t) \ {c})
          BY <4>1, <4>5 DEF BudgetHeld
        <4>7. BudgetHeld(t)' \in Nat
          <5>1. \A x \in Holders(t) \ {c} : Budget[x] \in Nat
            BY BudgetHeldType
          <5> QED
            BY <4>4, <4>6, <5>1, SumType
        <4>8. kv'.used[t] = Larger(0, kv.used[t] - b)
          BY <2>0, <3>1, <3>3
        <4> HIDE DEF b
        <4> QED
          BY <2>0, <3>0, <3>1, <4>3, <4>6, <4>7, <4>8, SMT DEF Larger, Adds
      <3>4. CASE t # s
        <4>1. Holders(t)' = Holders(t) /\ \A x \in Holders(t) : charge'[x] = charge[x]
          BY <2>0, <3>2, <3>4, StageIdsAssumption, SMT DEF Holders, NoCharge
        <4>2. BudgetHeld(t)' = BudgetHeld(t)
          BY <4>1, BudgetHeldSame
        <4> QED
          BY <2>0, <3>0, <3>1, <3>4, <4>2 DEF Adds
      <3> QED
        BY <3>3, <3>4
    <2>4. ASSUME kv'.used = kv.used, UNCHANGED <<charge, restarted>> PROVE Adds(t)'
      <3>1. BudgetHeld(t)' = BudgetHeld(t)
        BY <2>4, BudgetHeldSame DEF Holders
      <3> QED
        BY <2>0, <2>4, <3>1 DEF Adds
    <2>5. CASE CapacityStep
      BY <2>4, <2>5, CapacityEffect
    <2>6. CASE UNCHANGED vars
      BY <2>4, <2>6 DEF vars
    <2> QED
      BY <2>1, <2>2, <2>3, <2>5, <2>6, RebalanceIsCapacityStep,
         ReturnIsCapacityStep DEF Next
  <1> QED
    BY <1>1, <1>2, TypeCorrect, PTL DEF Spec
=============================================================================
