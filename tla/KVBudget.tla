------------------------------ MODULE KVBudget ------------------------------
(***************************************************************************)
(* KVMemoryManager as a shared object: stages are registered by plans, and *)
(* any number of running tasks (Clients) charge a budget to a stage and    *)
(* release it, in any order, while capacity moves between stages.          *)
(*                                                                         *)
(* The module assumes nothing of how the executor drives the manager, so   *)
(* what it shows holds for every caller that releases what it allocated.   *)
(***************************************************************************)
EXTENDS KVManager, FiniteSets, Sums

CONSTANTS
  Clients,          \* tasks that may hold a charge
  Budgets,          \* the budgets tasks may ask for
  Grants            \* Grants[s]: what plans register stage s with, in bytes

ASSUME ClientsAssumption   == IsFiniteSet(Clients)
ASSUME BudgetsAssumption   == Budgets \subseteq Nat \ {0}
ASSUME GrantsAssumption    ==
  \A s \in StageIds : \A g \in Grants[s] :
    g \in [cap : Nat, min : Nat, max : Nat] /\ g.cap <= g.max

VARIABLES
  kv,      \* the manager
  charge,  \* charge[c]: what client c holds
  lent,    \* lent[s]: bytes force_allocate_stage put on s, not yet released
  restarted   \* stages whose counters restarted at zero under their holders

vars == <<kv, charge, lent, restarted>>

NoCharge == [stage |-> -1, budget |-> 0, forced |-> FALSE]
Charge   == [stage : StageIds, budget : Budgets, forced : BOOLEAN]

Holders(s) == {c \in Clients : charge[c].stage = s}

TypeOK ==
  /\ kv \in ManagerState
  /\ charge \in [Clients -> Charge \cup {NoCharge}]
  /\ lent \in [StageIds -> Nat]
  /\ restarted \subseteq StageIds

Init ==
  /\ kv = EmptyManager
  /\ charge = [c \in Clients |-> NoCharge]
  /\ lent = [s \in StageIds |-> 0]
  /\ restarted = {}

(***************************************************************************)
(* register_stage, with the fractions a plan computes: the minimum may be  *)
(* given above the capacity (it is cut down), the maximum is at least the  *)
(* capacity.  Ids are handed out in order, starting again at 1 for every   *)
(* query, so with two queries running the id may be in use.                *)
(***************************************************************************)
RegisterStage(s, g) ==
  /\ \A t \in StageIds : t < s => t \in kv.reg
  /\ kv' = Registered(kv, s, g.cap, g.min, g.max)
  /\ lent' = [lent EXCEPT ![s] = 0]
  /\ restarted' = IF Holders(s) = {} THEN restarted \ {s} ELSE restarted \cup {s}
  /\ UNCHANGED charge

(* try_allocate_stage that succeeds; a refusal changes nothing.            *)
(* allocate_stage is the same step, taken after waiting for the test.      *)
TryAllocateStage(c, s, b) ==
  /\ charge[c] = NoCharge
  /\ s \in kv.reg
  /\ Fits(kv, s, b)
  /\ kv' = Charged(kv, s, b)
  /\ charge' = [charge EXCEPT ![c] = [stage |-> s, budget |-> b, forced |-> FALSE]]
  /\ UNCHANGED <<lent, restarted>>

(* force_allocate_stage: no test at all. *)
ForceAllocateStage(c, s, b) ==
  /\ charge[c] = NoCharge
  /\ s \in kv.reg
  /\ kv' = Charged(kv, s, b)
  /\ charge' = [charge EXCEPT ![c] = [stage |-> s, budget |-> b, forced |-> TRUE]]
  /\ lent' = [lent EXCEPT ![s] = @ + b]
  /\ UNCHANGED restarted

ReleaseStage(c) ==
  LET h == charge[c]
  IN /\ h # NoCharge
     /\ kv' = Released(kv, h.stage, h.budget)
     /\ charge' = [charge EXCEPT ![c] = NoCharge]
     /\ lent' = IF h.forced
                THEN [lent EXCEPT ![h.stage] = Larger(0, @ - h.budget)]
                ELSE lent
     /\ UNCHANGED restarted

(* A rebalance_stage_capacity call that finds a donor. *)
RebalanceStageCapacity(r, hint) ==
  /\ \E d \in Donors(kv, r) :
       /\ FirstDonor(kv, r, hint, d)
       /\ kv' = Moved(kv, d, r, BorrowDelta(kv, r, d))
  /\ UNCHANGED <<charge, lent, restarted>>

(* A return_stage_capacity call that moves something. *)
ReturnStageCapacity(s, force) ==
  /\ \E r \in kv.reg :
       /\ CanReturn(kv, s, r, force)
       /\ kv' = Moved(kv, s, r, ReturnDelta(kv, s, r, force))
  /\ UNCHANGED <<charge, lent, restarted>>

Next ==
  \/ \E s \in StageIds : \E g \in Grants[s] : RegisterStage(s, g)
  \/ \E c \in Clients, s \in StageIds, b \in Budgets :
       \/ TryAllocateStage(c, s, b)
       \/ ForceAllocateStage(c, s, b)
  \/ \E c \in Clients : ReleaseStage(c)
  \/ \E r, hint \in StageIds : r \in kv.reg /\ hint # r /\ RebalanceStageCapacity(r, hint)
  \/ \E s \in StageIds, force \in BOOLEAN : s \in kv.reg /\ ReturnStageCapacity(s, force)

Spec == Init /\ [][Next]_vars

-----------------------------------------------------------------------------
(* Properties. *)

Budget == [c \in Clients |-> charge[c].budget]

BudgetHeld(s) == SumOver(Budget, Holders(s))

(* _stage_used is exactly the sum of the budgets held on the stage, so the *)
(* clamp at zero in release_stage hides no difference.  When a second      *)
(* query registers the id of a stage in use, register_stage forgets what   *)
(* is held and the clamp absorbs its release: the counter may then be too  *)
(* small, never too large, and no stage is refused memory it has.          *)
UsedExact ==
  \A s \in StageIds : /\ kv.used[s] <= BudgetHeld(s)
                      /\ s \notin restarted => kv.used[s] = BudgetHeld(s)

(* _stage_inflight is the number of tasks that hold a budget of the stage, *)
(* with the same exception.                                                *)
InflightExact ==
  \A s \in StageIds : /\ kv.inflight[s] <= Cardinality(Holders(s))
                      /\ s \notin restarted => kv.inflight[s] = Cardinality(Holders(s))

(* A stage is over its capacity by no more than force_allocate_stage put   *)
(* on it: neither a move of capacity nor a checked admission adds to it.   *)
OverCommitIsForced == \A s \in StageIds : kv.used[s] <= kv.cap[s] + lent[s]

(* Borrowing and returning never push a stage over its maximum. *)
CapWithinMax == \A s \in StageIds : kv.cap[s] <= kv.max[s]

(* Capacity is neither created nor destroyed but by a registration: in any *)
(* other step a stage that gains or loses some has one partner that loses  *)
(* or gains as much, and the rest keep theirs.  It is at most a quantum, a *)
(* stage that loses still covers all that is in use on it, and one that    *)
(* gains stays within its maximum.                                         *)
Registers == \E s \in StageIds : \E g \in Grants[s] : RegisterStage(s, g)
Gain(s) == kv'.cap[s] - kv.cap[s]
MovesBalance ==
  \/ \A s \in StageIds : Gain(s) # 0 =>
       /\ \E t \in StageIds \ {s} :
            /\ Gain(t) = -Gain(s)
            /\ \A u \in StageIds \ {s, t} : Gain(u) = 0
       /\ Gain(s) <= Quantum
       /\ IF Gain(s) < 0 THEN kv'.used[s] <= kv'.cap[s] ELSE kv'.cap[s] <= kv'.max[s]
  \/ Registers
CapacityMoves == [][MovesBalance]_vars
=============================================================================
