----------------------------- MODULE KVManager -----------------------------
(***************************************************************************)
(* The stage half of KVMemoryManager (vllm/kalypso/budget.py): what each   *)
(* method does to the manager's dictionaries, as functions from a manager  *)
(* state to a manager state.                                               *)
(*                                                                         *)
(* A manager state m is a record of one field per dictionary:              *)
(*   m.reg       ids present in _stage_capacity (stages never leave it)    *)
(*   m.cap       _stage_capacity       m.min       _stage_min_capacity     *)
(*   m.max       _stage_max_capacity   m.used      _stage_used             *)
(*   m.inflight  _stage_inflight                                           *)
(* An id that is not registered has zero in every field, which is what the *)
(* code's .get(stage_id, 0) reads.  Bytes are integers here; the code's    *)
(* fractions are multiplied out before a stage is registered.              *)
(*                                                                         *)
(* Every method body runs under `async with self._cond` and awaits nothing *)
(* else, so each is one atomic step of the event loop.                     *)
(***************************************************************************)
EXTENDS Integers

CONSTANTS
  Capacity,  \* self._capacity: KV bytes of the whole engine
  StageIds   \* the stage ids plans may use

ASSUME CapacityAssumption == Capacity \in Nat \ {0}
ASSUME StageIdsAssumption == StageIds \subseteq Nat

Larger(a, b)  == IF a >= b THEN a ELSE b
Smaller(a, b) == IF a <= b THEN a ELSE b

ManagerState ==
  [reg : SUBSET StageIds, cap : [StageIds -> Nat], min : [StageIds -> Nat],
   max : [StageIds -> Nat], used : [StageIds -> Nat], inflight : [StageIds -> Nat]]

(* __init__: no stage is registered. *)
EmptyManager ==
  LET zero == [s \in StageIds |-> 0]
  IN [reg |-> {}, cap |-> zero, min |-> zero, max |-> zero,
      used |-> zero, inflight |-> zero]

(* register_stage: the byte values of the fractions are c, lo and hi.  The *)
(* counters restart at zero even if the stage was registered before.       *)
Registered(m, s, c, lo, hi) ==
  [reg      |-> m.reg \cup {s},
   cap      |-> [m.cap EXCEPT ![s] = c],
   min      |-> [m.min EXCEPT ![s] = Smaller(lo, c)],
   max      |-> [m.max EXCEPT ![s] = hi],
   used     |-> [m.used EXCEPT ![s] = 0],
   inflight |-> [m.inflight EXCEPT ![s] = 0]]

\* Mutant of Fits: what is in use is not counted.
FitsAlone(m, s, b) == b <= m.cap[s]

(* The admission test of can_admit_stage and try_allocate_stage. *)
Fits(m, s, b) == m.used[s] + b <= m.cap[s]

(* What try_allocate_stage, allocate_stage and force_allocate_stage do     *)
(* once they have decided to admit.                                        *)
Charged(m, s, b) ==
  [m EXCEPT !.used = [m.used EXCEPT ![s] = @ + b],
            !.inflight = [m.inflight EXCEPT ![s] = @ + 1]]

\* Mutants of Released: the bytes are forgotten; the in-flight count is.
ReleasedCountOnly(m, s, b) ==
  [m EXCEPT !.inflight = [m.inflight EXCEPT ![s] = Larger(0, @ - 1)]]
ReleasedBytesOnly(m, s, b) ==
  [m EXCEPT !.used = [m.used EXCEPT ![s] = Larger(0, @ - b)]]

(* release_stage, with its clamping at zero. *)
Released(m, s, b) ==
  [m EXCEPT !.used = [m.used EXCEPT ![s] = Larger(0, @ - b)],
            !.inflight = [m.inflight EXCEPT ![s] = Larger(0, @ - 1)]]

(***************************************************************************)
(* Moving capacity between stages.                                         *)
(***************************************************************************)

(* quantum = max(1, int(self._capacity * 0.05)) *)
Quantum == Larger(1, Capacity \div 20)

\* Mutant of Moved: the receiver is credited, the donor is not debited.
MovedUndebited(m, from, to, d) ==
  [m EXCEPT !.cap = [m.cap EXCEPT ![to] = @ + d]]

(* Take d bytes of capacity from one stage and give them to another. *)
Moved(m, from, to, d) ==
  [m EXCEPT !.cap = [m.cap EXCEPT ![from] = @ - d, ![to] = @ + d]]

(* What a donor can lend: it keeps its minimum and whatever is in use. *)
Borrowable(m, d) == m.cap[d] - Larger(m.min[d], m.used[d])

Donors(m, r) ==
  {d \in m.reg \ {r} : Borrowable(m, d) > 0 /\ m.cap[r] < m.max[r]}

BorrowDelta(m, r, d) ==
  Smaller(Quantum, Smaller(Borrowable(m, d), m.max[r] - m.cap[r]))

(* The hint is asked first, then the others in registration order, which   *)
(* is the order of the ids because build numbers the stages 1, 2, ...      *)
FirstDonor(m, r, hint, d) ==
  /\ d \in Donors(m, r)
  /\ d # hint => /\ hint \notin Donors(m, r)
                 /\ \A e \in Donors(m, r) : d <= e

(* rebalance_stage_capacity(receiver_id, donor_hint) *)
Borrowed(m, r, hint) ==
  IF Donors(m, r) = {} THEN m
  ELSE LET d == CHOOSE e \in Donors(m, r) : FirstDonor(m, r, hint, e)
       IN Moved(m, d, r, BorrowDelta(m, r, d))

(* _last_stage_id: the largest id ever registered, whichever plan it is of *)
IsLastStage(m, s) == s \in m.reg /\ \A t \in m.reg : t <= s

Floor(m, s, force) == IF force THEN m.used[s] ELSE Larger(m.min[s], m.used[s])

Releasable(m, s, force) == m.cap[s] - Floor(m, s, force)

ReturnDelta(m, s, r, force) ==
  Smaller(Quantum, Smaller(Releasable(m, s, force), m.max[r] - m.cap[r]))

CanReturn(m, s, r, force) ==
  /\ Releasable(m, s, force) > 0
  /\ IsLastStage(m, r) /\ r # s
  /\ m.cap[r] < m.max[r]

(* return_stage_capacity(stage_id, force_return) *)
Returned(m, s, force) ==
  IF \E r \in m.reg : CanReturn(m, s, r, force)
  THEN LET r == CHOOSE t \in m.reg : IsLastStage(m, t)
       IN Moved(m, s, r, ReturnDelta(m, s, r, force))
  ELSE m
=============================================================================
