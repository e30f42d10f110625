------------------------- MODULE PipelineTasks_proofs -------------------------
(***************************************************************************)
(* What the operators of PipelineTasks do, whatever the executor's state:  *)
(* sums, queues without repetitions, the places of tasks, the fan-out tree,*)
(* the counters of the JoinTrackers and the books of the manager.          *)
(*                                                                         *)
(* The library states facts about sums only for an operator parameter;     *)
(* here the summands are a function's.  Induction over a finite set goes   *)
(* by a smallest counterexample (LeastSubset), which needs no operator     *)
(* parameter either.                                                       *)
(***************************************************************************)
EXTENDS PipelineTasks, FiniteSetTheorems, TLAPS

\* The leaves are first-order steps for Zenon; those with arithmetic or large records name SMT.
USE Zenon

-----------------------------------------------------------------------------
(* Sums: nothing for no element, one summand more for one element more,    *)
(* whichever it is.                                                        *)

(* The element the fold takes first. *)
Pick(s) == CHOOSE x \in s : TRUE

(* The equation of the fold's recursive function, for the subsets of S. *)
Steps(it, f, S) ==
  it = [s \in SUBSET S |-> IF s = {} THEN 0 ELSE f[Pick(s)] + it[s \ {Pick(s)}]]

Fold(f, S) == CHOOSE it : Steps(it, f, S)

(* SumOver is the recursive function of the library's fold at the set. *)
LEMMA SumUnfold ==
  ASSUME NEW f, NEW S
  PROVE  SumOver(f, S) = Fold(f, S)[S]
  BY DEF SumOver, MapThenFoldSet, Fold, Steps, Pick

(* A set that is not empty has the element the fold takes. *)
LEMMA PickIn == ASSUME NEW s, s # {} PROVE Pick(s) \in s
  BY DEF Pick

(* Of some subsets of a finite set one contains no other. *)
LEMMA LeastSubset ==
  ASSUME NEW S, IsFiniteSet(S), NEW B, B \subseteq SUBSET S, B # {}
  PROVE  \E T \in B : \A U \in B : U \subseteq T => U = T
<1>1. IsWellFoundedOn(StrictSubsetOrdering(S), SUBSET S)
  BY FS_StrictSubsetOrderingWellFounded, FS_FiniteSubsetsOfFinite
<1>2. PICK T \in B : \A U \in B : ~ (<<U, T>> \in StrictSubsetOrdering(S))
  BY <1>1, WFMin
<1>3. ASSUME NEW U \in B, U \subseteq T, U # T PROVE FALSE
  <2>1. <<U, T>> \in StrictSubsetOrdering(S)
    BY <1>3 DEF StrictSubsetOrdering
  <2> QED
    BY <1>2, <2>1
<1> QED
  BY <1>2, <1>3

(* Two functions that follow the fold's equation agree where both do. *)
LEMMA StepsAgree ==
  ASSUME NEW f, NEW S, NEW T, IsFiniteSet(S), T \subseteq S,
         NEW g, Steps(g, f, S), NEW h, Steps(h, f, T)
  PROVE  \A V \in SUBSET T : g[V] = h[V]
<1> DEFINE B == {V \in SUBSET T : g[V] # h[V]}
<1> SUFFICES ASSUME B # {} PROVE FALSE
  OBVIOUS
<1>1. IsFiniteSet(T)
  BY FS_Subset
<1>2. PICK V \in B : \A U \in B : U \subseteq V => U = V
  <2> HIDE DEF B
  <2>1. B \subseteq SUBSET T
    BY DEF B
  <2> QED
    BY <1>1, <2>1, LeastSubset, SMT
<1> DEFINE W == V \ {Pick(V)}
<1>3. /\ g[V] = IF V = {} THEN 0 ELSE f[Pick(V)] + g[W]
      /\ h[V] = IF V = {} THEN 0 ELSE f[Pick(V)] + h[W]
  BY DEF Steps
<1>4. V # {} => g[W] = h[W]
  BY <1>2, PickIn
<1> QED
  BY <1>3, <1>4

(* The fold's equation has a solution. *)
LEMMA FoldSteps ==
  ASSUME NEW f, NEW S, IsFiniteSet(S)
  PROVE  Steps(Fold(f, S), f, S)
<1> DEFINE B == {T \in SUBSET S : ~ Steps(Fold(f, T), f, T)}
<1> SUFFICES ASSUME B # {} PROVE FALSE
  OBVIOUS
<1>1. PICK T \in B : \A U \in B : U \subseteq T => U = T
  <2> HIDE DEF B
  <2>1. B \subseteq SUBSET S
    BY DEF B
  <2> QED
    BY <2>1, LeastSubset, SMT
<1>2. IsFiniteSet(T) /\ \A s \in SUBSET T : IsFiniteSet(s)
  BY FS_Subset
<1> DEFINE Rest(s) == s \ {Pick(s)}
           g == [s \in SUBSET T |-> IF s = {} THEN 0
                                    ELSE f[Pick(s)] + Fold(f, Rest(s))[Rest(s)]]
<1>3. \A s \in SUBSET T : s # {} => Rest(s) \in SUBSET T /\ Steps(Fold(f, Rest(s)), f, Rest(s))
  BY <1>1, PickIn, SMT
<1>4. ASSUME NEW u \in SUBSET T, u # T PROVE g[u] = Fold(f, u)[u]
  <2>1. Steps(Fold(f, u), f, u)
    BY <1>1, <1>4
  <2>2. Fold(f, u)[u] = IF u = {} THEN 0 ELSE f[Pick(u)] + Fold(f, u)[Rest(u)]
    BY <2>1 DEF Steps
  <2>3. CASE u # {}
    <3>1. Fold(f, u)[Rest(u)] = Fold(f, Rest(u))[Rest(u)]
      BY <2>1, <2>3, <1>2, <1>3, StepsAgree, SMT
    <3> QED
      BY <2>2, <2>3, <3>1
  <2> QED
    BY <2>2, <2>3
<1>5. ASSUME NEW s \in SUBSET T, s # {}
      PROVE  g[s] = f[Pick(s)] + g[Rest(s)]
  <2>1. Rest(s) \in SUBSET T /\ Rest(s) # T
    BY <1>5, PickIn
  <2> QED
    BY <1>4, <1>5, <2>1
<1>6. Steps(g, f, T)
  BY <1>5 DEF Steps
<1> QED
  <2> HIDE DEF g
  <2>1. Steps(Fold(f, T), f, T)
    BY <1>6 DEF Fold
  <2> QED
    BY <2>1

(* The sum over a set is what the fold takes first and the sum of the rest. *)
LEMMA SumFirst ==
  ASSUME NEW f, NEW S, IsFiniteSet(S), S # {}
  PROVE  SumOver(f, S) = f[Pick(S)] + SumOver(f, S \ {Pick(S)})
<1> DEFINE R == S \ {Pick(S)}
<1>1. IsFiniteSet(R)
  BY FS_RemoveElement
<1>2. Steps(Fold(f, S), f, S) /\ Steps(Fold(f, R), f, R)
  BY <1>1, FoldSteps
<1>3. Fold(f, S)[S] = f[Pick(S)] + Fold(f, S)[R]
  BY <1>2 DEF Steps
<1>4. Fold(f, S)[R] = Fold(f, R)[R]
  BY <1>2, StepsAgree, SMT
<1> QED
  BY <1>3, <1>4, SumUnfold

(* The sum over no element is zero. *)
LEMMA SumEmpty ==
  ASSUME NEW f
  PROVE  SumOver(f, {}) = 0
<1>1. Steps(Fold(f, {}), f, {})
  BY FoldSteps, FS_EmptySet
<1>2. Fold(f, {})[{}] = 0
  BY <1>1 DEF Steps
<1> QED
  BY <1>2, SumUnfold

(* A sum of naturals is a natural. *)
LEMMA SumType ==
  ASSUME NEW f, NEW S, IsFiniteSet(S), \A x \in S : f[x] \in Nat
  PROVE  SumOver(f, S) \in Nat
<1> DEFINE B == {T \in SUBSET S : SumOver(f, T) \notin Nat}
<1> SUFFICES ASSUME B # {} PROVE FALSE
  OBVIOUS
<1>1. PICK T \in B : \A U \in B : U \subseteq T => U = T
  <2> HIDE DEF B
  <2>1. B \subseteq SUBSET S
    BY DEF B
  <2> QED
    BY <2>1, LeastSubset, SMT
<1>2. IsFiniteSet(T) /\ T # {}
  <2>1. IsFiniteSet(T)
    BY FS_Subset
  <2>2. T # {}
    BY SumEmpty, SMT
  <2> QED
    BY <2>1, <2>2
<1>3. Pick(T) \in T /\ SumOver(f, T \ {Pick(T)}) \in Nat
  BY <1>1, <1>2, PickIn, SMT
<1>4. SumOver(f, T) = f[Pick(T)] + SumOver(f, T \ {Pick(T)})
  BY <1>2, SumFirst
<1> QED
  BY <1>3, <1>4, SMT

(* Any element may be taken first. *)
LEMMA SumRemove ==
  ASSUME NEW f, NEW S, IsFiniteSet(S), \A x \in S : f[x] \in Nat, NEW y \in S
  PROVE  SumOver(f, S) = f[y] + SumOver(f, S \ {y})
<1> DEFINE B == {T \in SUBSET S : \E z \in T : SumOver(f, T) # f[z] + SumOver(f, T \ {z})}
<1> SUFFICES ASSUME B # {} PROVE FALSE
  OBVIOUS
<1>1. PICK T \in B : \A U \in B : U \subseteq T => U = T
  <2> HIDE DEF B
  <2>1. B \subseteq SUBSET S
    BY DEF B
  <2> QED
    BY <2>1, LeastSubset, SMT
<1>2. PICK z \in T : SumOver(f, T) # f[z] + SumOver(f, T \ {z})
  OBVIOUS
<1> DEFINE p == Pick(T)
           Tz == T \ {z}
           Tp == T \ {p}
           R == T \ {z, p}
<1>3. /\ IsFiniteSet(T) /\ IsFiniteSet(Tz) /\ IsFiniteSet(Tp) /\ IsFiniteSet(R)
      /\ p \in T
  BY FS_Subset, PickIn
<1>4. SumOver(f, T) = f[p] + SumOver(f, Tp)
  BY <1>3, SumFirst
<1>5. z # p
  BY <1>2, <1>4
<1>6. SumOver(f, Tp) = f[z] + SumOver(f, R)
  <2>1. Tp \notin B /\ z \in Tp /\ Tp \ {z} = R
    BY <1>1, <1>3, <1>5
  <2> QED
    BY <2>1
<1>7. SumOver(f, Tz) = f[p] + SumOver(f, R)
  <2>1. Tz \notin B /\ p \in Tz /\ Tz \ {p} = R
    BY <1>1, <1>3, <1>5
  <2> QED
    BY <2>1
<1>8. f[p] \in Nat /\ f[z] \in Nat /\ SumOver(f, R) \in Nat
  BY <1>3, SumType
<1> QED
  BY <1>2, <1>4, <1>6, <1>7, <1>8, SMT

(* One element more is one summand more. *)
LEMMA SumAdd ==
  ASSUME NEW f, NEW S, IsFiniteSet(S), \A x \in S : f[x] \in Nat,
         NEW y, y \notin S, f[y] \in Nat
  PROVE  SumOver(f, S \cup {y}) = SumOver(f, S) + f[y]
<1>1. IsFiniteSet(S \cup {y})
  BY FS_AddElement
<1>2. SumOver(f, S \cup {y}) = f[y] + SumOver(f, (S \cup {y}) \ {y})
  BY <1>1, SumRemove, SMT
<1>3. (S \cup {y}) \ {y} = S
  OBVIOUS
<1>4. SumOver(f, S) \in Nat
  BY SumType
<1> QED
  BY <1>2, <1>3, <1>4, SMT

(* Only what the function gives to the set's elements matters. *)
LEMMA SumSame ==
  ASSUME NEW f, NEW g, NEW S, IsFiniteSet(S), \A x \in S : f[x] = g[x]
  PROVE  SumOver(f, S) = SumOver(g, S)
<1> DEFINE B == {T \in SUBSET S : SumOver(f, T) # SumOver(g, T)}
<1> SUFFICES ASSUME B # {} PROVE FALSE
  OBVIOUS
<1>1. PICK T \in B : \A U \in B : U \subseteq T => U = T
  <2> HIDE DEF B
  <2>1. B \subseteq SUBSET S
    BY DEF B
  <2> QED
    BY <2>1, LeastSubset, SMT
<1>2. IsFiniteSet(T) /\ T # {}
  <2>1. IsFiniteSet(T)
    BY FS_Subset
  <2>2. T # {}
    BY SumEmpty
  <2> QED
    BY <2>1, <2>2
<1>3. Pick(T) \in T /\ SumOver(f, T \ {Pick(T)}) = SumOver(g, T \ {Pick(T)})
  BY <1>1, <1>2, PickIn, SMT
<1>4. /\ SumOver(f, T) = f[Pick(T)] + SumOver(f, T \ {Pick(T)})
      /\ SumOver(g, T) = g[Pick(T)] + SumOver(g, T \ {Pick(T)})
  BY <1>2, SumFirst
<1> QED
  BY <1>3, <1>4

(* A sum is those of two parts of the set. *)
LEMMA SumSplit ==
  ASSUME NEW f, NEW S, IsFiniteSet(S), \A x \in S : f[x] \in Nat, NEW R, R \subseteq S
  PROVE  /\ SumOver(f, S) = SumOver(f, S \ R) + SumOver(f, R)
         /\ SumOver(f, S) \in Nat /\ SumOver(f, S \ R) \in Nat /\ SumOver(f, R) \in Nat
<1> DEFINE B == {T \in SUBSET R : SumOver(f, S) # SumOver(f, S \ T) + SumOver(f, T)}
<1>0. \A T \in SUBSET S : IsFiniteSet(T) /\ SumOver(f, T) \in Nat
  <2> TAKE T \in SUBSET S
  <2>1. IsFiniteSet(T)
    BY FS_Subset
  <2> QED
    BY <2>1, SumType
<1>1. B = {}
  <2> SUFFICES ASSUME B # {} PROVE FALSE
    OBVIOUS
  <2>1. PICK T \in B : \A U \in B : U \subseteq T => U = T
    <3> HIDE DEF B
    <3>1. B \subseteq SUBSET R /\ IsFiniteSet(R)
      BY <1>0 DEF B
    <3> QED
      BY <3>1, LeastSubset, SMT
  <2>2. T # {}
    <3> SUFFICES ASSUME T = {} PROVE FALSE
      OBVIOUS
    <3>1. S \ T = S /\ SumOver(f, T) = 0
      BY SumEmpty
    <3>2. SumOver(f, S) \in Nat
      BY <1>0
    <3>3. SumOver(f, S) = SumOver(f, S \ T) + SumOver(f, T)
      BY <3>1, <3>2, SMT
    <3> QED
      BY <2>1, <3>3
  <2>3. PICK y \in T : TRUE
    BY <2>2
  <2> DEFINE U == T \ {y}
  <2>4. SumOver(f, S) = SumOver(f, S \ U) + SumOver(f, U)
    <3>1. U \in SUBSET R /\ U \subseteq T /\ U # T
      BY <2>1
    <3> QED
      BY <2>1, <3>1
  <2>5. SumOver(f, T) = f[y] + SumOver(f, U)
    <3>1. IsFiniteSet(T) /\ \A x \in T : f[x] \in Nat
      BY <1>0, <2>1
    <3> QED
      BY <3>1, SumRemove, SMT
  <2>6. SumOver(f, S \ U) = f[y] + SumOver(f, S \ T)
    <3>1. IsFiniteSet(S \ U) /\ (\A x \in S \ U : f[x] \in Nat) /\ y \in S \ U
      BY <1>0, <2>1
    <3>2. (S \ U) \ {y} = S \ T
      BY <2>1
    <3>3. SumOver(f, S \ U) = f[y] + SumOver(f, (S \ U) \ {y})
      BY <3>1, SumRemove, SMT
    <3> QED
      BY <3>2, <3>3
  <2>7. /\ f[y] \in Nat /\ SumOver(f, U) \in Nat /\ SumOver(f, S \ T) \in Nat
    BY <1>0, <2>1
  <2>8. SumOver(f, S) = SumOver(f, S \ T) + SumOver(f, T)
    <3> HIDE DEF U
    <3> QED
      BY <2>4, <2>5, <2>6, <2>7, SMT
  <2> QED
    BY <2>1, <2>8
<1>2. SumOver(f, S) = SumOver(f, S \ R) + SumOver(f, R)
  BY <1>1
<1> QED
  BY <1>0, <1>2
-----------------------------------------------------------------------------
(* The structures. *)

Trackers == [pending : Int, budget : Nat]

(* A manager: a record of the six dictionaries, with counters. *)
IsManager(m) ==
  m \in [reg : {m.reg}, cap : {m.cap}, min : {m.min}, max : {m.max},
         used : [StageIds -> Nat], inflight : [StageIds -> Nat]]

Elems(q) == {q[i] : i \in 1..Len(q)}
Distinct(q) == \A i, j \in 1..Len(q) : q[i] = q[j] => i = j

(* The tasks of queues w and active set A; each is in one place. *)
TasksOf(w, A) == {a.task : a \in A} \cup UNION {Elems(w[s]) : s \in Stages}
PlacedIn(w, A) ==
  /\ \A s \in Stages : Distinct(w[s]) /\ \A t \in Elems(w[s]) : StageOf(t.ctx) = s
  /\ \A a, b \in A : a.task = b.task => a = b
  /\ \A a \in A : \A s \in Stages : a.task \notin Elems(w[s])
  /\ IsFiniteSet(TasksOf(w, A))

(* c is d or above it in the fan-out tree. *)
Above(c, d) == Len(c) <= Len(d) /\ \A i \in 1..Len(c) : c[i] = d[i]

(* T are the live tasks, D the contexts that have had a tracker. *)
TreeOver(T, D) ==
  /\ \A t, u \in T : Above(t.ctx, u.ctx) => t = u
  /\ \A t \in T : t.trackers \subseteq D /\ \A p \in D : ~Above(t.ctx, p)

OpenOf(trk) == {p \in DOMAIN trk : trk[p].pending > 0}
Carriers(T, p) == {t \in T : p \in t.trackers}
CountedOver(T, trk) ==
  \A p \in DOMAIN trk : trk[p].pending <= Cardinality(Carriers(T, p))

(* The manager holds what the tasks of A and the trackers of P do. *)
StagedAt(P, s) == {p \in P : StageOf(p) = s}
Held(A, s) == SumOver([a \in A |-> a.budget], At(A, s))
Balanced(m, A, trk, P) ==
  \A s \in StageIds :
    /\ m.used[s] = Held(A, s) + ReservedBy(trk, P, s)
    /\ m.inflight[s] = Cardinality(At(A, s)) + Cardinality(StagedAt(P, s))

-----------------------------------------------------------------------------
(* Queues without repetitions. *)

\* The tasks of a queue without its head.
LEMMA TailElems ==
  ASSUME NEW S, NEW q \in Seq(S), q # <<>>, Distinct(q)
  PROVE  /\ Head(q) \in S /\ Tail(q) \in Seq(S) /\ Head(q) \in Elems(q)
         /\ Elems(Tail(q)) = Elems(q) \ {Head(q)} /\ Distinct(Tail(q))
<1> DEFINE r == Tail(q)
<1>1. /\ Len(q) \in Nat \ {0} /\ Head(q) = q[1] /\ r \in Seq(S) /\ Head(q) \in S
      /\ Len(r) = Len(q) - 1 /\ \A i \in 1..Len(r) : r[i] = q[i + 1]
  BY SMT
<1> HIDE DEF r
<1>2. Distinct(r)
  BY <1>1, SMT DEF Distinct
<1>3. ASSUME NEW x \in Elems(r) PROVE x \in Elems(q) \ {Head(q)}
  <2>1. PICK i \in 1..Len(r) : x = r[i]
    BY DEF Elems
  <2>2. i + 1 \in 1..Len(q) /\ 1 \in 1..Len(q) /\ x = q[i + 1] /\ i + 1 # 1
    BY <1>1, <2>1, SMT
  <2> QED
    BY <1>1, <2>2 DEF Elems, Distinct
<1>4. ASSUME NEW x \in Elems(q), x # Head(q) PROVE x \in Elems(r)
  <2>1. PICK i \in 1..Len(q) : x = q[i]
    BY DEF Elems
  <2>2. i # 1
    BY <1>1, <1>4, <2>1
  <2>3. i - 1 \in 1..Len(r) /\ (i - 1) + 1 = i
    BY <1>1, <2>1, <2>2, SMT
  <2> QED
    BY <1>1, <2>1, <2>3 DEF Elems
<1>5. Head(q) \in Elems(q)
  BY <1>1, SMT DEF Elems
<1> QED
  BY <1>1, <1>2, <1>3, <1>4, <1>5 DEF r

\* The tasks of two queues put together.
LEMMA ConcatElems ==
  ASSUME NEW S, NEW q \in Seq(S), NEW r \in Seq(S), Distinct(q), Distinct(r),
         Elems(q) \cap Elems(r) = {}
  PROVE  /\ q \o r \in Seq(S) /\ Elems(q \o r) = Elems(q) \cup Elems(r) /\ Distinct(q \o r)
<1> DEFINE p == q \o r
           m == Len(q)
           n == Len(r)
<1>1. /\ p \in Seq(S) /\ Len(p) = m + n /\ m \in Nat /\ n \in Nat
      /\ \A i \in 1..(m + n) : p[i] = IF i <= m THEN q[i] ELSE r[i - m]
  <2>1. p \in Seq(S) /\ Len(p) = m + n /\ m \in Nat /\ n \in Nat
    BY SMT
  <2>2. \A i \in 1..(m + n) : p[i] = IF i <= m THEN q[i] ELSE r[i - m]
    BY SMT
  <2> QED
    BY <2>1, <2>2
<1> HIDE DEF p
<1>2. /\ \A i \in 1..m : i \in 1..(m + n) /\ p[i] = q[i]
      /\ \A i \in 1..n : m + i \in 1..(m + n) /\ ~(m + i <= m) /\ (m + i) - m = i
      /\ \A i \in 1..(m + n) : i \in 1..m \/ i - m \in 1..n
  BY <1>1, SMT
<1>3. \A i \in 1..n : p[m + i] = r[i]
  BY <1>1, <1>2
<1>4. Elems(p) = Elems(q) \cup Elems(r)
  <2>1. ASSUME NEW x \in Elems(p) PROVE x \in Elems(q) \cup Elems(r)
    BY <1>1, <1>2, SMT DEF Elems
  <2>2. ASSUME NEW x \in Elems(q) PROVE x \in Elems(p)
    BY <1>1, <1>2 DEF Elems
  <2>3. ASSUME NEW x \in Elems(r) PROVE x \in Elems(p)
    <3>1. PICK i \in 1..n : x = r[i]
      BY DEF Elems
    <3>2. m + i \in 1..(m + n) /\ p[m + i] = x
      BY <1>2, <1>3, <3>1
    <3> QED
      BY <1>1, <3>2 DEF Elems
  <2> QED
    BY <2>1, <2>2, <2>3
<1>5. ASSUME NEW i \in 1..(m + n), NEW j \in 1..(m + n), p[i] = p[j] PROVE i = j
  <2>1. CASE i \in 1..m /\ j \in 1..m
    BY <1>2, <1>5, <2>1 DEF Distinct
  <2>2. CASE i \notin 1..m /\ j \notin 1..m
    <3>1. i - m \in 1..n /\ j - m \in 1..n /\ ~(i <= m) /\ ~(j <= m)
      BY <1>1, <1>2, <2>2, SMT
    <3>2. r[i - m] = r[j - m]
      BY <1>1, <1>5, <3>1
    <3>3. i - m = j - m
      BY <3>1, <3>2 DEF Distinct
    <3> QED
      BY <1>1, <3>3, SMT
  <2>3. CASE i \in 1..m /\ j \notin 1..m
    <3>1. j - m \in 1..n /\ ~(j <= m)
      BY <1>1, <1>2, <2>3, SMT
    <3>2. q[i] = r[j - m]
      BY <1>1, <1>2, <1>5, <2>3, <3>1
    <3> QED
      BY <2>3, <3>1, <3>2 DEF Elems
  <2>4. CASE i \notin 1..m /\ j \in 1..m
    <3>1. i - m \in 1..n /\ ~(i <= m)
      BY <1>1, <1>2, <2>4, SMT
    <3>2. q[j] = r[i - m]
      BY <1>1, <1>2, <1>5, <2>4, <3>1
    <3> QED
      BY <2>4, <3>1, <3>2 DEF Elems
  <2> QED
    BY <2>1, <2>2, <2>3, <2>4
<1>6. Distinct(p)
  BY <1>1, <1>5 DEF Distinct
<1> QED
  BY <1>1, <1>4, <1>6 DEF p

\* The least of some naturals is one of them.
LEMMA FirstIn ==
  ASSUME NEW S, S \subseteq Nat, S # {}
  PROVE  First(S) \in S
<1> DEFINE R == OpToRel(<, Nat)
<1>1. IsWellFoundedOn(R, Nat)
  BY NatLessThanWellFounded
<1>2. \A y, x \in Nat : y < x => <<y, x>> \in R
  BY DEF OpToRel
<1> HIDE DEF R
<1>3. PICK x \in S : \A y \in S : ~ (<<y, x>> \in R)
  BY <1>1, WFMin
<1>4. ASSUME NEW y \in S PROVE x <= y
  <2>1. x \in Nat /\ y \in Nat
    OBVIOUS
  <2>2. ~ (y < x)
    BY <1>2, <1>3, <2>1
  <2> QED
    BY <2>1, <2>2, SMT
<1> QED
  BY <1>3, <1>4 DEF First

\* enqueue puts a task in some place of the queue.
LEMMA EnqueuedElems ==
  ASSUME NEW S, NEW q \in Seq(S), NEW t \in S, Distinct(q), t \notin Elems(q)
  PROVE  /\ Enqueued(q, t) \in Seq(S) /\ Elems(Enqueued(q, t)) = Elems(q) \cup {t}
         /\ Distinct(Enqueued(q, t))
<1> DEFINE K == {i \in 1..Len(q) : q[i].op < t.op} \cup {Len(q) + 1}
           k == First(K)
           u == SubSeq(q, 1, k - 1)
           v == SubSeq(q, k, Len(q))
<1>1. k \in 1..(Len(q) + 1) /\ Len(q) \in Nat
  <2>1. Len(q) \in Nat
    BY SMT
  <2>2. K \subseteq 1..(Len(q) + 1) /\ K \subseteq Nat /\ K # {}
    BY <2>1, SMT
  <2> HIDE DEF K
  <2> QED
    BY <2>1, <2>2, FirstIn
<1>2. Enqueued(q, t) = (u \o <<t>>) \o v
  BY DEF Enqueued
<1> HIDE DEF k
<1>3. /\ u \in Seq(S) /\ Len(u) = k - 1 /\ \A i \in 1..(k - 1) : u[i] = q[i]
      /\ v \in Seq(S) /\ Len(v) = Len(q) - k + 1 /\ \A i \in 1..(Len(q) - k + 1) : v[i] = q[k + i - 1]
  BY <1>1, SMT
<1> HIDE DEF u, v
<1>4. Distinct(u) /\ Distinct(v) /\ Elems(u) \cap Elems(v) = {}
  <2>1. \A i \in 1..(k - 1) : i \in 1..Len(q)
    BY <1>1, SMT
  <2>2. \A i \in 1..(Len(q) - k + 1) : k + i - 1 \in 1..Len(q) /\ ~(k + i - 1 \in 1..(k - 1))
    BY <1>1, SMT
  <2>3. Distinct(u)
    BY <1>3, <2>1 DEF Distinct
  <2>4. Distinct(v)
    <3> SUFFICES ASSUME NEW i \in 1..Len(v), NEW j \in 1..Len(v), v[i] = v[j] PROVE i = j
      BY DEF Distinct
    <3>0. v[i] = q[k + i - 1] /\ v[j] = q[k + j - 1]
      BY <1>3
    <3>1. k + i - 1 = k + j - 1
      BY <1>3, <2>2, <3>0 DEF Distinct
    <3> QED
      BY <1>1, <3>1, SMT
  <2>5. ASSUME NEW x, x \in Elems(u), x \in Elems(v) PROVE FALSE
    <3>1. PICK i \in 1..(k - 1) : x = q[i]
      BY <1>3, <2>5, SMT DEF Elems
    <3>2. PICK j \in 1..(Len(q) - k + 1) : x = q[k + j - 1]
      BY <1>3, <2>5, SMT DEF Elems
    <3>3. i = k + j - 1
      BY <2>1, <2>2, <3>1, <3>2 DEF Distinct
    <3> QED
      BY <2>2, <3>3
  <2> QED
    BY <2>3, <2>4, <2>5
<1>5. Elems(u) \cup Elems(v) = Elems(q)
  <2>1. ASSUME NEW x \in Elems(u) PROVE x \in Elems(q)
    BY <1>1, <1>3, SMT DEF Elems
  <2>2. ASSUME NEW x \in Elems(v) PROVE x \in Elems(q)
    <3>1. PICK i \in 1..(Len(q) - k + 1) : x = q[k + i - 1]
      BY <1>3, <2>2 DEF Elems
    <3>2. k + i - 1 \in 1..Len(q)
      BY <1>1, <3>1, SMT
    <3> QED
      BY <3>1, <3>2 DEF Elems
  <2>3. ASSUME NEW x \in Elems(q) PROVE x \in Elems(u) \cup Elems(v)
    <3>1. PICK i \in 1..Len(q) : x = q[i]
      BY DEF Elems
    <3>2. CASE i < k
      <4>1. i \in 1..(k - 1)
        BY <1>1, <3>1, <3>2, SMT
      <4> QED
        BY <1>3, <3>1, <4>1 DEF Elems
    <3>3. CASE ~(i < k)
      <4>1. i - k + 1 \in 1..(Len(q) - k + 1) /\ k + (i - k + 1) - 1 = i
        BY <1>1, <3>1, <3>3, SMT
      <4>2. v[i - k + 1] = x
        BY <1>3, <3>1, <4>1
      <4> QED
        BY <1>3, <4>1, <4>2 DEF Elems
    <3> QED
      BY <3>2, <3>3
  <2> QED
    BY <2>1, <2>2, <2>3
<1> DEFINE w == <<t>>
           x == u \o w
<1>6. w \in Seq(S) /\ Distinct(w) /\ Elems(w) = {t}
  BY SMT DEF Distinct, Elems
<1> HIDE DEF w
<1>7. x \in Seq(S) /\ Elems(x) = Elems(u) \cup {t} /\ Distinct(x)
  <2>1. Elems(u) \cap Elems(w) = {}
    BY <1>5, <1>6
  <2> QED
    BY <1>3, <1>4, <1>6, <2>1, ConcatElems, SMT
<1> HIDE DEF x
<1>8. Elems(x) \cap Elems(v) = {}
  BY <1>4, <1>5, <1>7
<1>9. /\ x \o v \in Seq(S) /\ Distinct(x \o v)
      /\ Elems(x \o v) = Elems(x) \cup Elems(v)
  BY <1>3, <1>4, <1>7, <1>8, ConcatElems, SMT
<1>10. Enqueued(q, t) = x \o v
  BY <1>2 DEF x, w
<1> QED
  BY <1>5, <1>7, <1>9, <1>10

-----------------------------------------------------------------------------
(* Moving tasks between the queues and the active set. *)

\* b launches the head of queue s.
Launches(S, w, A, s, b, v, B) ==
  /\ w \in [Stages -> Seq(S)] /\ PlacedIn(w, A)
  /\ s \in Stages /\ w[s] # <<>> /\ b.task = Head(w[s])
  /\ v = [w EXCEPT ![s] = Tail(@)] /\ B = A \cup {b}

\* A task leaves its queue and becomes active.
LEMMA PlaceLaunch ==
  ASSUME NEW S, NEW w, NEW A, NEW s, NEW b, NEW v, NEW B, Launches(S, w, A, s, b, v, B)
  PROVE  /\ v \in [Stages -> Seq(S)] /\ PlacedIn(v, B)
         /\ TasksOf(v, B) = TasksOf(w, A) /\ b \notin A
         /\ b.task \in S /\ b.task \in TasksOf(w, A) /\ StageOf(b.task.ctx) = s
<1>0. /\ w \in [Stages -> Seq(S)] /\ PlacedIn(w, A)
      /\ s \in Stages /\ w[s] # <<>> /\ b.task = Head(w[s])
      /\ v = [w EXCEPT ![s] = Tail(@)] /\ B = A \cup {b}
  BY DEF Launches
<1>1. w[s] \in Seq(S) /\ Distinct(w[s])
  BY <1>0 DEF PlacedIn
<1>2. /\ b.task \in S /\ Tail(w[s]) \in Seq(S) /\ b.task \in Elems(w[s])
      /\ Elems(Tail(w[s])) = Elems(w[s]) \ {b.task} /\ Distinct(Tail(w[s]))
  BY <1>0, <1>1, TailElems, SMT
<1>3. v \in [Stages -> Seq(S)] /\ v[s] = Tail(w[s]) /\ \A r \in Stages \ {s} : v[r] = w[r]
  BY <1>0, <1>2
<1>4. \A r \in Stages \ {s} : b.task \notin Elems(w[r])
  BY <1>0, <1>2 DEF PlacedIn
<1>5. StageOf(b.task.ctx) = s /\ b \notin A
  BY <1>0, <1>2 DEF PlacedIn
<1>6. \A r \in Stages : /\ Distinct(v[r]) /\ Elems(v[r]) = Elems(w[r]) \ {b.task}
                        /\ \A t \in Elems(v[r]) : StageOf(t.ctx) = r
  <2>1. \A r \in Stages : /\ Distinct(w[r])
                          /\ \A t \in Elems(w[r]) : StageOf(t.ctx) = r
    BY <1>0 DEF PlacedIn
  <2> TAKE r \in Stages
  <2>2. Elems(v[r]) = Elems(w[r]) \ {b.task} /\ Distinct(v[r])
    BY <1>2, <1>3, <1>4, <2>1
  <2> QED
    BY <2>1, <2>2
<1>7. TasksOf(v, B) = TasksOf(w, A)
  <2>1. \A x : x \in TasksOf(v, B) <=> x \in TasksOf(w, A)
    <3> TAKE x
    <3>1. x \in TasksOf(v, B) <=> (\E a \in B : x = a.task) \/ \E r \in Stages : x \in Elems(v[r])
      BY DEF TasksOf
    <3>2. x \in TasksOf(w, A) <=> (\E a \in A : x = a.task) \/ \E r \in Stages : x \in Elems(w[r])
      BY DEF TasksOf
    <3> QED
      BY <1>0, <1>2, <1>6, <3>1, <3>2, SMT
  <2> QED
    BY <2>1
<1>8. PlacedIn(v, B)
  <2>1. IsFiniteSet(TasksOf(v, B))
    BY <1>0, <1>7 DEF PlacedIn
  <2>2. \A a, d \in B : a.task = d.task => a = d
    BY <1>0, <1>2 DEF PlacedIn
  <2>3. \A a \in B : \A r \in Stages : a.task \notin Elems(v[r])
    BY <1>0, <1>6, SMT DEF PlacedIn
  <2> QED
    BY <1>6, <2>1, <2>2, <2>3 DEF PlacedIn
<1>9. b.task \in TasksOf(w, A)
  BY <1>0, <1>2 DEF TasksOf
<1> QED
  BY <1>2, <1>3, <1>5, <1>7, <1>8, <1>9

\* b is a further on.
Continues(w, A, a, b, B) ==
  PlacedIn(w, A) /\ a \in A /\ b.task = a.task /\ B = (A \ {a}) \cup {b}

\* An active task runs on.
LEMMA PlaceRun ==
  ASSUME NEW w, NEW A, NEW a, NEW b, NEW B, Continues(w, A, a, b, B)
  PROVE  PlacedIn(w, B) /\ TasksOf(w, B) = TasksOf(w, A)
<1>1. TasksOf(w, B) = TasksOf(w, A)
  BY DEF TasksOf, Continues
<1>2. \A x, y \in B : x.task = y.task => x = y
  BY DEF PlacedIn, Continues
<1>3. \A x \in B : \A r \in Stages : x.task \notin Elems(w[r])
  BY DEF PlacedIn, Continues
<1> QED
  BY <1>1, <1>2, <1>3 DEF PlacedIn, Continues

\* a is handled.
Ends(w, A, a, B) == PlacedIn(w, A) /\ a \in A /\ B = A \ {a}

\* An active task is handled.
LEMMA PlaceEnd ==
  ASSUME NEW w, NEW A, NEW a, NEW B, Ends(w, A, a, B)
  PROVE  /\ PlacedIn(w, B) /\ a.task \in TasksOf(w, A)
         /\ TasksOf(w, B) = TasksOf(w, A) \ {a.task}
<1>1. TasksOf(w, B) = TasksOf(w, A) \ {a.task} /\ a.task \in TasksOf(w, A)
  BY DEF TasksOf, PlacedIn, Ends
<1>2. IsFiniteSet(TasksOf(w, B))
  <2>1. IsFiniteSet(TasksOf(w, A))
    BY DEF PlacedIn, Ends
  <2> QED
    BY <1>1, <2>1, FS_RemoveElement
<1>3. \A x, y \in B : x.task = y.task => x = y
  BY DEF PlacedIn, Ends
<1>4. \A x \in B : \A r \in Stages : x.task \notin Elems(w[r])
  BY DEF PlacedIn, Ends
<1> QED
  BY <1>1, <1>2, <1>3, <1>4 DEF PlacedIn, Ends

\* q is queue s with the tasks of K added.
Queues(S, w, A, s, q, K, v) ==
  /\ w \in [Stages -> Seq(S)] /\ PlacedIn(w, A) /\ s \in Stages
  /\ q \in Seq(S) /\ Distinct(q) /\ Elems(q) = Elems(w[s]) \cup K
  /\ IsFiniteSet(K) /\ K \cap TasksOf(w, A) = {} /\ \A t \in K : StageOf(t.ctx) = s
  /\ v = [w EXCEPT ![s] = q]

\* New tasks join the queue of their stage.
LEMMA PlaceQueue ==
  ASSUME NEW S, NEW w, NEW A, NEW s, NEW q, NEW K, NEW v, Queues(S, w, A, s, q, K, v)
  PROVE  /\ v \in [Stages -> Seq(S)] /\ PlacedIn(v, A)
         /\ TasksOf(v, A) = TasksOf(w, A) \cup K
<1>0. /\ w \in [Stages -> Seq(S)] /\ PlacedIn(w, A) /\ s \in Stages
      /\ q \in Seq(S) /\ Distinct(q) /\ Elems(q) = Elems(w[s]) \cup K
      /\ IsFiniteSet(K) /\ K \cap TasksOf(w, A) = {} /\ \A t \in K : StageOf(t.ctx) = s
      /\ v = [w EXCEPT ![s] = q]
  BY DEF Queues
<1>1. v \in [Stages -> Seq(S)] /\ v[s] = q /\ \A r \in Stages \ {s} : v[r] = w[r]
  BY <1>0
<1>2. TasksOf(v, A) = TasksOf(w, A) \cup K
  <2>1. \A x : x \in TasksOf(v, A) <=> x \in TasksOf(w, A) \cup K
    <3> TAKE x
    <3>1. x \in TasksOf(v, A) <=> (\E a \in A : x = a.task) \/ \E r \in Stages : x \in Elems(v[r])
      BY DEF TasksOf
    <3>2. x \in TasksOf(w, A) <=> (\E a \in A : x = a.task) \/ \E r \in Stages : x \in Elems(w[r])
      BY DEF TasksOf
    <3>3. (\E r \in Stages : x \in Elems(v[r])) <=> x \in K \/ \E r \in Stages : x \in Elems(w[r])
      BY <1>0, <1>1
    <3> QED
      BY <3>1, <3>2, <3>3
  <2> QED
    BY <2>1
<1>3. IsFiniteSet(TasksOf(v, A))
  <2>1. IsFiniteSet(TasksOf(w, A))
    BY <1>0 DEF PlacedIn
  <2>2. IsFiniteSet(K)
    BY <1>0
  <2> QED
    BY <1>2, <2>1, <2>2, FS_Union
<1>4. \A r \in Stages : Distinct(v[r]) /\ \A t \in Elems(v[r]) : StageOf(t.ctx) = r
  BY <1>0, <1>1 DEF PlacedIn
<1>5. \A a \in A : \A r \in Stages : a.task \notin Elems(v[r])
  <2>1. \A a \in A : a.task \in TasksOf(w, A)
    BY DEF TasksOf
  <2> QED
    BY <1>0, <1>1, <2>1 DEF PlacedIn
<1> QED
  BY <1>0, <1>1, <1>2, <1>3, <1>4, <1>5 DEF PlacedIn

-----------------------------------------------------------------------------
(* The tree of contexts. *)

\* A tuple is above its children and above what they are above, and above
\* a child is only what is above the tuple, and the child itself.
LEMMA ChildAbove ==
  ASSUME NEW c \in Seq(Nat), NEW j \in Nat, NEW d \in Seq(Nat)
  PROVE  /\ Append(c, j) \in Seq(Nat) /\ Len(Append(c, j)) = Len(c) + 1
         /\ Append(c, j)[Len(c) + 1] = j
         /\ ~Above(Append(c, j), c) /\ Above(c, Append(c, j))
         /\ Above(Append(c, j), d) => Above(c, d) /\ d[Len(c) + 1] = j
         /\ Above(d, Append(c, j)) => Above(d, c) \/ Above(c, d)
<1> DEFINE e == Append(c, j)
<1>1. /\ e \in Seq(Nat) /\ Len(e) = Len(c) + 1 /\ Len(c) \in Nat /\ Len(d) \in Nat
      /\ \A i \in 1..Len(c) : e[i] = c[i] /\ e[Len(c) + 1] = j
  BY SMT
<1>2. e[Len(c) + 1] = j
  BY SMT
<1> HIDE DEF e
<1>3. ~Above(e, c) /\ Above(c, e)
  BY <1>1, SMT DEF Above
<1>4. ASSUME Above(e, d) PROVE Above(c, d) /\ d[Len(c) + 1] = j
  BY <1>1, <1>2, <1>4, SMT DEF Above
<1>5. ASSUME Above(d, e) PROVE Above(d, c) \/ Above(c, d)
  BY <1>1, <1>5, SMT DEF Above
<1> QED
  BY <1>1, <1>2, <1>3, <1>4, <1>5 DEF e

\* A context is at or above itself.
LEMMA AboveSelf ==
  ASSUME NEW c \in Seq(Nat)
  PROVE  Above(c, c)
BY SMT DEF Above

\* Tasks go.
LEMMA TreeShrinks ==
  ASSUME NEW T, NEW D, TreeOver(T, D), NEW U \in SUBSET T
  PROVE  TreeOver(U, D)
BY DEF TreeOver

\* A task gives way to another of the same context and trackers.
LEMMA TreeRetry ==
  ASSUME NEW T, NEW D, TreeOver(T, D), NEW t \in T, NEW u,
         u.ctx = t.ctx, u.trackers = t.trackers, t.ctx \in Seq(Nat),
         NEW U, U = (T \ {t}) \cup {u}
  PROVE  TreeOver(U, D) /\ u \notin T \ {t}
<1>1. Above(t.ctx, t.ctx)
  BY AboveSelf
<1>2. u \notin T \ {t}
  BY <1>1 DEF TreeOver
<1>3. ASSUME NEW x \in U, NEW y \in U, Above(x.ctx, y.ctx) PROVE x = y
  BY <1>3 DEF TreeOver
<1>4. \A x \in U : x.trackers \subseteq D /\ \A p \in D : ~Above(x.ctx, p)
  BY DEF TreeOver
<1>5. TreeOver(U, D)
  BY <1>3, <1>4 DEF TreeOver
<1> QED
  BY <1>2, <1>5

\* U is T with t replaced by K, tasks of children of its context, and E is D,
\* perhaps with that context.
FansOut(T, D, t, K, E, U) ==
  /\ TreeOver(T, D) /\ t \in T /\ D \subseteq Seq(Nat) /\ \A u \in T : u.ctx \in Seq(Nat)
  /\ D \subseteq E /\ E \subseteq D \cup {t.ctx} /\ U = (T \ {t}) \cup K
  /\ \A u \in K : (\E j \in Nat : u.ctx = Append(t.ctx, j)) /\ u.trackers \subseteq E
  /\ \A u, v \in K : u.ctx = v.ctx => u = v

\* A task gives way to children of its context, which may get a tracker.
LEMMA TreeGrows ==
  ASSUME NEW T, NEW D, NEW t, NEW K, NEW E, NEW U, FansOut(T, D, t, K, E, U)
  PROVE  TreeOver(U, E) /\ K \cap T = {} /\ t.ctx \notin D
<1> DEFINE c == t.ctx
<1> USE DEF FansOut
<1>0. c \in Seq(Nat) /\ Above(c, c)
  BY AboveSelf
<1>1. /\ \A x, y \in T : Above(x.ctx, y.ctx) => x = y
      /\ \A x \in T : x.trackers \subseteq D /\ \A p \in D : ~Above(x.ctx, p)
  BY DEF TreeOver
<1>2. c \notin D
  BY <1>0, <1>1
<1>3. ASSUME NEW u \in K
      PROVE  /\ u.ctx \in Seq(Nat) /\ Above(c, u.ctx) /\ ~Above(u.ctx, c)
             /\ \A d \in Seq(Nat) : Above(u.ctx, d) => Above(c, d)
             /\ \A d \in Seq(Nat) : Above(d, u.ctx) => Above(d, c) \/ Above(c, d)
  <2>1. PICK j \in Nat : u.ctx = Append(c, j)
    OBVIOUS
  <2> HIDE DEF c
  <2> QED
    BY <1>0, <2>1, ChildAbove, SMT
<1>4. \A u, v \in K : Above(u.ctx, v.ctx) => u = v
  <2> SUFFICES ASSUME NEW u \in K, NEW v \in K, Above(u.ctx, v.ctx) PROVE u.ctx = v.ctx
    OBVIOUS
  <2>1. PICK i \in Nat : u.ctx = Append(c, i)
    OBVIOUS
  <2>2. PICK j \in Nat : v.ctx = Append(c, j)
    OBVIOUS
  <2> HIDE DEF c
  <2>3. v.ctx[Len(c) + 1] = i
    BY <1>0, <1>3, <2>1, ChildAbove, SMT
  <2>4. v.ctx[Len(c) + 1] = j
    BY <1>0, <2>2, ChildAbove, SMT
  <2> QED
    BY <2>1, <2>2, <2>3, <2>4
<1> HIDE DEF c
<1>5. K \cap T = {}
  <2> SUFFICES ASSUME NEW u \in K, u \in T PROVE FALSE
    OBVIOUS
  <2>1. t = u
    BY <1>1, <1>3 DEF c
  <2> QED
    BY <1>0, <1>3, <2>1 DEF c
<1>6. \A x \in T \ {t} : ~Above(c, x.ctx) /\ ~Above(x.ctx, c)
  BY <1>1 DEF c
<1>7. ASSUME NEW x \in U, NEW y \in U, Above(x.ctx, y.ctx) PROVE x = y
  <2>1. CASE x \in K /\ y \in K
    BY <1>4, <1>7, <2>1
  <2>2. CASE x \in K /\ y \in T \ {t}
    BY <1>3, <1>6, <1>7, <2>2
  <2>3. CASE x \in T \ {t} /\ y \in K
    BY <1>3, <1>6, <1>7, <2>3
  <2>4. CASE x \in T \ {t} /\ y \in T \ {t}
    BY <1>1, <1>7, <2>4
  <2> QED
    BY <2>1, <2>2, <2>3, <2>4
<1>8. ASSUME NEW x \in U, NEW p \in E PROVE ~Above(x.ctx, p)
  <2>1. CASE x \in K /\ p = c
    BY <1>3, <2>1
  <2>2. CASE x \in K /\ p \in D
    BY <1>1, <1>3, <2>2 DEF c
  <2>3. CASE x \in T \ {t} /\ p = c
    BY <1>6, <2>3
  <2>4. CASE x \in T \ {t} /\ p \in D
    BY <1>1, <2>4
  <2> QED
    BY <2>1, <2>2, <2>3, <2>4 DEF c
<1>9. \A x \in U : x.trackers \subseteq E
  BY <1>1
<1>10. TreeOver(U, E)
  BY <1>7, <1>8, <1>9 DEF TreeOver
<1> QED
  BY <1>2, <1>5, <1>10 DEF c

(* The tasks of K are those of n children of c, which carry T. *)
Brood(K, c, n, T) ==
  /\ IsFiniteSet(K) /\ Cardinality(K) = n
  /\ \A u \in K : u.trackers = T /\ ~u.retry /\ u.op = 1
  /\ \A u, v \in K : u.ctx = v.ctx => u = v
  /\ {u.ctx : u \in K} = {Append(c, j) : j \in 1..n}
ChildrenIn(S, c, n, T) == \A j \in 1..n : Task(Append(c, j), 1, FALSE, T) \in S

\* What Children returns.
LEMMA ChildTasks ==
  ASSUME NEW S, NEW c \in Seq(Nat), NEW n \in Nat, NEW T, ChildrenIn(S, c, n, T)
  PROVE  LET q == Children(c, n, T)
         IN q \in Seq(S) /\ Distinct(q) /\ Brood(Elems(q), c, n, T)
<1> DEFINE q == Children(c, n, T)
<1>1. q \in Seq(S) /\ Len(q) = n /\ \A j \in 1..n : q[j] = Task(Append(c, j), 1, FALSE, T)
  <2> DEFINE f == [j \in 1..n |-> Task(Append(c, j), 1, FALSE, T)]
  <2>1. q = f
    BY DEF Children
  <2>2. f \in [1..n -> S] /\ \A j \in 1..n : f[j] = Task(Append(c, j), 1, FALSE, T)
    BY DEF ChildrenIn
  <2> HIDE DEF f
  <2>3. f \in Seq(S) /\ Len(f) = n
    BY <2>2, SMT
  <2> HIDE DEF q
  <2> QED
    BY <2>1, <2>2, <2>3
<1> HIDE DEF q
<1>2. \A j \in 1..n : /\ q[j].ctx = Append(c, j) /\ q[j].trackers = T
                      /\ ~q[j].retry /\ q[j].op = 1
  BY <1>1, SMT DEF Task
<1>3. \A i, j \in 1..n : Append(c, i) = Append(c, j) => i = j
  <2> SUFFICES ASSUME NEW i \in 1..n, NEW j \in 1..n, Append(c, i) = Append(c, j) PROVE i = j
    OBVIOUS
  <2>1. Append(c, i)[Len(c) + 1] = i /\ Append(c, j)[Len(c) + 1] = j
    BY ChildAbove, SMT
  <2> QED
    BY <2>1
<1>4. Distinct(q)
  BY <1>1, <1>2, <1>3, SMT DEF Distinct
<1>5. {u.ctx : u \in Elems(q)} = {Append(c, j) : j \in 1..n}
  <2>1. Elems(q) = {q[j] : j \in 1..n}
    BY <1>1 DEF Elems
  <2>2. ASSUME NEW u \in Elems(q) PROVE u.ctx \in {Append(c, j) : j \in 1..n}
    BY <1>2, <2>1
  <2>3. ASSUME NEW j \in 1..n PROVE q[j] \in Elems(q) /\ q[j].ctx = Append(c, j)
    BY <1>2, <2>1
  <2> QED
    BY <2>2, <2>3
<1>6. IsFiniteSet(Elems(q)) /\ Cardinality(Elems(q)) = n
  <2> DEFINE f == [j \in 1..n |-> q[j]]
  <2>1. f \in Injection(1..n, Elems(q))
    BY <1>1, <1>4, SMT DEF Injection, IsInjective, Elems, Distinct
  <2>2. f \in Surjection(1..n, Elems(q))
    BY <1>1 DEF Surjection, Elems
  <2>3. ExistsBijection(1..n, Elems(q))
    BY <2>1, <2>2 DEF ExistsBijection, Bijection
  <2> QED
    BY <2>3, FS_CountingElements, FS_NatBijection
<1>7. \A u \in Elems(q) : u.trackers = T /\ ~u.retry /\ u.op = 1
  BY <1>1, <1>2, SMT DEF Elems
<1>8. \A u, v \in Elems(q) : u.ctx = v.ctx => u = v
  BY <1>1, <1>2, <1>3, SMT DEF Elems
<1> QED
  BY <1>1, <1>4, <1>5, <1>6, <1>7, <1>8 DEF q, Brood

-----------------------------------------------------------------------------
(* The counters of the trackers. *)

\* child_finished on the trackers of T: what closes, and that no budget is
\* touched.
SameBudgets(new, trk) == \A p \in DOMAIN trk : new[p].budget = trk[p].budget

FewerPending(new, trk, T, n) ==
  \A p \in DOMAIN trk : new[p].pending = trk[p].pending - (IF p \in T THEN n ELSE 0)

\* What finalize_task does to the counters of the trackers a task carries.
LEMMA CountDown ==
  ASSUME NEW trk, trk \in [DOMAIN trk -> Trackers], NEW T \in SUBSET DOMAIN trk,
         NEW n \in Nat \ {0}
  PROVE  LET new == CountedDown(trk, T, n)
             closing == Closing(trk, T, n)
         IN /\ DOMAIN new = DOMAIN trk /\ new \in [DOMAIN new -> Trackers]
            /\ SameBudgets(new, trk) /\ FewerPending(new, trk, T, n)
            /\ closing \subseteq OpenOf(trk) /\ closing \subseteq T
            /\ OpenOf(new) = OpenOf(trk) \ closing
<1> DEFINE new == CountedDown(trk, T, n)
           closing == Closing(trk, T, n)
<1>1. DOMAIN new = DOMAIN trk
  BY DEF CountedDown
<1>2. ASSUME NEW p \in DOMAIN trk
      PROVE  /\ new[p] \in Trackers /\ new[p].budget = trk[p].budget
             /\ trk[p].pending \in Int
             /\ new[p].pending = trk[p].pending - (IF p \in T THEN n ELSE 0)
  BY SMT DEF CountedDown, Trackers
<1>3. new \in [DOMAIN trk -> Trackers]
  BY <1>2 DEF CountedDown
<1>4. closing \subseteq OpenOf(trk) /\ closing \subseteq T
  BY <1>2, SMT DEF Closing, OpenOf
<1>5. ASSUME NEW p \in DOMAIN trk
      PROVE  new[p].pending > 0 <=> trk[p].pending > 0 /\ p \notin closing
  BY <1>2, SMT DEF Closing
<1> HIDE DEF new, closing
<1>6. OpenOf(new) = OpenOf(trk) \ closing
  BY <1>1, <1>5 DEF OpenOf
<1> QED
  BY <1>1, <1>2, <1>3, <1>4, <1>6 DEF new, closing, SameBudgets, FewerPending

\* A task goes, with or without its tasks counted down.
LEMMA CountedEnd ==
  ASSUME NEW T, IsFiniteSet(T), NEW trk, trk \in [DOMAIN trk -> Trackers],
         CountedOver(T, trk), NEW t \in T, t.trackers \subseteq DOMAIN trk,
         NEW n \in Nat \ {0}
  PROVE  CountedOver(T \ {t}, CountedDown(trk, t.trackers, n))
<1> DEFINE new == CountedDown(trk, t.trackers, n)
<1>1. DOMAIN new = DOMAIN trk /\ FewerPending(new, trk, t.trackers, n)
  BY CountDown
<1> HIDE DEF new
<1> SUFFICES ASSUME NEW p \in DOMAIN trk
             PROVE  new[p].pending <= Cardinality(Carriers(T \ {t}, p))
  BY <1>1 DEF CountedOver, new
<1>2. /\ trk[p].pending \in Int /\ trk[p].pending <= Cardinality(Carriers(T, p))
      /\ IsFiniteSet(Carriers(T, p)) /\ Cardinality(Carriers(T, p)) \in Nat
  <2>1. IsFiniteSet(Carriers(T, p))
    BY FS_Subset DEF Carriers
  <2> QED
    BY <2>1, FS_CardinalityType DEF CountedOver, Trackers
<1>3. Carriers(T \ {t}, p) = Carriers(T, p) \ {t}
  BY DEF Carriers
<1>4. Cardinality(Carriers(T, p) \ {t}) =
        IF p \in t.trackers THEN Cardinality(Carriers(T, p)) - 1 ELSE Cardinality(Carriers(T, p))
  BY <1>2, FS_RemoveElement DEF Carriers
<1> DEFINE card == Cardinality(Carriers(T, p))
           card1 == Cardinality(Carriers(T \ {t}, p))
<1>5. /\ card1 = IF p \in t.trackers THEN card - 1 ELSE card
      /\ card \in Nat /\ trk[p].pending <= card
  BY <1>2, <1>3, <1>4
<1> HIDE DEF card, card1
<1>6. new[p].pending <= card1
  BY <1>1, <1>2, <1>5, SMT DEF FewerPending
<1> QED
  BY <1>6 DEF card1

\* A task gives way to others, one at least, that carry its trackers.
LEMMA CountedReplaced ==
  ASSUME NEW T, IsFiniteSet(T), NEW trk, trk \in [DOMAIN trk -> Trackers],
         CountedOver(T, trk), NEW t \in T,
         NEW K, IsFiniteSet(K), K # {}, K \cap (T \ {t}) = {},
         \A u \in K : t.trackers \subseteq u.trackers
  PROVE  CountedOver((T \ {t}) \cup K, trk)
<1> DEFINE U == (T \ {t}) \cup K
<1> SUFFICES ASSUME NEW p \in DOMAIN trk
             PROVE  trk[p].pending <= Cardinality(Carriers(U, p))
  BY DEF CountedOver
<1>1. IsFiniteSet(U)
  BY FS_RemoveElement, FS_Union
<1>2. /\ trk[p].pending \in Int /\ trk[p].pending <= Cardinality(Carriers(T, p))
      /\ IsFiniteSet(Carriers(T, p)) /\ Cardinality(Carriers(T, p)) \in Nat
      /\ IsFiniteSet(Carriers(U, p)) /\ Cardinality(Carriers(U, p)) \in Nat
  <2>1. IsFiniteSet(Carriers(T, p)) /\ IsFiniteSet(Carriers(U, p))
    <3> HIDE DEF U
    <3> QED
      BY <1>1, FS_Subset DEF Carriers
  <2> QED
    BY <2>1, FS_CardinalityType DEF CountedOver, Trackers
<1>3. CASE p \notin t.trackers
  <2>1. Carriers(T, p) \subseteq Carriers(U, p)
    BY <1>3 DEF Carriers
  <2>2. Cardinality(Carriers(T, p)) <= Cardinality(Carriers(U, p))
    BY <1>2, <2>1, FS_Subset
  <2> QED
    BY <1>2, <2>2, SMT
<1>4. CASE p \in t.trackers
  <2>1. PICK u \in K : TRUE
    OBVIOUS
  <2> DEFINE R == Carriers(T, p) \ {t}
             Q == R \cup {u}
  <2>2. t \in Carriers(T, p) /\ u \notin R /\ Q \subseteq Carriers(U, p)
    BY <1>4 DEF Carriers
  <2>3. IsFiniteSet(R) /\ Cardinality(R) = Cardinality(Carriers(T, p)) - 1
    BY <1>2, <2>2, FS_RemoveElement, ZenonT(30)
  <2>4. Cardinality(Q) = Cardinality(R) + 1
    BY <2>2, <2>3, FS_AddElement
  <2> HIDE DEF R, Q
  <2>5. Cardinality(Q) <= Cardinality(Carriers(U, p))
    BY <1>2, <2>2, FS_Subset
  <2> QED
    BY <1>2, <2>3, <2>4, <2>5, SMT
<1> QED
  BY <1>3, <1>4

-----------------------------------------------------------------------------
(* What the manager holds. *)

Weighed(A) == IsFiniteSet(A) /\ \A a \in A : a.budget \in Nat
\* b, if context c is of stage s
BudgetAt(b, c, s) == IF StageOf(c) = s THEN b ELSE 0
Reserving(trk, P) == IsFiniteSet(P) /\ \A p \in P : trk[p].budget \in Nat

\* What the tasks of a stage hold is a natural number, and so is their number.
LEMMA HeldType ==
  ASSUME NEW A, Weighed(A), NEW s
  PROVE  Held(A, s) \in Nat /\ Cardinality(At(A, s)) \in Nat
<1> DEFINE f == [x \in A |-> x.budget]
<1>1. IsFiniteSet(At(A, s)) /\ \A x \in At(A, s) : f[x] \in Nat
  BY FS_Subset DEF Weighed, At
<1>2. Held(A, s) = SumOver(f, At(A, s))
  BY DEF Held
<1> HIDE DEF f
<1> QED
  BY <1>1, <1>2, SumType, FS_CardinalityType

\* B is A with one more element, a.
Enlarged(A, a, B) == a \notin A /\ B = A \cup {a}

\* Task a adds its own budget to what its stage holds, and itself to the stage's tasks.
HeldGrows(A, a, B, s) ==
  /\ Held(A, s) \in Nat /\ Cardinality(At(A, s)) \in Nat
  /\ Held(B, s) = Held(A, s) + BudgetAt(a.budget, a.task.ctx, s)
  /\ Cardinality(At(B, s)) = Cardinality(At(A, s)) + BudgetAt(1, a.task.ctx, s)

\* The tracker of c, with budget b, does the same for what trackers reserve.
ReservedGrows(trk, P, c, b, Q, s) ==
  /\ ReservedBy(trk, P, s) \in Nat /\ Cardinality(StagedAt(P, s)) \in Nat
  /\ ReservedBy(trk, Q, s) = ReservedBy(trk, P, s) + BudgetAt(b, c, s)
  /\ Cardinality(StagedAt(Q, s)) = Cardinality(StagedAt(P, s)) + BudgetAt(1, c, s)

\* One more launched task.
LEMMA HeldAdd ==
  ASSUME NEW A, Weighed(A), NEW a, a.budget \in Nat, NEW s, NEW B, Enlarged(A, a, B)
  PROVE  Weighed(B) /\ HeldGrows(A, a, B, s)
<1> a \notin A /\ B = A \cup {a}
  BY DEF Enlarged
<1> DEFINE f == [x \in A |-> x.budget]
           g == [x \in B |-> x.budget]
           R == At(A, s)
<1>1. IsFiniteSet(R) /\ a \notin R /\ Cardinality(R) \in Nat
  <2>1. IsFiniteSet(R)
    BY FS_Subset DEF Weighed, At
  <2> QED
    BY <2>1, FS_CardinalityType DEF At
<1>2. Weighed(B)
  BY FS_AddElement DEF Weighed
<1>3. \A x \in R : f[x] \in Nat /\ g[x] \in Nat /\ f[x] = g[x]
  BY DEF At, Weighed
<1>4. g[a] = a.budget
  OBVIOUS
<1>5. Held(A, s) = SumOver(f, R) /\ Held(B, s) = SumOver(g, At(B, s))
  BY DEF Held
<1>6. At(B, s) = IF StageOf(a.task.ctx) = s THEN R \cup {a} ELSE R
  BY DEF At
<1> HIDE DEF f, g, R
<1>7. SumOver(f, R) = SumOver(g, R) /\ SumOver(f, R) \in Nat
  BY <1>1, <1>3, SumSame, SumType
<1>8. SumOver(g, R \cup {a}) = SumOver(g, R) + a.budget
  BY <1>1, <1>3, <1>4, SumAdd, SMT
<1>9. Cardinality(R \cup {a}) = Cardinality(R) + 1
  BY <1>1, FS_AddElement
<1>10. Held(B, s) = Held(A, s) + BudgetAt(a.budget, a.task.ctx, s)
  BY <1>5, <1>6, <1>7, <1>8, SMT DEF BudgetAt
<1>11. Cardinality(At(B, s)) = Cardinality(R) + BudgetAt(1, a.task.ctx, s)
  BY <1>1, <1>6, <1>9, SMT DEF BudgetAt
<1> QED
  BY <1>1, <1>2, <1>5, <1>7, <1>10, <1>11 DEF R, HeldGrows

\* One launched task less.
LEMMA HeldRemove ==
  ASSUME NEW A, Weighed(A), NEW a \in A, NEW s
  PROVE  /\ Weighed(A \ {a}) /\ a.budget \in Nat
         /\ Held(A \ {a}, s) \in Nat /\ Cardinality(At(A \ {a}, s)) \in Nat
         /\ Held(A, s) = Held(A \ {a}, s) + BudgetAt(a.budget, a.task.ctx, s)
         /\ Cardinality(At(A, s)) = Cardinality(At(A \ {a}, s)) + BudgetAt(1, a.task.ctx, s)
<1> DEFINE B == A \ {a}
<1>1. Weighed(B) /\ a.budget \in Nat
  BY FS_RemoveElement DEF Weighed
<1>2. Enlarged(B, a, A)
  BY DEF Enlarged
<1> HIDE DEF B
<1>3. HeldGrows(B, a, A, s)
  BY <1>1, <1>2, HeldAdd
<1> QED
  BY <1>1, <1>3 DEF B, HeldGrows

\* The trackers of Q among those of P, and what depends on the budgets only.
LEMMA ReservedSplit ==
  ASSUME NEW trk, NEW P, Reserving(trk, P), NEW Q \in SUBSET P, NEW s
  PROVE  /\ Reserving(trk, Q) /\ Reserving(trk, P \ Q)
         /\ ReservedBy(trk, P, s) = ReservedBy(trk, P \ Q, s) + ReservedBy(trk, Q, s)
         /\ ReservedBy(trk, P \ Q, s) \in Nat /\ ReservedBy(trk, Q, s) \in Nat
         /\ Cardinality(StagedAt(P, s)) =
              Cardinality(StagedAt(P \ Q, s)) + Cardinality(StagedAt(Q, s))
         /\ Cardinality(StagedAt(P \ Q, s)) \in Nat /\ Cardinality(StagedAt(Q, s)) \in Nat
<1> DEFINE f == [p \in P |-> trk[p].budget]
           g == [p \in Q |-> trk[p].budget]
           h == [p \in P \ Q |-> trk[p].budget]
           S == StagedAt(P, s)
           R == StagedAt(Q, s)
<1>1. R \subseteq S /\ S \ R = StagedAt(P \ Q, s)
  BY DEF StagedAt
<1>2. IsFiniteSet(S) /\ IsFiniteSet(R) /\ IsFiniteSet(S \ R)
  <2>1. IsFiniteSet(S)
    BY FS_Subset DEF Reserving, StagedAt
  <2> QED
    BY <1>1, <2>1, FS_Subset
<1>3. /\ \A p \in S : f[p] \in Nat
      /\ \A p \in R : f[p] = g[p]
      /\ \A p \in S \ R : f[p] = h[p]
  BY DEF StagedAt, Reserving
<1>4. /\ ReservedBy(trk, P, s) = SumOver(f, S) /\ ReservedBy(trk, Q, s) = SumOver(g, R)
      /\ ReservedBy(trk, P \ Q, s) = SumOver(h, StagedAt(P \ Q, s))
  BY DEF ReservedBy, StagedAt
<1>5. Reserving(trk, Q) /\ Reserving(trk, P \ Q)
  BY FS_Subset DEF Reserving
<1>6. Cardinality(S) = Cardinality(S \ R) + Cardinality(R)
  <2>1. S = (S \ R) \cup R /\ (S \ R) \cap R = {}
    BY <1>1
  <2>2. Cardinality((S \ R) \cup R) = Cardinality(S \ R) + Cardinality(R) - Cardinality((S \ R) \cap R)
    BY <1>2, FS_Union
  <2>3. Cardinality((S \ R) \cap R) = 0
    BY <2>1, FS_EmptySet
  <2>4. Cardinality(S \ R) \in Nat /\ Cardinality(R) \in Nat
    BY <1>2, FS_CardinalityType
  <2> QED
    BY <2>1, <2>2, <2>3, <2>4, SMT
<1>7. Cardinality(R) \in Nat /\ Cardinality(S \ R) \in Nat
  BY <1>2, FS_CardinalityType
<1> HIDE DEF f, g, h, S, R
<1>8. /\ SumOver(f, S) = SumOver(f, S \ R) + SumOver(f, R)
      /\ SumOver(f, S \ R) \in Nat /\ SumOver(f, R) \in Nat
  BY <1>1, <1>2, <1>3, SumSplit
<1>9. SumOver(f, R) = SumOver(g, R)
  BY <1>2, <1>3, SumSame
<1>10. SumOver(f, S \ R) = SumOver(h, S \ R)
  BY <1>2, <1>3, SumSame
<1> QED
  BY <1>1, <1>4, <1>5, <1>6, <1>7, <1>8, <1>9, <1>10 DEF S, R

\* What trackers reserve depends on their budgets alone.
LEMMA ReservedSame ==
  ASSUME NEW trk, NEW new, NEW P, Reserving(trk, P),
         \A p \in P : new[p].budget = trk[p].budget, NEW s
  PROVE  Reserving(new, P) /\ ReservedBy(new, P, s) = ReservedBy(trk, P, s)
<1> DEFINE f == [p \in P |-> trk[p].budget]
           g == [p \in P |-> new[p].budget]
<1>1. f = g
  OBVIOUS
<1> QED
  BY <1>1 DEF ReservedBy, Reserving

\* One more tracker.
LEMMA ReservedAdd ==
  ASSUME NEW trk, NEW P, Reserving(trk, P), NEW c, NEW s,
         NEW b \in Nat, trk[c].budget = b, NEW Q, Enlarged(P, c, Q)
  PROVE  Reserving(trk, Q) /\ ReservedGrows(trk, P, c, b, Q, s)
<1> c \notin P /\ Q = P \cup {c}
  BY DEF Enlarged
<1> DEFINE f == [p \in P |-> trk[p].budget]
           g == [p \in Q |-> trk[p].budget]
           S == StagedAt(P, s)
<1>1. IsFiniteSet(S) /\ c \notin S /\ Cardinality(S) \in Nat
  <2>1. IsFiniteSet(S)
    BY FS_Subset DEF Reserving, StagedAt
  <2> QED
    BY <2>1, FS_CardinalityType DEF StagedAt
<1>2. Reserving(trk, Q)
  BY FS_AddElement DEF Reserving
<1>3. \A p \in S : f[p] \in Nat /\ g[p] \in Nat /\ f[p] = g[p]
  BY DEF StagedAt, Reserving
<1>4. g[c] = b
  OBVIOUS
<1>5. ReservedBy(trk, P, s) = SumOver(f, S) /\ ReservedBy(trk, Q, s) = SumOver(g, StagedAt(Q, s))
  BY DEF ReservedBy, StagedAt
<1>6. StagedAt(Q, s) = IF StageOf(c) = s THEN S \cup {c} ELSE S
  BY DEF StagedAt
<1> HIDE DEF f, g, S
<1>7. SumOver(f, S) = SumOver(g, S) /\ SumOver(f, S) \in Nat
  BY <1>1, <1>3, SumSame, SumType
<1>8. SumOver(g, S \cup {c}) = SumOver(g, S) + b
  BY <1>1, <1>3, <1>4, SumAdd, SMT
<1>9. Cardinality(S \cup {c}) = Cardinality(S) + 1
  BY <1>1, FS_AddElement
<1>10. ReservedBy(trk, Q, s) = ReservedBy(trk, P, s) + BudgetAt(b, c, s)
  BY <1>5, <1>6, <1>7, <1>8, SMT DEF BudgetAt
<1>11. Cardinality(StagedAt(Q, s)) = Cardinality(S) + BudgetAt(1, c, s)
  BY <1>1, <1>6, <1>9, SMT DEF BudgetAt
<1> QED
  BY <1>1, <1>2, <1>5, <1>7, <1>10, <1>11 DEF S, ReservedGrows

WithCounters(m, u, i) == [m EXCEPT !.used = u, !.inflight = i]

\* A manager with other counters.
LEMMA ManagerFields ==
  ASSUME NEW m, IsManager(m), NEW u \in [StageIds -> Nat], NEW i \in [StageIds -> Nat]
  PROVE  LET n == WithCounters(m, u, i)
         IN IsManager(n) /\ n.used = u /\ n.inflight = i
<1> DEFINE n == WithCounters(m, u, i)
<1>1. /\ n \in [reg : {m.reg}, cap : {m.cap}, min : {m.min}, max : {m.max},
                used : [StageIds -> Nat], inflight : [StageIds -> Nat]]
      /\ n.reg = m.reg /\ n.cap = m.cap /\ n.min = m.min /\ n.max = m.max
      /\ n.used = u /\ n.inflight = i
  BY DEF IsManager, WithCounters
<1> HIDE DEF n
<1> QED
  BY <1>1 DEF IsManager, n

\* Moving capacity about changes no counter.
LEMMA RebalanceKeeps ==
  ASSUME NEW m, IsManager(m), NEW w, NEW A
  PROVE  LET n == Rebalanced(m, w, A)
         IN IsManager(n) /\ n.used = m.used /\ n.inflight = m.inflight
<1>1. PICK x : Rebalanced(m, w, A) = [m EXCEPT !.cap = x]
  BY DEF Rebalanced
<1> DEFINE n == [m EXCEPT !.cap = x]
<1>2. /\ n \in [reg : {m.reg}, cap : {x}, min : {m.min}, max : {m.max},
                used : [StageIds -> Nat], inflight : [StageIds -> Nat]]
      /\ n.reg = m.reg /\ n.cap = x /\ n.min = m.min /\ n.max = m.max
      /\ n.used = m.used /\ n.inflight = m.inflight
  BY DEF IsManager
<1> HIDE DEF n
<1>3. IsManager(n) /\ n.used = m.used /\ n.inflight = m.inflight
  BY <1>2 DEF IsManager
<1> QED
  BY <1>1, <1>3 DEF n

\* The manager's methods that charge and give back.
LEMMA ChargeManager ==
  ASSUME NEW m, IsManager(m), NEW s \in StageIds, NEW b \in Nat
  PROVE  LET n == Charged(m, s, b)
         IN /\ IsManager(n)
            /\ \A r \in StageIds : /\ n.used[r] = m.used[r] + (IF r = s THEN b ELSE 0)
                                   /\ n.inflight[r] = m.inflight[r] + (IF r = s THEN 1 ELSE 0)
<1> DEFINE u == [m.used EXCEPT ![s] = @ + b]
           i == [m.inflight EXCEPT ![s] = @ + 1]
<1>1. /\ u \in [StageIds -> Nat] /\ i \in [StageIds -> Nat]
      /\ \A r \in StageIds : /\ u[r] = m.used[r] + (IF r = s THEN b ELSE 0)
                             /\ i[r] = m.inflight[r] + (IF r = s THEN 1 ELSE 0)
  BY SMT DEF IsManager
<1>2. Charged(m, s, b) = WithCounters(m, u, i)
  BY DEF Charged, WithCounters
<1> HIDE DEF u, i
<1> DEFINE n == WithCounters(m, u, i)
<1>3. IsManager(n) /\ n.used = u /\ n.inflight = i
  BY <1>1, ManagerFields, SMT
<1> HIDE DEF n
<1> QED
  BY <1>1, <1>2, <1>3 DEF n

\* What release_stage does to a manager's counters.
LEMMA ReleaseManager ==
  ASSUME NEW m, IsManager(m), NEW s \in StageIds, NEW b \in Nat
  PROVE  LET n == Released(m, s, b)
         IN /\ IsManager(n)
            /\ \A r \in StageIds :
                 /\ n.used[r] = Larger(0, m.used[r] - (IF r = s THEN b ELSE 0))
                 /\ n.inflight[r] = Larger(0, m.inflight[r] - (IF r = s THEN 1 ELSE 0))
<1> DEFINE u == [m.used EXCEPT ![s] = Larger(0, @ - b)]
           i == [m.inflight EXCEPT ![s] = Larger(0, @ - 1)]
<1>1. /\ u \in [StageIds -> Nat] /\ i \in [StageIds -> Nat]
      /\ \A r \in StageIds :
           /\ u[r] = Larger(0, m.used[r] - (IF r = s THEN b ELSE 0))
           /\ i[r] = Larger(0, m.inflight[r] - (IF r = s THEN 1 ELSE 0))
  BY SMT DEF IsManager, Larger
<1>2. Released(m, s, b) = WithCounters(m, u, i)
  BY DEF Released, WithCounters
<1> HIDE DEF u, i
<1> DEFINE n == WithCounters(m, u, i)
<1>3. IsManager(n) /\ n.used = u /\ n.inflight = i
  BY <1>1, ManagerFields, SMT
<1> HIDE DEF n
<1> QED
  BY <1>1, <1>2, <1>3 DEF n

\* What a release for each of a set of parents does to a manager's counters.
LEMMA RefundManager ==
  ASSUME NEW m, IsManager(m), NEW trk, NEW P, Reserving(trk, P)
  PROVE  LET n == Refunded(m, trk, P)
         IN /\ IsManager(n)
            /\ \A s \in StageIds :
                 /\ n.used[s] = Larger(0, m.used[s] - ReservedBy(trk, P, s))
                 /\ n.inflight[s] = Larger(0, m.inflight[s] - Cardinality(StagedAt(P, s)))
<1> DEFINE u == [s \in StageIds |-> Larger(0, m.used[s] - ReservedBy(trk, P, s))]
           i == [s \in StageIds |-> Larger(0, m.inflight[s] - Cardinality(StagedAt(P, s)))]
<1>1. \A s \in StageIds : ReservedBy(trk, P, s) \in Nat /\ Cardinality(StagedAt(P, s)) \in Nat
  BY ReservedSplit
<1>2. u \in [StageIds -> Nat] /\ i \in [StageIds -> Nat]
  BY <1>1, SMT DEF IsManager, Larger
<1>3. Refunded(m, trk, P) = WithCounters(m, u, i)
  BY DEF Refunded, StagedAt, WithCounters
<1>4. /\ \A s \in StageIds : u[s] = Larger(0, m.used[s] - ReservedBy(trk, P, s))
      /\ \A s \in StageIds : i[s] = Larger(0, m.inflight[s] - Cardinality(StagedAt(P, s)))
  OBVIOUS
<1> HIDE DEF u, i
<1> DEFINE n == WithCounters(m, u, i)
<1>5. IsManager(n) /\ n.used = u /\ n.inflight = i
  BY <1>2, ManagerFields, SMT
<1> HIDE DEF n
<1> QED
  BY <1>3, <1>4, <1>5 DEF n

-----------------------------------------------------------------------------
(* The books stay balanced. *)

\* Charging a task that is launched keeps the balance.
LEMMA BalanceCharge ==
  ASSUME NEW m, IsManager(m), NEW A, Weighed(A), NEW trk, NEW P, Reserving(trk, P),
         Balanced(m, A, trk, P), NEW a, a \notin A, a.budget \in Nat,
         NEW s \in StageIds, StageOf(a.task.ctx) = s
  PROVE  Balanced(Charged(m, s, a.budget), A \cup {a}, trk, P)
<1> DEFINE n == Charged(m, s, a.budget)
           B == A \cup {a}
<1> SUFFICES ASSUME NEW r \in StageIds
             PROVE  /\ n.used[r] = Held(B, r) + ReservedBy(trk, P, r)
                    /\ n.inflight[r] = Cardinality(At(B, r)) + Cardinality(StagedAt(P, r))
  BY DEF Balanced
<1>1. /\ n.used[r] = m.used[r] + (IF r = s THEN a.budget ELSE 0)
      /\ n.inflight[r] = m.inflight[r] + (IF r = s THEN 1 ELSE 0)
  BY ChargeManager, SMT
<1>2. /\ m.used[r] = Held(A, r) + ReservedBy(trk, P, r)
      /\ m.inflight[r] = Cardinality(At(A, r)) + Cardinality(StagedAt(P, r))
  BY DEF Balanced
<1>0. Enlarged(A, a, B)
  BY DEF Enlarged
<1> HIDE DEF B
<1>3. /\ Held(A, r) \in Nat /\ Cardinality(At(A, r)) \in Nat
      /\ Held(B, r) = Held(A, r) + BudgetAt(a.budget, a.task.ctx, r)
      /\ Cardinality(At(B, r)) = Cardinality(At(A, r)) + BudgetAt(1, a.task.ctx, r)
  <2>1. HeldGrows(A, a, B, r)
    BY <1>0, HeldAdd
  <2> QED
    BY <2>1 DEF HeldGrows
<1>4. ReservedBy(trk, P, r) \in Nat /\ Cardinality(StagedAt(P, r)) \in Nat
  BY ReservedSplit
<1> DEFINE b == BudgetAt(a.budget, a.task.ctx, r)
           i == BudgetAt(1, a.task.ctx, r)
<1>5. /\ n.used[r] = m.used[r] + b /\ n.inflight[r] = m.inflight[r] + i
      /\ b \in Nat /\ i \in Nat
  BY <1>1 DEF BudgetAt
<1> HIDE DEF n, B, b, i
<1> QED
  BY <1>2, <1>3, <1>4, <1>5, SMT DEF b, i

\* A task's own budget is given back once it is off the active set.
LEMMA BalanceFree ==
  ASSUME NEW m, IsManager(m), NEW A, Weighed(A), NEW trk, NEW P, Reserving(trk, P),
         Balanced(m, A, trk, P), NEW a \in A, StageOf(a.task.ctx) \in StageIds
  PROVE  Balanced(Freed(m, a), A \ {a}, trk, P)
<1> DEFINE s == StageOf(a.task.ctx)
           n == Freed(m, a)
           B == A \ {a}
<1> SUFFICES ASSUME NEW r \in StageIds
             PROVE  /\ n.used[r] = Held(B, r) + ReservedBy(trk, P, r)
                    /\ n.inflight[r] = Cardinality(At(B, r)) + Cardinality(StagedAt(P, r))
  BY DEF Balanced
<1>1. a.budget \in Nat
  BY DEF Weighed
<1>2. /\ n.used[r] = Larger(0, m.used[r] - (IF r = s THEN a.budget ELSE 0))
      /\ n.inflight[r] = Larger(0, m.inflight[r] - (IF r = s THEN 1 ELSE 0))
  BY <1>1, ReleaseManager, SMT DEF Freed
<1>3. /\ m.used[r] = Held(A, r) + ReservedBy(trk, P, r)
      /\ m.inflight[r] = Cardinality(At(A, r)) + Cardinality(StagedAt(P, r))
  BY DEF Balanced
<1>4. /\ Held(B, r) \in Nat /\ Cardinality(At(B, r)) \in Nat
      /\ Held(A, r) = Held(B, r) + BudgetAt(a.budget, a.task.ctx, r)
      /\ Cardinality(At(A, r)) = Cardinality(At(B, r)) + BudgetAt(1, a.task.ctx, r)
  BY HeldRemove
<1>5. ReservedBy(trk, P, r) \in Nat /\ Cardinality(StagedAt(P, r)) \in Nat
  BY ReservedSplit
<1> DEFINE b == BudgetAt(a.budget, a.task.ctx, r)
           i == BudgetAt(1, a.task.ctx, r)
<1>6. /\ n.used[r] = Larger(0, m.used[r] - b) /\ n.inflight[r] = Larger(0, m.inflight[r] - i)
      /\ b \in Nat /\ i \in Nat
  BY <1>1, <1>2 DEF BudgetAt
<1>7. /\ m.used[r] - b = Held(B, r) + ReservedBy(trk, P, r)
      /\ m.inflight[r] - i = Cardinality(At(B, r)) + Cardinality(StagedAt(P, r))
  <2> HIDE DEF n, B, s, b, i
  <2> QED
    BY <1>3, <1>4, <1>5, <1>6, SMT DEF b, i
<1> HIDE DEF n, B, s, b, i
<1> QED
  BY <1>4, <1>5, <1>6, <1>7, SMT DEF Larger

\* Trackers close.
LEMMA BalanceRefund ==
  ASSUME NEW m, IsManager(m), NEW A, Weighed(A), NEW trk, NEW P, Reserving(trk, P),
         Balanced(m, A, trk, P), NEW Q \in SUBSET P
  PROVE  Balanced(Refunded(m, trk, Q), A, trk, P \ Q)
<1> DEFINE n == Refunded(m, trk, Q)
<1> SUFFICES ASSUME NEW r \in StageIds
             PROVE  /\ n.used[r] = Held(A, r) + ReservedBy(trk, P \ Q, r)
                    /\ n.inflight[r] = Cardinality(At(A, r)) + Cardinality(StagedAt(P \ Q, r))
  BY DEF Balanced
<1>1. /\ Reserving(trk, Q)
      /\ ReservedBy(trk, P, r) = ReservedBy(trk, P \ Q, r) + ReservedBy(trk, Q, r)
      /\ ReservedBy(trk, P \ Q, r) \in Nat /\ ReservedBy(trk, Q, r) \in Nat
      /\ Cardinality(StagedAt(P, r)) =
           Cardinality(StagedAt(P \ Q, r)) + Cardinality(StagedAt(Q, r))
      /\ Cardinality(StagedAt(P \ Q, r)) \in Nat /\ Cardinality(StagedAt(Q, r)) \in Nat
  BY ReservedSplit, SMT
<1>2. /\ n.used[r] = Larger(0, m.used[r] - ReservedBy(trk, Q, r))
      /\ n.inflight[r] = Larger(0, m.inflight[r] - Cardinality(StagedAt(Q, r)))
  BY <1>1, RefundManager, SMT
<1>3. /\ m.used[r] = Held(A, r) + ReservedBy(trk, P, r)
      /\ m.inflight[r] = Cardinality(At(A, r)) + Cardinality(StagedAt(P, r))
  BY DEF Balanced
<1>4. Held(A, r) \in Nat /\ Cardinality(At(A, r)) \in Nat
  BY HeldType
<1> HIDE DEF n
<1>5. /\ m.used[r] - ReservedBy(trk, Q, r) = Held(A, r) + ReservedBy(trk, P \ Q, r)
      /\ m.inflight[r] - Cardinality(StagedAt(Q, r)) =
           Cardinality(At(A, r)) + Cardinality(StagedAt(P \ Q, r))
  BY <1>1, <1>3, <1>4, SMT
<1> QED
  BY <1>1, <1>2, <1>4, <1>5, SMT DEF Larger

\* new is trk, but for a tracker that has the budget of task a.
HandedOver(trk, new, P, a) ==
  /\ \A p \in P : new[p].budget = trk[p].budget
  /\ new[a.task.ctx].budget = a.budget

\* A task's budget passes to the tracker of its context.
LEMMA BalanceHandOver ==
  ASSUME NEW m, NEW A, Weighed(A), NEW trk, NEW P, Reserving(trk, P),
         Balanced(m, A, trk, P), NEW a \in A, a.task.ctx \notin P,
         NEW new, HandedOver(trk, new, P, a)
  PROVE  Balanced(m, A \ {a}, new, P \cup {a.task.ctx}) /\ Reserving(new, P \cup {a.task.ctx})
<1> DEFINE c == a.task.ctx
           B == A \ {a}
           Q == P \cup {c}
<1>0. /\ a.budget \in Nat /\ Reserving(new, P)
      /\ new[c].budget = a.budget /\ Enlarged(P, c, Q)
  BY ReservedSame DEF Weighed, HandedOver, Enlarged
<1> HIDE DEF Q, c
<1>1. Reserving(new, Q)
  BY <1>0, ReservedAdd
<1> SUFFICES ASSUME NEW r \in StageIds
             PROVE  /\ m.used[r] = Held(B, r) + ReservedBy(new, Q, r)
                    /\ m.inflight[r] = Cardinality(At(B, r)) + Cardinality(StagedAt(Q, r))
  BY <1>1 DEF Balanced, Q, c
<1>2. ReservedBy(new, P, r) = ReservedBy(trk, P, r)
  BY ReservedSame, SMT DEF HandedOver
<1>3. /\ ReservedBy(new, P, r) \in Nat /\ Cardinality(StagedAt(P, r)) \in Nat
      /\ ReservedBy(new, Q, r) = ReservedBy(new, P, r) + BudgetAt(a.budget, c, r)
      /\ Cardinality(StagedAt(Q, r)) =
           Cardinality(StagedAt(P, r)) + BudgetAt(1, c, r)
  <2>1. ReservedGrows(new, P, c, a.budget, Q, r)
    BY <1>0, ReservedAdd
  <2> QED
    BY <2>1 DEF ReservedGrows
<1>4. /\ m.used[r] = Held(A, r) + ReservedBy(trk, P, r)
      /\ m.inflight[r] = Cardinality(At(A, r)) + Cardinality(StagedAt(P, r))
  BY DEF Balanced
<1>5. /\ Held(B, r) \in Nat /\ Cardinality(At(B, r)) \in Nat
      /\ Held(A, r) = Held(B, r) + BudgetAt(a.budget, c, r)
      /\ Cardinality(At(A, r)) = Cardinality(At(B, r)) + BudgetAt(1, c, r)
  <2>1. /\ Held(B, r) \in Nat /\ Cardinality(At(B, r)) \in Nat
        /\ Held(A, r) = Held(B, r) + BudgetAt(a.budget, a.task.ctx, r)
        /\ Cardinality(At(A, r)) = Cardinality(At(B, r)) + BudgetAt(1, a.task.ctx, r)
    BY HeldRemove
  <2> HIDE DEF B
  <2> QED
    BY <2>1 DEF c
<1> HIDE DEF B
<1> QED
  BY <1>0, <1>2, <1>3, <1>4, <1>5, SMT DEF BudgetAt

\* An active task runs on.
LEMMA BalanceRun ==
  ASSUME NEW m, NEW A, Weighed(A), NEW trk, NEW P, Balanced(m, A, trk, P),
         NEW a \in A, NEW b, b.budget = a.budget, b.task = a.task, b \notin A \ {a}
  PROVE  Balanced(m, (A \ {a}) \cup {b}, trk, P)
<1> DEFINE R == A \ {a}
           B == R \cup {b}
<1>1. ASSUME NEW r \in StageIds
      PROVE Held(B, r) = Held(A, r) /\ Cardinality(At(B, r)) = Cardinality(At(A, r))
  <2>1. /\ Weighed(R) /\ a.budget \in Nat
        /\ Held(A, r) = Held(R, r) + BudgetAt(a.budget, a.task.ctx, r)
        /\ Cardinality(At(A, r)) = Cardinality(At(R, r)) + BudgetAt(1, a.task.ctx, r)
    BY HeldRemove, ZenonT(30)
  <2> HIDE DEF R
  <2>2. /\ Held(B, r) = Held(R, r) + BudgetAt(b.budget, b.task.ctx, r)
        /\ Cardinality(At(B, r)) = Cardinality(At(R, r)) + BudgetAt(1, b.task.ctx, r)
    <3>1. b.budget \in Nat /\ Enlarged(R, b, B)
      BY <2>1 DEF R, Enlarged
    <3> HIDE DEF B
    <3>2. HeldGrows(R, b, B, r)
      BY <2>1, <3>1, HeldAdd
    <3> QED
      BY <3>2 DEF HeldGrows
  <2> QED
    BY <2>1, <2>2
<1> QED
  BY <1>1 DEF Balanced

\* Well-formed books that balance.
Books(m, A, trk, P) ==
  IsManager(m) /\ Weighed(A) /\ Reserving(trk, P) /\ Balanced(m, A, trk, P)

\* Giving back the budget of a task that ends keeps the books.
LEMMA BooksFree ==
  ASSUME NEW m, NEW A, NEW trk, NEW P, Books(m, A, trk, P),
         NEW a \in A, StageOf(a.task.ctx) \in StageIds, NEW B, B = A \ {a}
  PROVE  Books(Freed(m, a), B, trk, P)
<1>1. Weighed(A \ {a}) /\ a.budget \in Nat
  BY HeldRemove DEF Books
<1>2. Balanced(Freed(m, a), A \ {a}, trk, P)
  BY BalanceFree DEF Books
<1>3. IsManager(Freed(m, a))
  BY <1>1, ReleaseManager DEF Books, Freed
<1> QED
  BY <1>1, <1>2, <1>3 DEF Books

\* Giving back the budgets of trackers that close keeps the books.
LEMMA BooksRefund ==
  ASSUME NEW m, NEW A, NEW trk, NEW P, Books(m, A, trk, P),
         NEW Q \in SUBSET P, NEW R, R = P \ Q
  PROVE  Books(Refunded(m, trk, Q), A, trk, R)
<1>1. Reserving(trk, Q) /\ Reserving(trk, P \ Q)
  BY ReservedSplit DEF Books
<1>2. Balanced(Refunded(m, trk, Q), A, trk, P \ Q)
  BY BalanceRefund DEF Books
<1>3. IsManager(Refunded(m, trk, Q))
  BY <1>1, RefundManager DEF Books
<1> QED
  BY <1>1, <1>2, <1>3 DEF Books

\* Moving capacity keeps the books.
LEMMA BooksRebalance ==
  ASSUME NEW m, NEW A, NEW trk, NEW P, Books(m, A, trk, P), NEW w, NEW B
  PROVE  Books(Rebalanced(m, w, B), A, trk, P)
<1> DEFINE n == Rebalanced(m, w, B)
<1>1. IsManager(n) /\ n.used = m.used /\ n.inflight = m.inflight
  BY RebalanceKeeps DEF Books
<1> HIDE DEF n
<1>2. Balanced(n, A, trk, P)
  BY <1>1 DEF Books, Balanced
<1> QED
  BY <1>1, <1>2 DEF Books, n

\* Counting trackers down keeps the books.
LEMMA BooksSame ==
  ASSUME NEW m, NEW A, NEW trk, NEW P, Books(m, A, trk, P),
         NEW new, \A p \in P : new[p].budget = trk[p].budget
  PROVE  Books(m, A, new, P)
<1>1. \A r \in StageIds : ReservedBy(new, P, r) = ReservedBy(trk, P, r)
  <2>1. [p \in P |-> new[p].budget] = [p \in P |-> trk[p].budget]
    OBVIOUS
  <2> QED
    BY <2>1 DEF ReservedBy
<1>2. Reserving(new, P)
  BY DEF Books, Reserving
<1> QED
  BY <1>1, <1>2 DEF Books, Balanced

\* Handing a budget from a task to a tracker keeps the books.
LEMMA BooksHandOver ==
  ASSUME NEW m, NEW A, NEW trk, NEW P, Books(m, A, trk, P),
         NEW a \in A, a.task.ctx \notin P, NEW new, HandedOver(trk, new, P, a),
         NEW B, B = A \ {a}, NEW Q, Q = P \cup {a.task.ctx}
  PROVE  Books(m, B, new, Q)
<1>1. Weighed(A \ {a})
  BY HeldRemove DEF Books
<1>2. Balanced(m, A \ {a}, new, P \cup {a.task.ctx}) /\ Reserving(new, P \cup {a.task.ctx})
  BY BalanceHandOver DEF Books
<1> QED
  BY <1>1, <1>2 DEF Books

\* Launching a task, and charging it, keeps the books.
LEMMA BooksCharge ==
  ASSUME NEW m, NEW A, NEW trk, NEW P, Books(m, A, trk, P),
         NEW a, a \notin A, a.budget \in Nat, NEW s \in StageIds, StageOf(a.task.ctx) = s,
         NEW B, B = A \cup {a}
  PROVE  Books(Charged(m, s, a.budget), B, trk, P)
<1>1. Weighed(B)
  <2>1. Enlarged(A, a, B)
    BY DEF Enlarged
  <2> QED
    BY <2>1, HeldAdd DEF Books
<1>2. Balanced(Charged(m, s, a.budget), A \cup {a}, trk, P)
  BY BalanceCharge DEF Books
<1>3. IsManager(Charged(m, s, a.budget))
  BY ChargeManager DEF Books
<1> QED
  BY <1>1, <1>2, <1>3 DEF Books

\* A task that goes on keeps the books.
LEMMA BooksRun ==
  ASSUME NEW m, NEW A, NEW trk, NEW P, Books(m, A, trk, P),
         NEW a \in A, NEW b, b.budget = a.budget, b.task = a.task, b \notin A \ {a},
         NEW B, B = (A \ {a}) \cup {b}
  PROVE  Books(m, B, trk, P)
<1>1. Balanced(m, (A \ {a}) \cup {b}, trk, P)
  BY BalanceRun DEF Books
<1>2. Weighed((A \ {a}) \cup {b})
  BY FS_RemoveElement, FS_AddElement DEF Books, Weighed
<1> QED
  BY <1>1, <1>2 DEF Books

=============================================================================
