--------------------------- MODULE PriorityQueue ---------------------------
(***************************************************************************)
(* What the waiting list of a stage promises its executor: a set of tasks  *)
(* from which the first in priority order, oldest first, is taken.         *)
(***************************************************************************)
EXTENDS Integers

CONSTANTS
  Priorities,  \* smaller is more urgent
  Ids          \* integers, in order of age

Task == [prio : Priorities, id : Ids]

(* Before(t, u): t is served before u. *)
Before(t, u) == t.prio < u.prio \/ (t.prio = u.prio /\ t.id < u.id)

VARIABLE items

First(t) == t \in items /\ \A u \in items \ {t} : Before(t, u)

QInit == items = {}

Insert(t) ==
  /\ \A u \in items : u.id < t.id
  /\ items' = items \cup {t}

Take(t) ==
  /\ First(t)
  /\ items' = items \ {t}

QClear == items' = {}

QNext == QClear \/ \E t \in Task : Insert(t) \/ Take(t)

QSpec == QInit /\ [][QNext]_items
=============================================================================
