------------------------------ MODULE Dataflow ------------------------------
(***************************************************************************)
(* What a pipeline segment promises, without queues, budgets or pins: each *)
(* input tuple passes Depth stages, is replaced by its children between    *)
(* two of them, may be rejected on the way, and is returned after the last *)
(* (its children are, if the segment ends in a join).                      *)
(***************************************************************************)
EXTENDS Integers, Sequences

CONSTANTS Inputs, MaxFanout, Depth

VARIABLES
  filtering,   \* the stages, from 1, that have a predicate: this and the
  endsInJoin,  \* next do not change
  live,      \* tuples being worked on
  rejected,  \* the live ones a predicate rejected
  out,       \* tuples returned
  state      \* "running", "returned" or "failed"

dvars == <<filtering, endsInJoin, live, rejected, out, state>>

Children(c, n) == {Append(c, j) : j \in 1..n}

DInit ==
  /\ filtering \subseteq 1..Depth /\ endsInJoin \in BOOLEAN
  /\ \E m \in 0..Inputs : live = {<<i>> : i \in 1..m}
  /\ rejected = {} /\ out = {} /\ state = "running"

\* A failed segment does not cancel the tuples being worked on.
Reject(c) ==
  /\ state # "returned" /\ c \in live \ rejected /\ Len(c) \in filtering
  /\ rejected' = rejected \cup {c}
  /\ UNCHANGED <<live, out, state>>

Remove(c) ==
  /\ state = "running" /\ c \in rejected
  /\ live' = live \ {c} /\ rejected' = rejected \ {c}
  /\ UNCHANGED <<out, state>>

Join(c, n) ==
  /\ state = "running" /\ c \in live \ rejected /\ Len(c) < Depth
  /\ live' = (live \ {c}) \cup Children(c, n)
  /\ UNCHANGED <<rejected, out, state>>

Return(c, n) ==
  /\ state = "running" /\ c \in live \ rejected /\ Len(c) = Depth
  /\ live' = live \ {c}
  /\ out' = out \cup (IF endsInJoin THEN Children(c, n) ELSE {c})
  /\ UNCHANGED <<rejected, state>>

End == state = "running" /\ live = {} /\ state' = "returned" /\ UNCHANGED <<live, rejected, out>>

\* The tuple whose operator raised is given up.
Fail(c) ==
  /\ state = "running" /\ c \in live \ rejected
  /\ live' = live \ {c} /\ state' = "failed"
  /\ UNCHANGED <<rejected, out>>

DNext ==
  /\ UNCHANGED <<filtering, endsInJoin>>
  /\ \/ \E c \in live : Reject(c) \/ Remove(c) \/ Fail(c)
     \/ \E c \in live, n \in 0..MaxFanout : Join(c, n) \/ Return(c, n)
     \/ End

DataflowSpec == DInit /\ [][DNext]_dvars
=============================================================================
