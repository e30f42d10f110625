---------------------------- MODULE MCKVBudget ----------------------------
(* Instances of KVBudget for TLC.                                          *)
EXTENDS KVBudget, TLC

\* With Capacity = 40 a quantum is 2 bytes, so that a move can be cut short
\* by what the donor has to spare or by the room below the maximum.  These
\* are what build registers when the largest estimates are 3 and, behind the
\* join, 24 bytes: stage 1 as the first of several stages and as the only
\* one, stage 2 as the last.
MCGrants == <<{[cap |-> 3, min |-> 3, max |-> 23], [cap |-> 40, min |-> 40, max |-> 40]},
              {[cap |-> 37, min |-> 24, max |-> 40]}>>

ClientSymmetry == Permutations(Clients)
=============================================================================
