-------------------------------- MODULE Sums --------------------------------
(* Sums over finite sets of what a function gives to their elements: the   *)
(* bytes that tasks, trackers and workers hold.                            *)
EXTENDS Integers, FiniteSets, Folds

SumOver(f, S) ==
  MapThenFoldSet(+, 0, LAMBDA x : f[x], LAMBDA s : CHOOSE x \in s : TRUE, S)
=============================================================================
