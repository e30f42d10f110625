----------------------------- MODULE MCKVBlocks -----------------------------
(* Instances of KVBlocks for TLC: requests whose tokens share prefixes.    *)
EXTENDS KVBlocks, TLC

CONSTANTS r1, r2, r3

Reqs == {r1, r2, r3}
Toks == (r1 :> <<1, 1, 1, 1, 1>>) @@ (r2 :> <<1, 1, 1, 2>>) @@ (r3 :> <<1, 1, 1, 1, 3>>)
Prompts == (r1 :> 4) @@ (r2 :> 3) @@ (r3 :> 4)
Pins == {r1, r2}

Symmetry == Permutations(Blocks)
=============================================================================
