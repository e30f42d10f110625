--------------------------- MODULE MCPinLifecycle ---------------------------
(* Instances of PinLifecycle for TLC: two tuples of one query, beside a    *)
(* query that ends without having asked for a pin, or a single tuple.      *)
EXTENDS PinLifecycle, TLC

CONSTANT q1

OneQuery == [t \in Tuples |-> q1]

\* Requests are interchangeable, and so are the tuples, which have one query.
Symmetry == Permutations(Requests) \cup Permutations(Tuples)
=============================================================================
