------------------------------ MODULE MCDPWaves ------------------------------
(* Instances of DPWaves for TLC. *)
EXTENDS DPWaves

\* Each client sends one request; one of them is not finished when the
\* engines first meet, if it comes between two meetings.
OwnerOf == [r \in Requests |-> IF r = "r1" THEN "c1" ELSE "c2"]
NeedsOf == [r \in Requests |-> IF r = "r1" THEN 1 ELSE 2]
=============================================================================
