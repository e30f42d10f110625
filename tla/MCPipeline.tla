----------------------------- MODULE MCPipeline -----------------------------
(* Instances of PipelineExecutor for TLC. *)
EXTENDS PipelineDataflow, TLC

Segment(ops, fanout, pinning, ends, inputs) ==
  [ops |-> ops, fanout |-> fanout, pinning |-> pinning, ends |-> ends, inputs |-> inputs]

\* Whole queries of two stages (map, join, filter, search; search, join,
\* filter, map; map, join, icp, map), and the first segment of a longer
\* one that pins in both stages: classify, join, cascade, join.
TwoStages ==
  {Segment(1 :> <<"map">> @@ 2 :> <<"filter", "search">>, {1}, TRUE, TRUE, 2),
   Segment(1 :> <<"search">> @@ 2 :> <<"filter", "map">>, {1}, TRUE, TRUE, 2),
   Segment(1 :> <<"map">> @@ 2 :> <<"icp", "map">>, {1}, TRUE, TRUE, 1),
   Segment(1 :> <<"classify">> @@ 2 :> <<"cascade">>, {1, 2}, TRUE, FALSE, 1)}
TwoStagesPlan ==
  1 :> [cap |-> 1, min |-> 1, max |-> 3] @@ 2 :> [cap |-> 2, min |-> 1, max |-> 3]

\* A whole query of two joins: filter, join, map, join, filter.
TwoJoins ==
  {Segment(1 :> <<"filter">> @@ 2 :> <<"map">> @@ 3 :> <<"filter">>, {1, 2}, TRUE, TRUE, 1)}
TwoJoinsPlan ==
  [s \in 1..3 |-> [cap |-> IF s = 3 THEN 2 ELSE 1, min |-> 1, max |-> IF s = 3 THEN 4 ELSE 3]]
=============================================================================
