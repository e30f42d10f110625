--------------------------- MODULE MCPlanExecutor ---------------------------
(* Instances of PlanExecutor for TLC. *)
EXTENDS PlanExecutor

Query(items, m) == [items |-> items, contexts |-> m]

\* Every item alone with as many contexts as it is interesting for, and
\* plans whose items feed each other.
SomeQueries ==
  {Query(<<"topk">>, m) : m \in {0, 2, 5}} \cup {Query(<<"agg">>, m) : m \in {0, 6}}
    \cup {Query(<<"icp">>, 2), Query(<<"icp", "agg">>, 1),
          Query(<<"topk", "segment", "agg">>, 3), Query(<<"agg", "product", "topk">>, 3)}

\* A row at the lower of the thresholds 1 and 5, two between and one above, at
\* the higher of -1 and 6; the oracle does not go by the score.
SomeTables == [own |-> {"o1", "o2", "o3", "o4"}, other |-> {"p2", "p4"}, wiki |-> {"w3"}]
Scores == [r \in UNION {SomeTables[t] : t \in DOMAIN SomeTables} |->
  CASE r \in {"o1"} -> 1 [] r \in {"o2", "p2"} -> 3 [] r \in {"o3", "w3"} -> 4 [] OTHER -> 6]
Accepted == {"o1", "o2", "p2", "w3"}

Operator(kind, table, mode, top_k, low, high) ==
  [kind |-> kind, table |-> table, mode |-> mode, top_k |-> top_k, low |-> low, high |-> high]

\* Thresholds above 0, around 0, equal, and below 0; the best row; none; too
\* few arguments; no table.
SomeOperators ==
  {Operator("join", "own", "range", 0, th[1], th[2]) : th \in {<<1, 5>>, <<-1, 6>>, <<3, 3>>, <<-2, -1>>}}
    \cup {Operator(kind, table, "top_k", 1, 0, 0) : kind \in {"join", "search"}, table \in {"own", "none"}}
    \cup {Operator("search", "own", "top_k", 0, 0, 0), Operator("join", "own", "half", 0, 0, 0)}
=============================================================================
