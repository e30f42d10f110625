-------------------------- MODULE PipelineDataflow --------------------------
(***************************************************************************)
(* The pipeline executor seen as a Dataflow: the tuples that still have    *)
(* work are the contexts of its tasks, and the rejected ones are those a   *)
(* predicate has dropped and the executor has not yet handled.             *)
(***************************************************************************)
EXTENDS PipelineExecutor

(* The segment computes what Dataflow says: every tuple goes once through  *)
(* each stage, and leaves early only if a predicate rejected it or it has  *)
(* no partner.                                                             *)
FilteringStages ==
  {s \in Stages : \E i \in 1..Len(Ops[s]) : Ops[s][i] \in {"filter", "icp", "cascade"}}
RejectedTuples == {a.task.ctx : a \in {x \in active : x.status = "drop"}}
DF == INSTANCE Dataflow WITH
  Depth <- LastStage - FirstStage + 1, endsInJoin <- LastStage \in Fanout,
  filtering <- {s - FirstStage + 1 : s \in FilteringStages},
  live <- Live, rejected <- RejectedTuples,
  state <- IF pc \in {"returned", "failed"} THEN pc ELSE "running"
ImplementsDataflow == DF!DataflowSpec
=============================================================================
