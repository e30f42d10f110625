--------------------------- MODULE MCStageQueue ---------------------------
(* StageQueue for TLC: tasks at three operators of a stage.                *)
EXTENDS StageQueue

\* task_priority is -(priority_offset + op_index)
MCPriorities == {-2, -1, 0}
=============================================================================
