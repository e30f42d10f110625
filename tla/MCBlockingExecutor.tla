------------------------ MODULE MCBlockingExecutor ------------------------
(* Instances of BlockingExecutor for TLC. *)
EXTENDS BlockingExecutor
=============================================================================
