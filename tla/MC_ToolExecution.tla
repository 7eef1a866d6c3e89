-------------------------- MODULE MC_ToolExecution --------------------------
(* A round of two concurrent calls, under every policy and annotation. *)
EXTENDS ToolExecution
=============================================================================
