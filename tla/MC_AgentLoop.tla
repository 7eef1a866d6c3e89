---------------------------- MODULE MC_AgentLoop ----------------------------
(***************************************************************************)
(* A small context window: 14 tokens for the prompt, 12 for tools.         *)
(***************************************************************************)
EXTENDS AgentLoop
=============================================================================
