---------------------- MODULE MC_InMemoryCacheThreads ----------------------
(* Two threads, two conversations, room for two messages. *)
EXTENDS InMemoryCacheThreads

MCTopic == {""}
=============================================================================
