------------------------- MODULE MC_InMemoryCache -------------------------
(* One user with three conversations; three messages fit, so that the      *)
(* fourth evicts, and a conversation can lose one message or disappear.    *)
EXTENDS InMemoryCache

MCTopic == {"", "topic"}
=============================================================================
