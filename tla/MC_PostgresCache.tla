-------------------------- MODULE MC_PostgresCache --------------------------
(***************************************************************************)
(* Two replicas and two conversations at a capacity of two entries.        *)
(***************************************************************************)
EXTENDS PostgresCache, TLC

ReplicaSymmetry == Permutations(Replica)
=============================================================================
