------------------------------ MODULE MC_Quota ------------------------------
(***************************************************************************)
(* An instance of Quota with a user limiter, whose quota is only reset,    *)
(* and a cluster limiter, which has both quota_increase and initial_quota. *)
(***************************************************************************)
EXTENDS Quota, TLC

Limiter(t, q, i, p) ==
    [type |-> t, initial_quota |-> q, quota_increase |-> i, period |-> p]

Both == <<Limiter("u", 1, None, 1), Limiter("c", 2, 1, 1)>>
Symmetry == Permutations(User) \cup Permutations(Request) \cup Permutations(Replica)
=============================================================================
