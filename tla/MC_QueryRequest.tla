-------------------------- MODULE MC_QueryRequest --------------------------
(***************************************************************************)
(* Two requests; the token of kube:admin, and that of a user who may not   *)
(* use the service.  What the first filter writes, the second looks for.   *)
(***************************************************************************)
EXTENDS QueryRequest

CONSTANTS kubeadmin, other, tk, to

MCallowed == {kubeadmin}
MCowner == tk :> kubeadmin @@ to :> other
MCfilters == <<[pattern |-> "secret", replace_with |-> "name"],
               [pattern |-> "name", replace_with |-> "masked"]>>
MCText == {<<"secret", "name">>}
Symmetry == Permutations(Request)
=============================================================================
