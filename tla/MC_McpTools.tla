---------------------------- MODULE MC_McpTools ----------------------------
(***************************************************************************)
(* Two requests and three servers: one for the user's token, one for a     *)
(* client header, one with headers of its own; two of them have a tool of  *)
(* the same name.                                                          *)
(***************************************************************************)
EXTENDS McpTools, TLC

MCservers == <<"k8s", "client", "plain">>
MCheaders == "k8s" :> {"kubernetes"} @@ "client" :> {"client"} @@ "plain" :> {}
MCtools == "k8s" :> {"get"} @@ "client" :> {"get"} @@ "plain" :> {"list"}
Symmetry == Permutations(Request)
=============================================================================
