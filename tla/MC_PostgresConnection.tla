----------------------- MODULE MC_PostgresConnection -----------------------
(***************************************************************************)
(* Two threads, one broken connection.                                     *)
(***************************************************************************)
EXTENDS PostgresConnection
=============================================================================
