---------------------- MODULE MC_HistoryCompression ----------------------
(***************************************************************************)
(* Instances of HistoryCompression: one request at a time, and two.        *)
(***************************************************************************)
EXTENDS HistoryCompression
=============================================================================
