--------------------------- MODULE MCHostMetrics ---------------------------
(***************************************************************************)
(* Instances of HostMetrics for TLC.                                       *)
(***************************************************************************)
EXTENDS HostMetrics
=============================================================================
