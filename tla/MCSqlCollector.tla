--------------------------- MODULE MCSqlCollector ---------------------------
(***************************************************************************)
(* Instances of SqlCollector for TLC: a fast, a slow and a slower query.   *)
(***************************************************************************)
EXTENDS SqlCollector

MCDurations == {0, 2, 3}
=============================================================================
