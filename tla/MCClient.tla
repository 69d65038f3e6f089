------------------------------ MODULE MCClient ------------------------------
(***************************************************************************)
(* Instances of Client for TLC: a sender goroutine and the metrics loop.   *)
(***************************************************************************)
EXTENDS Client
=============================================================================
