------------------------------ MODULE MCBuffer ------------------------------
(***************************************************************************)
(* Instances of Buffer for TLC.  Liveness is checked together with safety, *)
(* so the senders are not permuted.                                        *)
(***************************************************************************)
EXTENDS Buffer
=============================================================================
