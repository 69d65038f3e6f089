------------------------------- MODULE MCApm -------------------------------
(***************************************************************************)
(* Instances of Apm for TLC.                                               *)
(***************************************************************************)
EXTENDS Apm
=============================================================================
