---------------------------- MODULE MCMiddleware ----------------------------
(***************************************************************************)
(* Instances of Middleware for TLC.  No definition tells recorders apart.  *)
(***************************************************************************)
EXTENDS Middleware, TLC

RecorderSymmetry == Permutations(Recorders)
=============================================================================
