----------------------------- MODULE MCSqlDelta -----------------------------
(***************************************************************************)
(* Instances of SqlDelta for TLC: a statement that reads and one that      *)
(* writes.                                                                 *)
(***************************************************************************)
EXTENDS SqlDelta, TLC

CONSTANTS select, insert

MCStatements == {select, insert}
MCClass == (select :> "read") @@ (insert :> "write")
=============================================================================
