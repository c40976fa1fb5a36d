------------------------------ MODULE MCBudget ------------------------------
(***************************************************************************)
(* Instances of Budget for TLC.  No symmetry: one run checks a liveness    *)
(* property, which symmetry sets would make unsound.                       *)
(***************************************************************************)
EXTENDS Budget, TLC
=============================================================================
