-------------------------- MODULE MCIndexDelivery --------------------------
(***************************************************************************)
(* Instances of IndexDelivery for TLC.                                     *)
(***************************************************************************)
EXTENDS IndexDelivery, TLC

\* Processes are interchangeable, and so are scopes.
Interchangeable == Permutations(Worker) \union Permutations(Scope)
=============================================================================
