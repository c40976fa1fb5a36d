----------------------------- MODULE MCErasure -----------------------------
(***************************************************************************)
(* Instances of Erasure for TLC.                                           *)
(***************************************************************************)
EXTENDS Erasure, TLC

\* Workers are interchangeable, and so are job ids: neither is compared or chosen.
Interchangeable == Permutations(Worker) \union Permutations(Job)
=============================================================================
