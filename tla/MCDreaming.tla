----------------------------- MODULE MCDreaming -----------------------------
(***************************************************************************)
(* Instances of Dreaming for TLC.                                          *)
(***************************************************************************)
EXTENDS Dreaming, TLC

\* Workers and jobs are interchangeable; memories are not, their ids are compared.
Interchangeable == Permutations(Worker) \union Permutations(Job)
=============================================================================
