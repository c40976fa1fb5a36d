------------------------- MODULE MCMemoryLifecycle -------------------------
(***************************************************************************)
(* Instances of MemoryLifecycle for TLC.                                   *)
(***************************************************************************)
EXTENDS MemoryLifecycle, TLC

\* Processes are interchangeable; memories are numbered in the order they are added.
Interchangeable == Permutations(Process)
=============================================================================
