------------------------------- MODULE MCJobs -------------------------------
(***************************************************************************)
(* Instances of Jobs for TLC.                                              *)
(***************************************************************************)
EXTENDS Jobs, TLC

CONSTANTS j1, j2

\* An extraction with one window to judge, and an erasure.
ExtractionAndErasure == (j1 :> "extraction") @@ (j2 :> "erase")

\* A reindex, which waits for the index and polls for its cancellation, and
\* an erasure, which may be past cancelling.
ReindexAndErasure == (j1 :> "reindex") @@ (j2 :> "erase")

\* An extraction of one window has one call; nothing else is limited.
OneCall == [j \in Job |-> IF Kind[j] = "extraction" THEN 1 ELSE 0]

Workers == Permutations(Worker)
=============================================================================
