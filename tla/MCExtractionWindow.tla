------------------------- MODULE MCExtractionWindow -------------------------
(***************************************************************************)
(* Instances of ExtractionWindow for TLC.                                  *)
(***************************************************************************)
EXTENDS ExtractionWindow, TLC

\* Processes are interchangeable.
Interchangeable == Permutations(Worker)
=============================================================================
