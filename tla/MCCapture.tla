----------------------------- MODULE MCCapture -----------------------------
(***************************************************************************)
(* Instances of Capture for TLC.                                           *)
(***************************************************************************)
EXTENDS Capture, TLC

\* Hooks of a session are interchangeable.
Interchangeable == Permutations(Hook)
=============================================================================
