------------------------------ MODULE MCAccess ------------------------------
(***************************************************************************)
(* Instances of Access for TLC.                                            *)
(***************************************************************************)
EXTENDS Access, TLC

\* Users, writers and askers are interchangeable among themselves.
Interchangeable == Permutations(User) \union Permutations(Writer)
                      \union Permutations(Asker)
=============================================================================
