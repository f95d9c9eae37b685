--------------------- MODULE MCLegalDatasetPublication ---------------------
(***************************************************************************)
(* Instances of LegalDatasetPublication for TLC.                           *)
(***************************************************************************)
EXTENDS LegalDatasetPublication, TLC

Symmetry == Permutations(Publisher) \cup Permutations(Run) \cup Permutations(Index)
=============================================================================
