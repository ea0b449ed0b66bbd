------------------------------- MODULE MCCRL -------------------------------
(* Instances of CRLService for TLC. *)
EXTENDS CRLService, TLC

Symmetry == Permutations(Callers) \cup Permutations(Loops) \cup Permutations(Serials)
=============================================================================
