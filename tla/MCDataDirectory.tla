--------------------------- MODULE MCDataDirectory ---------------------------
(* Instances of DataDirectory for TLC. *)
EXTENDS DataDirectory, TLC

Symmetry == Permutations(Ceremonies)
=============================================================================
