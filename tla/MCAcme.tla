------------------------------- MODULE MCAcme -------------------------------
(* Instances of AcmeOrders for TLC. *)
EXTENDS AcmeOrders, TLC

Symmetry == Permutations(Callers) \cup Permutations(Orders)
              \cup Permutations(Authzs) \cup Permutations(Serials)
=============================================================================
