---------------------------- MODULE MCLifecycle ----------------------------
(* CertLifecycle for TLC: callers and serials are interchangeable.         *)
EXTENDS CertLifecycle, TLC

Symmetry == Permutations(Callers) \cup Permutations(Serials)
=============================================================================
