------------------------------ MODULE MCAcmeAuth ------------------------------
EXTENDS AcmeAuth, TLC

Symmetry ==
  Permutations(Callers) \cup Permutations(Nonces) \cup Permutations(Keys) \cup Permutations(Accounts)
=============================================================================
