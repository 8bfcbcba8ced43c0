-------------------------- MODULE MCVaultSession --------------------------
EXTENDS VaultSession, TLC

Symmetry == Permutations(Attempts) \cup Permutations(Handles)
==========================================================================
