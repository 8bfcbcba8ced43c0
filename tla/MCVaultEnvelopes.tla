------------------------ MODULE MCVaultEnvelopes ------------------------
EXTENDS VaultEnvelopes, TLC

Symmetry == Permutations(Requests)
=========================================================================
