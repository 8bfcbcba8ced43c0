------------------------- MODULE MCPasskeyVault -------------------------
EXTENDS PasskeyVault, TLC

Symmetry == Permutations(Variants) \cup Permutations(Tokens) \cup Permutations(Slots)
=========================================================================
