--------------------------- MODULE MCNotesIndex ---------------------------
EXTENDS NotesIndex, TLC

Symmetry == Permutations(Notes) \cup Permutations(Calls) \cup Permutations(Hooks)
==========================================================================
