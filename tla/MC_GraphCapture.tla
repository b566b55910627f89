--------------------------- MODULE MC_GraphCapture ---------------------------
EXTENDS GraphCapture, TLC
Symmetry == Permutations(Ptrs) \cup Permutations(Handles)
==============================================================================
