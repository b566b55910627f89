------------------------ MODULE MC_TrackingAllocator ------------------------
EXTENDS TrackingAllocator, TLC
Symmetry == Permutations(Ptrs) \cup Permutations(Owners)
=============================================================================
