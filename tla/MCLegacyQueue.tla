--------------------------- MODULE MCLegacyQueue ---------------------------
EXTENDS LegacyQueue, TLC
Symmetry == Permutations(Workers)
=============================================================================
