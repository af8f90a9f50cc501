--------------------------- MODULE MCTextPublish ---------------------------
EXTENDS TextPublish, TLC

Symmetry == Permutations(Attempts) \cup Permutations(Contents)

=============================================================================
