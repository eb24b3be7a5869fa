--------------------------- MODULE MCCommitOrder ---------------------------
EXTENDS CommitOrder, TLC

CONSTANTS w1, w2, w3

Symmetry == Permutations(Workers)
=============================================================================
