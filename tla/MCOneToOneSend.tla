--------------------------- MODULE MCOneToOneSend ---------------------------
EXTENDS OneToOneSend, TLC
Symmetry == Permutations(Requests) \cup Permutations(Rows)
=============================================================================
