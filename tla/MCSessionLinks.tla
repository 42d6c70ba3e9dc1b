--------------------------- MODULE MCSessionLinks ---------------------------
EXTENDS SessionLinks, TLC

\* Links differ in name only, and Clashes is closed under permutations.
Symmetry == Permutations(Links)
=============================================================================
