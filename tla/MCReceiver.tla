----------------------------- MODULE MCReceiver -----------------------------
EXTENDS Receiver, TLC

\* The goroutines of the application are interchangeable.
Symmetry == Permutations(Apps)
=============================================================================
