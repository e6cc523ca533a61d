--------------------------- MODULE MCControllerUnix ---------------------------
EXTENDS ControllerUnix, TLC

Symmetry == Permutations(Threads)
=============================================================================
