--------------------------- MODULE MCPluginSession ---------------------------
EXTENDS PluginSession, TLC

AllMessages == Range(Script)

Symmetry == Permutations(Threads)
=============================================================================
