--------------------------- MODULE MCCommandLoop ---------------------------
EXTENDS CommandLoop, TLC
Symmetry == Permutations(Cmds) \cup Permutations(Items)
=============================================================================
