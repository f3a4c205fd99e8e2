----------------------------- MODULE MCJoinFlow -----------------------------
EXTENDS JoinFlow, TLC
Symmetry == Permutations(Games)
=============================================================================
