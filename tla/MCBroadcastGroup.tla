--------------------------- MODULE MCBroadcastGroup ---------------------------
EXTENDS BroadcastGroup, TLC

Symmetry == Permutations(Conns) \cup Permutations(Pipes)
===============================================================================
