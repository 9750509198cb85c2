--------------------------- MODULE MCCircularBuffer ---------------------------
EXTENDS CircularBuffer, TLC

Symmetry == Permutations(Bufs) \cup Permutations(Values)
===============================================================================
