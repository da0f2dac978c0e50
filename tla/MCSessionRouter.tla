--------------------------- MODULE MCSessionRouter ---------------------------
EXTENDS SessionRouter, TLC

Symmetry == Permutations(Sessions) \cup Permutations(Commands)
=============================================================================
