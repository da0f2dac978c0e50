--------------------------- MODULE MCSetupProcess ---------------------------
EXTENDS SetupProcess, TLC

Symmetry == Permutations(Requests) \cup Permutations(Keys) \cup Permutations(Databases)
=============================================================================
