---------------------------- MODULE MCWebRelease ----------------------------
EXTENDS WebRelease, TLC

Symmetry == Permutations(Releases) \cup Permutations(Clients) \cup Permutations(Nonces) \cup Permutations(Tasks)
=============================================================================
