-------------------------- MODULE MCSignInFactors --------------------------
EXTENDS SignInFactors, TLC

Symmetry == Permutations(Requests) \cup Permutations(Logins) \cup Permutations(Ceremonies)
=============================================================================
