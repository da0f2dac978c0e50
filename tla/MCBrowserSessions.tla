------------------------ MODULE MCBrowserSessions ------------------------
EXTENDS BrowserSessions, TLC

Symmetry == Permutations(Users) \cup Permutations(Tokens) \cup Permutations(Requests)
=============================================================================
