-------------------------- MODULE MCCommandRuntime --------------------------
EXTENDS CommandRuntime, TLC

CONSTANT MaxSequence  \* the last sequence number from which states are explored

Bounded == \A d \in Devices : sequences[d] <= MaxSequence

Symmetry == Permutations(Tasks) \cup Permutations(CommandIds) \cup Permutations(Keys)
=============================================================================
