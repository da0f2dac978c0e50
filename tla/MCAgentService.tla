--------------------------- MODULE MCAgentService ---------------------------
EXTENDS AgentService

CONSTANT MaxQueue  \* the ledger's queue: expired commands stay in it

Bounded == Len(ledger.queue) <= MaxQueue

Symmetry == Permutations(CommandIds)
=============================================================================
