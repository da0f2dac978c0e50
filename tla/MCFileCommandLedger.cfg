SPECIFICATION Spec
CONSTANTS
  CommandIds = {c1, c2}
  Capacity = 1
  Outcomes = {"succeeded"}
CONSTRAINT Bounded
INVARIANTS
  LedgersWellFormed
  NeverTorn
PROPERTIES
  RefinesDurableLedger
  NonTerminalKept
CHECK_DEADLOCK FALSE
