SPECIFICATION Spec
CONSTANTS
  CommandIds = {c1, c2, c3}
  Capacity = 2
  MaxQueue = 3
  NoCommand = NoCommand
  ExecutorOutcomes = {"succeeded", "outcome_unknown"}
CONSTRAINT Bounded
SYMMETRY Symmetry
INVARIANTS
  TypeOK
  AtMostOnce
  HandedIsDurable
PROPERTY
  SettledNotHanded
CHECK_DEADLOCK FALSE
