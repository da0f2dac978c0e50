SPECIFICATION Spec
CONSTANTS
  Devices = {d1, d2}
  Sockets = {s1, s2}
  Calls = {a1, a2}
  MaxConnections = 1
  MaxPending = 1
  None = None
SYMMETRY Symmetry
CHECK_DEADLOCK FALSE
INVARIANTS
  TypeOK
  RegistryIsCurrent
  OneOpenConnection
  DeactivatedIsOffline
  ErasedOnlyWhenDeleted
