SPECIFICATION RuntimeSpec
CONSTANTS
  CommandIds = {c1, c2}
  Devices = {1}
  CommandTypes = {"media.stop"}
  Keys = {k1, k2}
  NoBatch = NoBatch
  QueueLimit = 2
  SafeIntegers = {0, 1, 2, 3}
  Owned = {1}
  Disableable = {1}
  Tasks = {t1, t2}
  Faults = {"lost", "unknown"}
  None = None
  Results = {"accepted", "failed"}
  MaxSequence = 2
CONSTRAINT Bounded
SYMMETRY Symmetry
INVARIANTS
  PerKeyOnce
  IdempotentAnswers
  NumbersFresh
  RowsRecovered
