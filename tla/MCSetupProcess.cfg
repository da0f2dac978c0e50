SPECIFICATION SetupSpec
CONSTANTS
  Requests = {r1, r2}
  Keys = {k1, k2}
  Databases = {d1, d2}
  MaxFence = 2
  Writes = 4
  Rows = {2, 4}
  Usable = 1
  None = None
SYMMETRY Symmetry
INVARIANT
  RecordedStepHolds
  OneAdministrator
  SafeRetry
