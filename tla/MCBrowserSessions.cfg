SPECIFICATION SessionsSpec
CONSTANTS
  Users = {u1, u2}
  Tokens = {t1, t2, t3}
  Requests = {r1, r2}
  NoSession = NoSession
  Capacity = 2
  Ttl = 2
  ActivityInterval = 1
  MaxTime = 4
SYMMETRY Symmetry
CHECK_DEADLOCK FALSE
INVARIANT
  SessionsReachable
  CountIsExact
