SPECIFICATION Spec
CONSTANTS
  Requests = {r1, r2}
  Logins = {l1}
  Ceremonies = {c1}
  Authenticators = {1, 2}
  Batches = {1, 2}
  Counters = {1}
  Signatures = {0, 1}
  Attempts = 2
  None = None
SYMMETRY Symmetry
CHECK_DEADLOCK FALSE
INVARIANT
  AcceptedOnce
  OneSessionPerChallenge
  CodesFollowAuthenticator
