SPECIFICATION ReleaseSpec
CONSTANTS
  Releases = {r1, r2}
  Clients = {c1, c2}
  Nonces = {n1}
  Tasks = {t1, t2}
  Resources = 1
  Absent = Absent
SYMMETRY Symmetry
CHECK_DEADLOCK FALSE
INVARIANT
  ActivatedRan
  ActiveKeepsCache
