SPECIFICATION Spec
CONSTANTS
  Users = {u1, u2}
  Requests = {r1, r2}
  Confirmations = {k1, k2}
  Free = Free
  Changes = {"promote", "demote", "enable", "disable", "reset", "delete"}
  MaxEpoch = 2
SYMMETRY Symmetry
CHECK_DEADLOCK FALSE
INVARIANT
  AnAdminRemains
  RenewedOnce
  ConfirmedOnce
