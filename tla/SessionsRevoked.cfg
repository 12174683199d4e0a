SPECIFICATION Spec
CONSTANTS
  Requests = {r1, r2}
  Users = {u1}
  Tokens = {k1, k2}
  MaxEpoch = 1
  NoToken = NoToken
  NoRow = NoRow
  NoJob = NoJob
SYMMETRY SlotTokenAndUserSymmetry
CHECK_DEADLOCK FALSE
INVARIANTS
  ReuseEndsTheChain PasswordChangeEndsSessions DeactivatedHaveNoSession
