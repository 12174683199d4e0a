SPECIFICATION Spec
CONSTANTS
  Requests = {r1, r2}
  Users = {u1, u2}
  Tokens = {k1, k2, k3}
  MaxEpoch = 1
  NoToken = NoToken
  NoRow = NoRow
  NoJob = NoJob
VIEW WithoutOldHistories
SYMMETRY SlotTokenAndUserSymmetry
INVARIANTS
  TypeOK
  OneSessionPerLogin
  OnlyTheOverlappingOutlive
PROPERTIES
  ImplementsChains
