SPECIFICATION Spec
CONSTANTS
  Requests = {r1, r2}
  Companies = {c1, c2}
  Domains = {d1, d2}
  PoolMax = 2
  NoDomain = NoDomain
  Keep = Keep
  Unborn = Unborn
  Removed = Removed
SYMMETRY SlotSymmetry
INVARIANTS
  HashingLeavesConnections
