SPECIFICATION Spec
CONSTANTS
  Requests = {r1}
  Companies = {c1}
  Domains = {d1, d2}
  PoolMax = 1
  NoDomain = NoDomain
  Keep = Keep
  Unborn = Unborn
  Removed = Removed
SYMMETRY SlotSymmetry
INVARIANTS
  EveryCompanyHasADomain
