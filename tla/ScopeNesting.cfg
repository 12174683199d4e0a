SPECIFICATION Spec
CONSTANTS
  Tenants = {t1, t2}
  Rows = {r1, r2}
  MaxDepth = 4
  NoTenant = NoTenant
  NoRow = NoRow
  Unnamed = Unnamed
SYMMETRY ScopeSymmetry
INVARIANTS
  LayersAgree
  ScopeSeesItsTenant
  UsableUnlessThrowing
  AnnouncedIsCommitted
  CallerSeesTheCause
