SPECIFICATION Spec
CONSTANTS
  Tenants = {t1, t2}
  Rows = {r1}
  MaxDepth = 2
  NoTenant = NoTenant
  NoRow = NoRow
  Unnamed = Unnamed
INVARIANTS
  CauseIsNeverReplaced
