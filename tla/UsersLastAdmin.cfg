SPECIFICATION Spec
CONSTANTS
  i1 = i1
  i2 = i2
  i3 = i3
  e1 = e1
  e2 = e2
  e3 = e3
  Requests = {r1, r2}
  Ids = {i1, i2}
  Emails = {e1, e2}
  InitialUsers <- MCUsersAtFirst
  Same = Same
  NoUser = NoUser
  NoCall = NoCall
SYMMETRY SlotSymmetry
INVARIANTS
  SomeoneAdministers
