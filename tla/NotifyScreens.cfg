SPECIFICATION Spec
CONSTANTS
  adm = adm
  agt = agt
  ag2 = ag2
  rqr = rqr
  Requests = {r1, r2}
  Users = {adm, agt, rqr}
  Sockets = {agt, rqr}
  Tickets = {t1}
  InitialRole <- MCRole
  Managed = {adm}
  Edits <- MCDeactivation
  MaxVersion = 3
  MaxPosts = 1
  NoOne = NoOne
  NoTicket = NoTicket
  NoEvent = NoEvent
VIEW TrailAndLostTogether
SYMMETRY SlotSymmetry
INVARIANTS
  TypeOK
  ScreensCatchUp
  TrailAccountsForAll
PROPERTIES
  NotesStayWithStaff
