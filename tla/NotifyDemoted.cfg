SPECIFICATION Spec
CONSTANTS
  adm = adm
  agt = agt
  ag2 = ag2
  rqr = rqr
  Requests = {r1}
  Users = {adm, agt, rqr}
  Sockets = {adm}
  Tickets = {t1}
  InitialRole <- MCRole
  Managed = {adm}
  Edits <- MCAnyEdit
  MaxVersion = 2
  MaxPosts = 1
  NoOne = NoOne
  NoTicket = NoTicket
  NoEvent = NoEvent
SYMMETRY SlotSymmetry
INVARIANTS
  AdminRoomIsAdmins
