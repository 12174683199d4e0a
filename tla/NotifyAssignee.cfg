SPECIFICATION Spec
CONSTANTS
  adm = adm
  agt = agt
  ag2 = ag2
  rqr = rqr
  Requests = {r1, r2}
  Users = {adm, agt, rqr}
  Sockets = {}
  Tickets = {t1}
  InitialRole <- MCRole
  Managed = {}
  Edits = {}
  MaxVersion = 3
  MaxPosts = 1
  NoOne = NoOne
  NoTicket = NoTicket
  NoEvent = NoEvent
SYMMETRY SlotSymmetry
PROPERTIES
  NoteReachesTheAssignee
