SPECIFICATION Spec
CONSTANTS
  adm = adm
  agt = agt
  rqr = rqr
  Requests = {r1, r2}
  Tickets = {t1}
  Users = {adm, agt, rqr}
  Texts = {x1}
  InitialRole <- MCRole
  Managed = {}
  Edits = {}
  MaxVersion = 5
  ClientsGuess = TRUE
  NoOne = NoOne
  NoTicket = NoTicket
  NoCall = NoCall
SYMMETRY SlotSymmetry
PROPERTIES
  ClosedIsFinal
