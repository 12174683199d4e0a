SPECIFICATION Spec
CONSTANTS
  adm = adm
  agt = agt
  rqr = rqr
  Requests = {r1}
  Tickets = {t1}
  Users = {adm, agt, rqr}
  Texts = {x1}
  InitialRole <- MCRole
  Managed = {agt}
  Edits <- MCDemotion
  MaxVersion = 3
  ClientsGuess = FALSE
  NoOne = NoOne
  NoTicket = NoTicket
  NoCall = NoCall
INVARIANTS
  RequesterIsNeverAssignee
