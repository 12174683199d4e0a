SPECIFICATION FairSpec
CONSTANTS
  adm = adm
  agt = agt
  rqr = rqr
  Requests = {r1, r2}
  Tickets = {t1, t2}
  Users = {adm}
  Texts = {x1}
  InitialRole <- MCRole
  Managed = {}
  Edits = {}
  MaxVersion = 2
  ClientsGuess = FALSE
  NoOne = NoOne
  NoTicket = NoTicket
  NoCall = NoCall
INVARIANTS
  NumbersAreContiguous
PROPERTIES
  EveryRequestEnds
