SPECIFICATION Spec
CONSTANTS
  adm = adm
  agt = agt
  rqr = rqr
  Requests = {r1, r2}
  Tickets = {t1}
  Users = {adm, agt, rqr}
  Texts = {x1}
  InitialRole <- MCRole
  Managed = {agt}
  Edits <- MCDemotion
  MaxVersion = 4
  ClientsGuess = FALSE
  NoOne = NoOne
  NoTicket = NoTicket
  NoCall = NoCall
SYMMETRY SlotSymmetry
INVARIANTS
  TypeOK
  WritesOverWhatItRead
  OneRowPerVersion
PROPERTIES
  ClosedIsFinal
  OnlyTheInvolvedChange
  ImplementsLedger
