SPECIFICATION LiveSpec
CONSTANTS
  Reports = {p1, p2}
  Workers = {w1}
  MaxStalls = 1
  NoRow = NoRow
  NoReport = NoReport
  NoWorker = NoWorker
INVARIANTS
  TypeOK
  OutcomesAgree
PROPERTIES
  SettledUnlessStalled
  EveryReportSettles
CHECK_DEADLOCK FALSE
