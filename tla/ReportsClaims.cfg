SPECIFICATION Spec
CONSTANTS
  Reports = {p1}
  Workers = {w1}
  MaxStalls = 1
  NoRow = NoRow
  NoReport = NoReport
  NoWorker = NoWorker
INVARIANTS
  RowBeforeJob ErrorOnlyWhenFailed FailedJobIsFailedReport
CHECK_DEADLOCK FALSE
