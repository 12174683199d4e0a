SPECIFICATION Spec
CONSTANTS
  Reports = {p1}
  Workers = {w1}
  MaxStalls = 0
  NoRow = NoRow
  NoReport = NoReport
  NoWorker = NoWorker
INVARIANTS
  CompletedCanBeDownloaded
CHECK_DEADLOCK FALSE
