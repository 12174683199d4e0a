SPECIFICATION ListSpec
CONSTANTS
  Lists = {"tickets", "users", "comments", "feed"}
  Filtering = FALSE
  MaxItems = 4
  PerPage = 2
  MaxRows = 5
INVARIANTS
  RowsWereListed
  RowsStayInOrder
  MissesArePulledUp
CHECK_DEADLOCK FALSE
