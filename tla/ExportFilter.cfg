SPECIFICATION ListSpec
CONSTANTS
  Lists = {"timeline"}
  Filtering = TRUE
  MaxItems = 2
  PerPage = 2
  MaxRows = 3
INVARIANTS
  RowsWereListed
CHECK_DEADLOCK FALSE
