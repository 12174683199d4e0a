SPECIFICATION ListSpec
CONSTANTS
  Lists = {"tickets"}
  Filtering = FALSE
  MaxItems = 2
  PerPage = 2
  MaxRows = 3
PROPERTIES
  TotalMatchesPage
CHECK_DEADLOCK FALSE
