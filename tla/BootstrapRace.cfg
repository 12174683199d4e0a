SPECIFICATION FairSpec
CONSTANTS
  Boots = {b1, b2, b3}
  Environments <- MCEnvironments
  RollingEdits = FALSE
  MaxEdits = 2
  MaxCrashes = 2
  NoOperator = NoOperator
  Missing = Missing
  PlaceholderSecret = "change-me-in-every-environment"
  PlaceholderPassword = "change-me-before-any-deployment"
CHECK_DEADLOCK FALSE
INVARIANTS
  AtMostOneOperator
  ServesSafely
PROPERTIES
  EnvTakesEffect
  BootsConverge
