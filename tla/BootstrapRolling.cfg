SPECIFICATION Spec
CONSTANTS
  Boots = {b1, b2}
  Environments <- MCEnvironments
  RollingEdits = TRUE
  MaxEdits = 2
  MaxCrashes = 1
  NoOperator = NoOperator
  Missing = Missing
  PlaceholderSecret = "change-me-in-every-environment"
  PlaceholderPassword = "change-me-before-any-deployment"
CHECK_DEADLOCK FALSE
PROPERTIES
  EnvTakesEffect
