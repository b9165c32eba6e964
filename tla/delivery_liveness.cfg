SPECIFICATION FairSpec
CONSTANTS
  a = a
  b = b
  None = None
  Inputs = {a, b}
  Capacity = 1
  Materialized = TRUE
  Shared = TRUE
  MaxFaults = 3
PROPERTIES
  RestartSettles
  AcceptedSettles
CHECK_DEADLOCK FALSE
