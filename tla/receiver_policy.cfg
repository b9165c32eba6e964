SPECIFICATION Spec
CONSTANTS
  N = 3
  Mentions = {1, 3}
  Stops = {2}
  Wakes = 1
  MayPause = TRUE
  MayRevoke = TRUE
  MaxFaults = 2
INVARIANTS
  CursorCovers
  AcceptedIsGiven
  SessionDrained
CHECK_DEADLOCK FALSE
