SPECIFICATION FairSpec
CONSTANTS
  N = 4
  Mentions = {1, 3}
  Stops = {}
  Wakes = 0
  MayPause = FALSE
  MayRevoke = FALSE
  MaxFaults = 2
INVARIANTS
  EventOnce
  AheadOfBacklog
  RunSurvives
PROPERTIES
  AllGiven
  SteeringSettles
CHECK_DEADLOCK FALSE
