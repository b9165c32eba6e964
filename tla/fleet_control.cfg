CONSTANTS
  o1 = o1
  Ops = {o1}
  Faults = {"lost", "late", "expire", "crash", "busy", "change", "withdraw"}
  MaxFaults = 2
  Gens = {1, 2, 3, 4, 5, 6, 7}
SPECIFICATION FairSpec
INVARIANTS
  ExecutedOnce
  OutcomeTrue
PROPERTIES
  RequestSettles
CHECK_DEADLOCK FALSE
