CONSTANTS
  a1 = a1
  Agents = {a1}
  MaxMsg = 2
  MaxStops = 2
  MaxFaults = 2
SPECIFICATION FairSpec
INVARIANTS
  GivenOnce
  DeliveredIsGiven
PROPERTIES
  ReceiptArrives
CHECK_DEADLOCK FALSE
