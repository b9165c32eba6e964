CONSTANTS
  Instances = {1}
  Requests <- StartStop
  MaxOps = 2
  Admission = 1
  Faults = {}
  MaxFaults = 0
SPECIFICATION Spec
INVARIANT StopSticks
CHECK_DEADLOCK FALSE
