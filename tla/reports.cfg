SPECIFICATION ReportsFairSpec
CONSTANTS
  Reports = {r1, r2}
  Files = {f1, f2}
  InstanceCount = 1
  Uploads = 1
  Batch = 1
  MaxStoreFaults = 2
INVARIANTS
  StoreMatches
PROPERTIES
  FencedIsReclaimed
CHECK_DEADLOCK FALSE
