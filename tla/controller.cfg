CONSTANTS
  Instances = {1, 2}
  Requests <- Everything
  MaxOps = 2
  Admission = 1
  Faults = {"die", "leave", "flaky", "refused", "stuck", "approval", "crash", "close"}
  MaxFaults = 2
SPECIFICATION FairSpec
INVARIANTS
  OneOperation
  NothingUnwanted
  CloseLeavesNothing
PROPERTIES
  KeptForResume
  StopEnds
  CloseTerminates
  RestoreSettles
CHECK_DEADLOCK FALSE
