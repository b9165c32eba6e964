SPECIFICATION Spec
CONSTANTS
  a = a
  b = b
  c = c
  None = None
  Inputs = {a, b, c}
  Capacity = 2
  Materialized = FALSE
  Shared = FALSE
  MaxFaults = 4
SYMMETRY InputSymmetry
INVARIANTS
  ConfirmedIsRecorded
  AtMostOnce
PROPERTIES
  NoticeOnlyForUnproven
  ImplementsContract
  GivenUpOnlyWhenDead
CHECK_DEADLOCK FALSE
