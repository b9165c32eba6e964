SPECIFICATION FairSpec
CONSTANTS
    Rules = {1, 2}
    Cron = {2}
    Period <- MCPeriod
    MaxTime = 2
    MaxEdits = 2
    MaxRuns = 2
    MaxSession = 2
    MaxDeliveries = 2
    MaxFaults = 1
INVARIANTS
    GivenOnce
    Coalesced
    ReceiptTrue
PROPERTIES
    PendingSettles
CHECK_DEADLOCK FALSE
