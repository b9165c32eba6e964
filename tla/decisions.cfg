SPECIFICATION FairSpec
CONSTANTS
    Asked = {"d1", "d2"}
    MaxRuns = 2
    MaxFaults = 1
INVARIANTS
    RespondedTrue
    SettledIsKnown
PROPERTIES
    ReceiptsLeave
CHECK_DEADLOCK FALSE
