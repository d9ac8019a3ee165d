SPECIFICATION SoakSpec
CONSTANTS
    Requested = {"A", "B"}
    Resolutions <- MCResolutions
    Duration = 4
    Interval = 2
    CommandTimeout = 1
    PageLimit = 1
    MaxTime = 7
    MaxOrders = 1
    MaxChanges = 1
    MaxFaults = 1
    MaxRuns = 2
    Nothing = Nothing
CHECK_DEADLOCK FALSE
INVARIANTS
    EvidenceIsAccepted
    OnTimeRunPasses
    PassMeansStopped
