SPECIFICATION FairSpec
CONSTANTS
    Devices = {1, 2}
    Ids = {1}
    Legacy = {}
    PushOnly = {}
    PullOnly = {1}
    PageSize = 1
    BatchSize = 2
    Faults = {}
    Churn = FALSE
    MaxEdits = 3
    MaxTime = 3
    MaxSeq = 6
CHECK_DEADLOCK FALSE
PROPERTIES
    Convergence
