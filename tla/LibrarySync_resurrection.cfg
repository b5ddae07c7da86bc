SPECIFICATION Spec
CONSTANTS
    Devices = {1, 2}
    Ids = {1}
    Legacy = {}
    PushOnly = {}
    PullOnly = {}
    PageSize = 1
    BatchSize = 2
    Faults = {}
    Churn = FALSE
    MaxEdits = 3
    MaxTime = 3
    MaxSeq = 4
CHECK_DEADLOCK FALSE
INVARIANTS
    NoResurrection
