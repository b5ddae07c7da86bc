SPECIFICATION Spec
CONSTANTS
    Devices = {1, 2}
    Ids = {1, 2}
    Legacy = {2}
    PushOnly = {1}
    PullOnly = {}
    PageSize = 1
    BatchSize = 2
    Faults = {"skip", "abort", "lost"}
    Churn = FALSE
    MaxEdits = 2
    MaxTime = 2
    MaxSeq = 3
CHECK_DEADLOCK FALSE
INVARIANTS
    PassedRowsCovered
