SPECIFICATION FairSpec
CONSTANTS
    w1 = w1
    w2 = w2
    c1 = c1
    c2 = c2
    l1 = l1
    l2 = l2
    NoProc = NoProc
    NoLib = NoLib
    Workers <- TwoWorkers
    Commands <- OneCommand
    Libs <- OneLib
    Kinds = {"mutate", "restore", "browse"}
    Scopes <- WholeLibrarySet
    Pushes = {TRUE}
    Configs <- OneConfig
    AutoConfigs = {1}
    SyncFailures = {"transient"}
    Faults = {}
    FailureMax = 4
    MaxEdits = 2
INVARIANTS
    TypeOK
PROPERTIES
    DebounceCatches
    PendingServed
