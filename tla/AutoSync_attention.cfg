SPECIFICATION Spec
CONSTANTS
    w1 = w1
    w2 = w2
    c1 = c1
    c2 = c2
    l1 = l1
    l2 = l2
    NoProc = NoProc
    NoLib = NoLib
    Workers <- TwoWorkers
    Commands <- OneCommand
    Libs <- OneLib
    Kinds = {"mutate", "flag", "retry", "discard", "clear_failure"}
    Scopes <- WholeLibrarySet
    Pushes = {TRUE}
    Configs <- TwoConfigs
    AutoConfigs = {1}
    SyncFailures = {"configuration", "internal"}
    Faults = {"io", "spawn"}
    FailureMax = 4
    MaxEdits = 1
SYMMETRY Slots
PROPERTIES
    WorkerAttentionHolds
