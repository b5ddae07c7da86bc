SPECIFICATION Spec
CONSTANTS
    w1 = w1
    w2 = w2
    c1 = c1
    c2 = c2
    l1 = l1
    l2 = l2
    NoProc = NoProc
    NoLib = NoLib
    Workers <- TwoWorkers
    Commands <- TwoCommands
    Libs <- TwoLibs
    Kinds = {"mutate", "sync"}
    Scopes <- WholeLibrarySet
    Pushes = {TRUE}
    Configs <- OneConfig
    AutoConfigs = {1}
    SyncFailures = {"transient"}
    Faults = {"crash"}
    FailureMax = 3
    MaxEdits = 2
SYMMETRY SlotsAndLibs
INVARIANTS
    IntentKept
    OneSyncAtATime
    ObservationCurrent
PROPERTIES
    KeepsIntent
