SPECIFICATION MachinesSpec
CONSTANTS
    Process = {p1, p2}
    Ladder = 1
    MaxCommands = 2
    MaxFailures = 1
    Library = {dflt, work}
    Default = dflt
    MaxAccounts = 2
    MaxTrouble = 1
INVARIANTS
    Types
    ExclusionUnlessRobbed
    OwnerNamesServer
    IndexSound
PROPERTIES
    LiveRecordsKept
    EveryAcquisitionEnds
    ServerReturns
    MarkersOutlastRecovery
    EveryLibrarySettles
CHECK_DEADLOCK FALSE
