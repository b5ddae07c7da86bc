SPECIFICATION LinksSpec
CONSTANTS
    Library = {dflt, work}
    Default = dflt
    MaxAccounts = 1
    MaxTrouble = 1
PROPERTIES
    ConflictMeansLive
CHECK_DEADLOCK FALSE
