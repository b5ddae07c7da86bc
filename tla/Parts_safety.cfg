SPECIFICATION PartsSpec
CONSTANTS
    Request = {r1, r2, r3}
    Peer = {a}
    MaxRequests = 1
    Multiplier = 2
    Window = 2
    MaxEntries = 2
    MaxTime = 3
    MaxWait = 1
    Updater = {u1, u2}
    MaxVersion = 2
    MaxRuns = 2
    MaxLosses = 1
    Char = {"a", "b"}
    Theme = {1, 2, 3}
    Broken = {2}
    Shell = {s1, s2}
    Content = {"x", "y"}
    MaxCommands = 2
    MaxKeys = 2
    Ceiling = 2
    PageSize = 2
    MaxPages = 2
    MaxRetries = 2
    MaxDelay = 4
    Deadline = 3
    MaxClock = 5
    Rows = 2
    Users = 2
    Batch = 1
    MaxStarts = 3
    MaxPushes = 1
    Handler = {1, 2}
    User = {1, 2}
    Id = {1, 2}
    Batches <- Pushes
    Heavy = {2}
    PageLimit = 2
    MaxLibraries = 3
    Newest = 3
    Latest = 2
    ApiKey = {"k", "l"}
    Salt = {1, 2, 3, 4}
    KeySlots = 2
    Given <- FromElsewhere
    MaxCalls = 4
    Reader = {s1, s2}
    Path = {"a", "b"}
    Slots = 1
    MaxWrites = 2
    MaxReads = 2
    MaxAccounts = 2
    MaxUpsets = 1
    OwnRows = {1, 2}
    Others = {3, 4}
    LibraryName = {"a", "b"}
    SnippetId = {1}
    Lower <- LowerCase
    DeviceNames = {"con"}
    Elsewhere <- OtherBackups
    MaxStamp = 4
    MaxDamage = 1
INVARIANTS
    Types
    IndexAgrees
    RateBounded
    SurvivesPowerLoss
    InterfacesFaithful
    UserDataKept
    NothingUnaccounted
    KeepsItsDeadline
    ServedWhole
    AnswersTrue
    CredentialsTogether
    ReadsWereCurrent
    OpensOwn
PROPERTIES
    RefusedByOwnBudget
    RestoreFaithful
CHECK_DEADLOCK FALSE
