SPECIFICATION SpecAll
CONSTANTS
    HourSeconds = 1
    DayHours = 2
    Configs <- QuietAndNot
    Owners = {"dialog"}
    Desired = {1}
    Consumers = {"desktop", "plugin"}
    Desktop = "desktop"
    Capacities = {1}
    Temperatures = {"unknown"}
    Events = {"e1"}
    MaxSeen = 2
    Nil = Nil
    Absent = Absent
    Broken = Broken
    NoSection = NoSection
    Failed = Failed
    Documents <- RootAndModules
    MaxRuns = 2
    MaxFailures = 2
    SlotTimes = {2, 6}
    DayLength = 10
    Days = 2
    RetrySeconds = 2
    MaxStarts = 2
    Debounce = 1
    Ttl = 2
    MinPeriod = 2
    MaxPeriod = 5
    MaxThermalPeriod = 3
    Periods = {1, 4, 9}
    MaxChanges = 2
    SnapshotLife = 2
    Watchdog = 5
    Window = 3
    SuspendGap = 2
    MaxSamples = 3
    Pets <- TwoPets
    MaxWrites = 2
    MaxFrameCount = 3
    MaxFramePixels = 2
    MaxStateBytes = 8
    MaxCacheStates = 2
    MaxCacheBytes = 12
    Forges <- TwoForges
    Permits = 1
    MaxPreviews = 2
    MaxPreviewTotal = 3
    MaxPreviewBytes = 2
    Library <- TwoModules
VIEW ViewAll
INVARIANTS
    DeadlinesMet
    SnapshotsFollowed
    PetFollows
    ForgeTruthful
    ConfigFollowed
    NoDocumentLost
    SlotFollowed
    SensorsFollowed
CHECK_DEADLOCK FALSE
