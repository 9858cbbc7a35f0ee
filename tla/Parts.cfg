SPECIFICATION PartsSpec
CONSTANTS
    s1 = s1
    s2 = s2
    Sources <- MCSources
    Length = 3
    QueueMax = 2
    MaxBatches = 4
    Tokens = {1}
    MaxRuns = 2
    MaxEdits = 1
    LogWriters = {"detector", "anomaly"}
    RetainMax = 1
    PruneInterval = 2
    PageSize = 1
    MaxLogs = 4
    MaxStarts = 1
    PerFrame = 2
    MaxSearches = 2
    MaxOnTheWay = 2
    MaxPoiFaults = 2
    Plugins = {1, 2}
    Shipped = {2}
    WithZoo = {2}
    Lookers = {"look"}
    Installers = {"install"}
    MaxPluginFaults = 1
    Providers = {"openai", "claude"}
    Claude = "claude"
    Operators = {"a", "b"}
    MaxSecrets = 2
    MaxOpens = 3
    Cameras = {1, 2, 3}
    SourceOf <- SharedSource
    FrameInterval = 1
    EvalInterval = 2
    QuietPeriod = 2
    Cooldown = 3
    MinTracks = 2
    MaxTime = 5
    RetryCount = 1
    MaxCandidates = 2
    MaxChanges = 1
INVARIANTS
    FilesTakenWhole
    LogsComplete
    Onboarded
    SearchesAnswered
PROPERTIES
    
    SyncHeals
    SecretKept
    EditsAreLocal
CHECK_DEADLOCK FALSE
