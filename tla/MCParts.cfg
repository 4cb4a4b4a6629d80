CONSTANTS
    Stations = {"magliano", "cuneo"}
    Devices = {1, 2, 3}
    Installed <- MCInstalled
    Category <- MCCategory
    Native = {1, 2}
    Signed = {1}
    MaxPilotGestures = 4
    FineCells = {1, 2, 3}
    Rollup <- MCRollup
    MaxTwinGestures = 4
    MaxTwinPolls = 2
    ScoredCells = {"home", "abroad"}
    Facts <- MCFacts
    SliderEpochs = {0, 1, 2}
    MaxProbes = 3
    MaxFlashes = 2
    StripEpochs = {0, 1}
    TimerIds = {1, 2}
    NoTimer = 0
    MaxPool = 2
    TextLength = 2
    MaxHistory = 7
    MaxRefreshes = 2
    MaxSweeps = 2
    MaxBundleGestures = 5
    MaxToasts = 2
    Records = {"north", "south", "bare"}
    TileOf <- MCTileOf
    NoTile = "none"
    MaxTileGestures = 5
    LabKeys = {1, 2, 3, 4}
    CertPool <- MCCertPool
    TrustRoot = 1
    Iterations = 6
    Concurrency = 3
    Warmup = 2
    KeyCallers = {"k1", "k2", "k3"}
    JwksTtl = 2
    FetchTimeout = 2
    Items <- MCItems
    Configs <- MCConfigs
    Credentials = {"bearer", "main", "demo", "wrong"}
    MaxItems = 2
    MaxLeaves = 17
    Lists <- MCLists
    Claims <- MCClaims
    Zero <- MCZero
SPECIFICATION PartsSpec
INVARIANTS ActiveStationsAreMarked PilotVerdictIsOfDevice NoTimerAfterStop SectionIsOfLastAudit TiersFollowSharedState TickerGoesOn PictureIsOfRecord VerdictIsGenuine EveryCallIsReported HandedSetIsRecent WaitIsBounded RepliesMatchItems AcceptsExactlyTheRecord IndexesInBounds
PROPERTIES TwinSectionSettles HeartbeatCatchesUp DownloadComesBack
CHECK_DEADLOCK FALSE
