SPECIFICATION Spec
CONSTANTS
    Setups <- Stores
    MaxRetainedTraces = 2
    MaxSpansPerTrace = 4
    SlowThreshold = 1
    SlowWindowMs = 4
    SlowEpisodeMs = 2
    SlowMinOccurrences = 2
    MaxSlowWindowKeys = 2
    MaxRetainedFindings = 3
    CorrelationWindow = 4
    LagThreshold = 1
    IngestSkew = 1
    MinCoOccurrences = 1
    MinConfidence = 50
    MaxTrackedPairs = 2
    MaxEpisodeGap = 4
    RequeueAfter = 2
    ScrapeInterval = 2
    MinBillable = 2
    MaxBillable = 9
    NPlusOneThreshold = 3
    DetectWindow = 6
    SanitizerMode = "strict"
    MinCvPercent = 50
    MinSequential = 2
    PoolThreshold = 2
    MaxServiceLabels = 2
    MaxPairLabels = 2
INVARIANTS
    TypeOK
    NewestTracesKept
    RecurrencesReported
    CaptureTrue
    CountsExact
    EpisodesDisjoint
    BilledOnce
    WasteIsReal
    StructureIsReal
CHECK_DEADLOCK FALSE
