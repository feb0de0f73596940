SPECIFICATION Spec
CONSTANTS
    ChannelCapacity = 2
    CapLines = 2
    MaxFiles = 1
    Setups <- Refusing
    SnapshotEvery = 2
    MaxPendingDays = 1
    RetentionDays = 1
    DayLength = 6
    MaxStarts = 3
INVARIANT
    CrashKeepsDays
CHECK_DEADLOCK FALSE
