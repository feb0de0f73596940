SPECIFICATION Spec
CONSTANTS
    ChannelCapacity = 2
    CapLines = 2
    MaxFiles = 1
    Setups <- EachHalf
    SnapshotEvery = 2
    MaxPendingDays = 1
    RetentionDays = 1
    DayLength = 6
    MaxStarts = 3
INVARIANTS
    TypeOK
    NoFalseBreak
    WindowsKept
    CountedOnce
    CrashCostsLittle
    RollupBreaksAreFaults
    LossNotOverstated
CHECK_DEADLOCK FALSE
