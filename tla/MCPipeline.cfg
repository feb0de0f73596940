SPECIFICATION FairSpec
CONSTANTS
    t1 = t1
    t2 = t2
    t3 = t3
    t4 = t4
    Traces = {t1, t2, t3, t4}
    SampledTraces = {t1, t2, t3}
    Contexts <- NoneOrFirst
    MaxActiveTraces = 2
    MaxEventsPerTrace = 2
    TraceTtl = 0
    RxCapacity = 1
    QueueCapacity = 1
    MaxEvents = 3
    MaxBatch = 2
INVARIANTS
    TypeOK
    EachEventOnce
    AnalysedInOrder
    ContextTravelsWithEvents
    GaugeFollowsQueue
PROPERTIES
    KeepsLedger
    HeldEventsSettle
    ShutdownEnds
CHECK_DEADLOCK FALSE
