SPECIFICATION FairSpec
CONSTANTS
    k1 = k1
    k2 = k2
    s1 = s1
    Keys <- TwoKeys
    StatusIds <- NoStatus
    NoDoc = NoDoc
    NoJob = NoJob
    CacheMax = 2
    DirtyMax = 2
    FlushBatch = 2
    Ttl = 1
    LateWrites = FALSE
    ClockStepsBack = FALSE
    MaxSeq = 3
    MaxClock = 3
    MaxFailures = 1
    MaxStops = 1
    MaxStatus = 0
INVARIANTS TypeOK CleanIsDurable DecisionRemembered
PROPERTIES StoreSpec DirtyIsFlushed
