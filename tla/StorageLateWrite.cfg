SPECIFICATION Spec
CONSTANTS
    k1 = k1
    k2 = k2
    s1 = s1
    Keys <- TwoKeys
    StatusIds <- NoStatus
    NoDoc = NoDoc
    NoJob = NoJob
    CacheMax = 2
    DirtyMax = 2
    FlushBatch = 1
    Ttl = 1
    LateWrites = TRUE
    ClockStepsBack = FALSE
    MaxSeq = 2
    MaxClock = 1
    MaxFailures = 1
    MaxStops = 0
    MaxStatus = 0
PROPERTY PersistedNeverOlder
