SPECIFICATION Spec
CONSTANTS
    k1 = k1
    k2 = k2
    s1 = s1
    Keys <- TwoKeys
    StatusIds <- OneStatus
    NoDoc = NoDoc
    NoJob = NoJob
    CacheMax = 1
    DirtyMax = 1
    FlushBatch = 1
    Ttl = 1
    LateWrites = TRUE
    ClockStepsBack = TRUE
    MaxSeq = 3
    MaxClock = 1
    MaxFailures = 1
    MaxStops = 0
    MaxStatus = 2
PROPERTY LimitsSound
