SPECIFICATION StoresSpec
CONSTANTS
    k1 = k1
    Keys <- OneKey
    StatusIds = {}
    NoDoc = NoDoc
    NoJob = NoJob
    CacheMax = 1
    DirtyMax = 1
    FlushBatch = 1
    Ttl = 1
    LateWrites = FALSE
    ClockStepsBack = TRUE
    MaxSeq = 3
    MaxClock = 2
    MaxFailures = 1
    MaxStops = 1
    MaxStatus = 0
INVARIANTS StoresTypeOK DatabaseSound NothingLost
PROPERTIES DatabaseSpec PersistedNeverOlder StoresDrain
CHECK_DEADLOCK FALSE
