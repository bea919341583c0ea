SPECIFICATION AllocatorSpec
CONSTANTS
    t1 = t1
    t2 = t2
    t3 = t3
    Threads <- TwoThreads
    NrZones = 2
    ZoneLen = 1
    ZoneCap = 1
    Conventional <- NoConventional
    Platform = "linux"
    MaxBuf = 1
    Clamped = TRUE
    BatchSize = 1
INVARIANTS ExclusiveOwnership
