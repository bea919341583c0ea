SPECIFICATION FewUsedSpec
CONSTANTS
    s1 = s1
    s2 = s2
    s3 = s3
    s4 = s4
    Threads <- FourHandles
    Slots <- FourSlots
    NrWorkers = 2
    ZonesPerWorker = 2
    NrZones = 5
    ZoneLen = 2
    ZoneCap = 2
    Conventional <- NoConventional
    Platform = "linux"
    MaxBuf = 2
    Clamped = TRUE
    BatchSize = 3
INVARIANTS BenchTypeOK BenchFootprint BenchFills
PROPERTIES HandleSpec BenchEnds
CHECK_DEADLOCK FALSE
