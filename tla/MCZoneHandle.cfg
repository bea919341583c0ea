SPECIFICATION HandleFairSpec
CONSTANTS
    t1 = t1
    t2 = t2
    Threads <- TwoThreads
    NrZones = 3
    ZoneLen = 2
    ZoneCap = 2
    Conventional <- FirstConventional
    Platform = "linux"
    MaxBuf = 2
    Clamped = TRUE
INVARIANTS TypeOK PointerTracksDevice RemainingIsWritable
PROPERTIES WriteAllDelivers WriteAllTerminates
