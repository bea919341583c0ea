SPECIFICATION ThirdIsOneCallSpec
CONSTANTS
    h1 = h1
    s1 = s1
    s2 = s2
    s3 = s3
    Threads <- OneHandle
    Slots <- ThreeSlots
    PoolSize = 2
    NrZones = 1
    ZoneLen = 1
    ZoneCap = 1
    Conventional <- NoConventional
    Platform = "linux"
    MaxBuf = 1
    Clamped = FALSE
INVARIANTS AsyncTypeOK ExclusiveAccess ClosureKeepsHandle
PROPERTIES HandleSpec  ZoneGivenBack
