SPECIFICATION HandleSpec
CONSTANTS
    t1 = t1
    t2 = t2
    Threads <- OneThread
    NrZones = 2
    ZoneLen = 2
    ZoneCap = 2
    Conventional <- NoConventional
    Platform = "linux"
    MaxBuf = 2
    Clamped = FALSE
PROPERTIES OversizeWriteAllFails
