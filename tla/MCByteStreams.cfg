SPECIFICATION StreamFairSpec
CONSTANTS
    f1 = f1
    f2 = f2
    f3 = f3
    SectorSize = 3
    MaxU = 15
    OverflowChecks = FALSE
    Align = 3
    BufSize = 6
    Header = 2
    ZoneBytes = 9
    Files <- SmallFiles
    SizeOf <- SmallSizes
    OversizeFiles = FALSE
INVARIANTS StreamTypeOK OnDiskFormat RoundTrip TornIsPrefix
PROPERTIES CommandEnds
