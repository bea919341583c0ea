SPECIFICATION RangeFairSpec
CONSTANTS
    NrZones = 4
    ZoneStart <- FourZones
    Conventional <- FirstZone
    Platforms = {"linux", "freebsd"}
    Ranges <- AllRanges
    MaxSector = 9
    MaxChanges = 1
INVARIANTS RangeTypeOK RangeCarriedOut FailsInOrder WholeDeviceReset
PROPERTIES OnlyTheRange CallEnds
CHECK_DEADLOCK FALSE
