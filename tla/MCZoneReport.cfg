SPECIFICATION ReportSpec
CONSTANTS
    NrZones = 3
    ZoneStart <- ThreeZones
    Conditions = {"Empty", "Full"}
    Wanted = {"Empty"}
    Batches = {0, 1, 2}
    MaxChanges = 1
INVARIANTS ReportTypeOK EveryZoneOnce FilterConsistent ReportsBounded
CHECK_DEADLOCK FALSE
