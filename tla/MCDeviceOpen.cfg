SPECIFICATION OpenSpec
CONSTANTS
    d1 = d1
    d2 = d2
    Platforms <- Both
    Devices <- TwoDevices
    Number <- Numbers
    Name <- OwnNames
    ZonedDevices <- OneZoned
    Aliases <- Links
    MaxChanges = 2
INVARIANTS OpenTypeOK OpenedWasChecked RefusedForCause FirstFailureReported
CHECK_DEADLOCK FALSE
