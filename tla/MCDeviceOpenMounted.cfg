SPECIFICATION OpenSpec
CONSTANTS
    d1 = d1
    d2 = d2
    Platforms <- Linux
    Devices <- TwoDevices
    Number <- Numbers
    Name <- OwnNames
    ZonedDevices <- OneZoned
    Aliases <- Links
    MaxChanges = 1
INVARIANTS MountedIsRefused
CHECK_DEADLOCK FALSE
