SPECIFICATION FairSpec
CONSTANTS
    Device = {d1, d2}
    Value = {v1, v2}
    None = None
    BatchMax = 1
    MaxChanges = 1
    MaxIntervals = 1
    MaxFailures = 1
    MaxCrashes = 1
    MaxBootFaults = 1
INVARIANTS
    CurrentAfterTour
    ToldIsHeld
PROPERTIES
    OnlyUnreadRemoved
    Converges
