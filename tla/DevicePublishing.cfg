SPECIFICATION FairSpec
CONSTANTS
    Point = {p1}
    Value = {v1, v2}
    NoValue = NoValue
    Lost = Lost
    Poller = {w1}
    Policies = {"continuous", "initiating", "listening"}
    MaxWrites = 2
    MaxOpens = 1
    MaxRefreshes = 1
    MaxFaults = 1
    MaxRebuilds = 1
INVARIANTS
    CleanWasPublished
    LostIsRepaired
PROPERTIES
    EventuallyShown
    SilentIsLost
    MuteSettles
