SPECIFICATION Spec
CONSTANTS
    Point = {p1}
    Value = {v1}
    NoValue = NoValue
    Lost = Lost
    Poller = {w1}
    Policies = {"continuous"}
    MaxWrites = 2
    MaxOpens = 2
    MaxRefreshes = 0
    MaxFaults = 0
    MaxRebuilds = 0
INVARIANTS
    LostIsShown
