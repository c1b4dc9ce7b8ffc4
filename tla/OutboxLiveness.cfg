SPECIFICATION FairSpec
CONSTANTS
    Msg = {m1, m2}
    Worker = {w1, w2}
    MaxPending = 1
    ResumeAt = 0
    BatchSize = 2
    MaxRetries = 2
    HttpPath = TRUE
    MaxCrashes = 1
    MaxFaults = 0
    MaxResets = 0
INVARIANTS
    OutboxBounded
PROPERTIES
    EveryRowLeaves
    BreakerCloses
