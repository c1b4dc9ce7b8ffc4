SPECIFICATION Spec
CONSTANTS
    Msg = {m1, m2}
    Worker = {w1, w2}
    MaxPending = 2
    ResumeAt = 1
    BatchSize = 2
    MaxRetries = 2
    HttpPath = TRUE
    MaxCrashes = 1
    MaxFaults = 1
    MaxResets = 1
SYMMETRY Symmetry
INVARIANTS
    NothingLost
    BuriedWasRefused
    EstimateIsExact
PROPERTIES
    ContractSpec
