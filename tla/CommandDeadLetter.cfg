SPECIFICATION Spec
CONSTANTS
    Id = {c1}
    NoId = NoId
    OldBackend = TRUE
    Handler = {}
    Token = {t1}
    NoToken = NoToken
    MaxPermanentFailures = 3
    MaxSeen = 1
    AckBatch = 1
    ResultBatch = 1
    MaxCrashes = 0
    MaxFaults = 0
    MaxResets = 0
INVARIANTS
    DeadLetterWasRefused
