\* Two commands with batches of one, or one command with an /operate thread; in
\* both a restart, new leases and refused results.
SPECIFICATION WorldsSpec
CONSTANTS
    c1 = c1
    c2 = c2
    t1 = t1
    Id = {c1, c2}
    NoId = NoId
    OldBackend = FALSE
    Handler = {h1}
    Token = {t1, t2}
    NoToken = NoToken
    MaxPermanentFailures = 2
    MaxSeen = 2
    AckBatch = 1
    ResultBatch = 1
    MaxCrashes = 1
    MaxFaults = 0
    MaxResets = 0
PROPERTIES
    EveryDispatchSettles
    EveryResultLeaves
    EveryAckLeaves
