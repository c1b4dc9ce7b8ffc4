SPECIFICATION Spec
CONSTANTS
    Id = {c1}
    NoId = NoId
    OldBackend = TRUE
    Handler = {h1, h2}
    Token = {t1}
    NoToken = NoToken
    MaxPermanentFailures = 2
    MaxSeen = 1
    AckBatch = 1
    ResultBatch = 1
    MaxCrashes = 1
    MaxFaults = 1
    MaxResets = 1
SYMMETRY Symmetry
INVARIANTS
    AtMostOneCrob
    ResultIsTrue
    NoResultLost
    OperateReplyIsTrue
PROPERTIES
    JournalBeforeCrob
    ContractSpec
