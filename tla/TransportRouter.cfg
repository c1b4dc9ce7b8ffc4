SPECIFICATION FairSpec
CONSTANTS
    Thread = {t1, t2}
    Modes = {TRUE, FALSE}
    FailThreshold = 2
    MinDwell = 1
    ProbeInterval = 1
    BaseWait = 1
    MaxWait = 2
    MaxFaults = 1
INVARIANTS
    ReportedWasTaken
PROPERTIES
    FlapIsDamped
    ReturnsToNats
    BreakerCloses
