SPECIFICATION FairSpec
CONSTANTS
    A = A
    B = B
    Profile = {A, B}
    Builtin = {A}
    Bad = Bad
    None = None
    MaxDevices = 3
    Name <- MCName
    Payload <- MCPayload
    MaxEdits = 2
    MaxTriggers = 1
    MaxFaults = 1
    MaxCrashes = 1
INVARIANTS
    PairBelongsTogether
    AdoptedIsSound
    OwnSignals
PROPERTIES
    ChangeIsFetched
    TriggerIsRun
