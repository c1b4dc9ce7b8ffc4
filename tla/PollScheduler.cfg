\* Three devices and two workers, so that a device may be left out; one new
\* configuration, restart, full outbox or poll that starts while a cycle is settled.
SPECIFICATION FairSpec
CONSTANTS
    Device = {1, 2, 3}
    Position <- MCPosition
    Fleets <- MCFleets
    MaxParallel = 2
    MaxEvents = 1
PROPERTIES
    NobodyIsOvertaken
    EveryDeviceIsPolled
