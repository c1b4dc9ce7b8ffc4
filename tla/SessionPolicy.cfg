\* One device of any configured policy and any end of the connection: one without
\* strings with any three events out of connections, readings of the mode,
\* configurations, restarts, commands and faults; one with strings with any two of
\* these and of an operator's wish to read all devices.  One probe before a relink.
SPECIFICATION WorldsSpec
CONSTANTS
    Endpoints = {"listening", "initiating"}
    Policies = {"continuous", "smart", "auto"}
    RelinkAfter = 1
    MaxEvents = 3
    MaxEventsWithTexts = 2

    
PROPERTIES
    SleepSurvives
    ChangeIsFollowed
    HalfOpenIsReplaced
