SPECIFICATION Spec
CONSTANTS
    MaxCalls = 3
    MaxSessions = 2
    MaxStops = 1
    MaxInt = 2
INVARIANTS TypeOK EventsTellAStory
PROPERTIES EveryCallAnswered
