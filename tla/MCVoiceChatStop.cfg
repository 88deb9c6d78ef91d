SPECIFICATION Spec
CONSTANTS
    MaxCalls = 3
    MaxSessions = 1
    MaxStops = 1
    MaxInt = 2
INVARIANTS StopsOnlyWhatWasAsked
