CONSTANTS
    MaxEdits = 2
    MaxAsks = 1
    MaxLimits = 1
    MaxStops = 1
    CommandMax = 1
    EventMax = 2
    LimitsRace = FALSE
SPECIFICATION Spec
INVARIANT SavedAndApplied
PROPERTY ChangesArrive
CHECK_DEADLOCK FALSE
