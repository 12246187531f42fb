SPECIFICATION Spec
CONSTANTS
    None = None
    m1 = m1
    m2 = m2
    Monitors <- BothMonitors
    Percent = {1, 2}
    Durations = {1}
    MaxTime = 2
    MaxRequests = 3
    MaxFailures = 1
    DirectorySyncFails = FALSE
PROPERTIES
    ReloadRollsBack
