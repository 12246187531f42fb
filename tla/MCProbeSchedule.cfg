SPECIFICATION Spec
CONSTANTS
    None = None
    m1 = m1
    m2 = m2
    Monitor <- MCMonitor
    Observed = m1
    Fast = 1
    Window = 3
    Steady = 2
    FollowUp = 2
    DrainMax = 2
INVARIANTS
    TypeOK
    SeenInTime
PROPERTIES
    DriftIsSeen
    SettlesDown
