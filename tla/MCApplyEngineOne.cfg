SPECIFICATION Spec
CONSTANTS
    None = None
    m1 = m1
    m2 = m2
    Monitors <- OneMonitor
    CheaplyProbed <- OneMonitor
    NotAuthorised <- NoMonitor
    FailureKinds <- BothKinds
    SavedBackoffs <- HeldAtStart
    MaxPercent = 3
    MinWriteDelta = 2
    MaxStepPerTick = 2
    MinApplyInterval = 1
    ReassertInterval = 2
    FadeThreshold = 2
    FadeStepsDecrease = 2
    FadeStepsIncrease = 2
    BackoffBase = 1
    BackoffMax = 2
    FailureCap = 2
    MaxDisturbances = 2
INVARIANTS
    TypeOK
    BeliefIsLastWrite
    NoDoubleOwner
    FadeResumesFromLastWrite
PROPERTIES
    FadesApproachTheirGoal
    SuspendBlocksNewWork
    Converges
    FadesEnd
