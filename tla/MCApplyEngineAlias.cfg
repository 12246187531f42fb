SPECIFICATION Spec
CONSTANTS
    None = None
    m1 = m1
    m2 = m2
    Monitors <- TwoMonitors
    CheaplyProbed <- TwoMonitors
    NotAuthorised <- OnlyM2
    FailureKinds <- OneKind
    SavedBackoffs <- NoSavedBackoff
    MaxPercent = 2
    MinWriteDelta = 2
    MaxStepPerTick = 2
    MinApplyInterval = 1
    ReassertInterval = 2
    FadeThreshold = 2
    FadeStepsDecrease = 2
    FadeStepsIncrease = 2
    BackoffBase = 1
    BackoffMax = 2
    FailureCap = 1
    MaxDisturbances = 1
INVARIANTS
    SuppressedIsNeverWritten
