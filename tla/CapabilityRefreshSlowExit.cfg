SPECIFICATION Spec
CONSTANTS
    None = None
    Panicked = Panicked
    MaxTopology = 3
    MaxPanics = 2
    Generations = 6
    ThreadExitsPromptly = FALSE
PROPERTIES
    DueTickRuns
