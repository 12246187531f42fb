CONSTANTS
    None = None
    c1 = c1
    c2 = c2
    p1 = p1
    p2 = p2
    ddcci = ddcci
    Connector = {c1, c2}
    Panel = {p1, p2}
    Device = {ddcci}
    SerialOf <- Serials
    ModelOf <- Models
    EdidOf <- Edids
    AliasOf <- Aliases
    Gaps <- MayLack
    Configs <- MCConfigs
    Lockable = TRUE
    OldTool = TRUE
    MaxMoves = 1
SPECIFICATION Spec
INVARIANTS OnePanelOneTarget SetupIsSafe WritesGoHome
PROPERTY CallsKeepTheirPromise
