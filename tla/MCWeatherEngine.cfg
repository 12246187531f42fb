SPECIFICATION Spec
CONSTANTS
    None = None
    home = home
    away = away
    Place <- MCPlace
    Configuration <- MCConfiguration
    Refresh = 2
    RetryMax = 5
    MaxFailures = 2
INVARIANTS
    TypeOK
    WeatherIsLocal
PROPERTIES
    RefreshIsAttempted
    LoadingEnds
    WorkersRetire
