SPECIFICATION Spec
CONSTANTS
    Good = {c1, c2}
    Bad = {bad}
    Torn = torn
    NoFile = nofile
    MaxImports = 3
    MaxPresses = 1
    MaxKills = 2
    MaxFailures = 2
    MaxTroubles = 2
    MaxDenials = 1
    MaxRecreations = 1
    MaxEvents = 6
INVARIANTS
    TypeOK
    ConfigKept
    OnlyAcceptedConfigs
    InstalledConfigRuns
    ServedWhenSettled
CHECK_DEADLOCK FALSE
