SPECIFICATION Spec
CONSTANTS
    Good = {c1, c2}
    Bad = {bad}
    Torn = torn
    NoFile = nofile
    MaxImports = 2
    MaxPresses = 0
    MaxKills = 1
    MaxFailures = 0
    MaxTroubles = 0
    MaxDenials = 0
    MaxRecreations = 0
    MaxEvents = 3
PROPERTY BootRestores
CHECK_DEADLOCK FALSE
