SPECIFICATION Spec
CONSTANTS
    Networks = {wifi, cellular}
    Links = {a, b}
    Nothing = nothing
    MaxChanges = 4
    Versions = {TRUE, FALSE}
INVARIANTS
    TypeOK
    TunnelFollowsNetwork
    OneRestartPerChange
CHECK_DEADLOCK FALSE
