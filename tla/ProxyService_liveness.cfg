SPECIFICATION FairSpec
CONSTANTS
    MaxCommands = 2
    MaxNetChanges = 2
    MaxExits = 1
    MaxLaunchFailures = 1
    MaxImports = 0
    MaxEvents = 4
PROPERTIES
    KeepsServing
CHECK_DEADLOCK FALSE
