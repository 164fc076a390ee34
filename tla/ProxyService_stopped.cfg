SPECIFICATION Spec
CONSTANTS
    MaxCommands = 3
    MaxNetChanges = 0
    MaxExits = 0
    MaxLaunchFailures = 0
    MaxImports = 0
    MaxEvents = 3
INVARIANTS
    StoppedMeansStopped
CHECK_DEADLOCK FALSE
