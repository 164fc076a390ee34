SPECIFICATION Spec
CONSTANTS
    MaxCommands = 2
    MaxNetChanges = 0
    MaxExits = 0
    MaxLaunchFailures = 0
    MaxImports = 0
    MaxEvents = 2
INVARIANTS
    DestroyedOnlyWhenDisabled
CHECK_DEADLOCK FALSE
