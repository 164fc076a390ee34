SPECIFICATION Spec
CONSTANTS
    MaxCommands = 3
    MaxNetChanges = 1
    MaxExits = 2
    MaxLaunchFailures = 1
    MaxImports = 1
    MaxEvents = 5
INVARIANTS
    TypeOK
    NoStrayProxy
    StoppedWhenAnnounced
    Watched
    NeverGivenUp
    FreshOrReplaced
    OneTrackedRestart
    OneLaunchPerCause
PROPERTIES
    BackoffOutlastsLaunches
    SingleSpec
CHECK_DEADLOCK FALSE
