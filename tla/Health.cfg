SPECIFICATION FairSpec
CONSTANTS
    Addresses = {a1, a2}
    Interval = 2
    Ticks = 3
    MaxLatency = 3
INVARIANTS
    TypeOK
    ReadyMeansAnswered
PROPERTIES
    UnavailableForCause
    StateIsNoticed
CHECK_DEADLOCK FALSE
