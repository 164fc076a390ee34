SPECIFICATION FairSpec
CONSTANTS
    Kinds = {"connect", "plain", "tcp", "stdio"}
    MaxSent = 3
INVARIANTS
    TypeOK
    ForwardedInOrder
    RefusedIsNotServed
    NothingLeftOpen
PROPERTIES
    RelayEnds
CHECK_DEADLOCK FALSE
