SPECIFICATION FairSpec
CONSTANTS
    Clients = {c1, c2}
    Sessions = {s1, s2}
    NoSession = none
    Expires = TRUE
INVARIANTS
    TypeOK
    MappedSessionsAreOpen
    NoConnectionLeaks
PROPERTIES
    RemovedForCause
    IdleSessionsClose
    ClosedSessionsEnd
CHECK_DEADLOCK FALSE
