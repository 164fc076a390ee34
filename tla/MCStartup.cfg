SPECIFICATION StartupSpec
CONSTANTS
    Sections <- MCSections
    BaseSize <- MCBaseSize
    MaxHeader = 7
    MaxJc = 3
    MaxJmax = 3
    Absent = absent
    NotANumber = nan
    PortNumbers <- MCPortNumbers
    LocalPort = "1080"
    ServicePort = "80"
    KeyTexts = {"k1", "k2", "k3"}
    Blocks <- MCBlocks
    Addresses <- MCAddresses
    Endpoints = {"e1", "e2"}
    NamedEndpoints = {"n1"}
    Inputs <- MCInputs
INVARIANTS
    StartupTypeOK
    KindsStayApart
    RequestSaysWhatSectionSays
    PreparedServesLocally
    PeersKeepWhatTheyClaim
PROPERTY
    AllServed
CHECK_DEADLOCK FALSE
