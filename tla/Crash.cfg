SPECIFICATION SteadySpec
CONSTANTS
    A = A  B = B  C = C  None = None
    Node = {A, B}
    NumFloors = 4
    Floor = {1}
    Position = {p0}
    InitPosition = p0
    InboxCap = 1
    MaxCrashes = 1
    CrashNode = {A}
    RestartNode = {A}
    FalseTimeouts = FALSE
    Repress = TRUE
    HallButton <- OneHallButton
    CabButton <- CabButtonAtA
    Mixed = FALSE
    PositionReport = {}
    MalfReport = {}
INVARIANTS
    TypeOK
    NoPhantomCall
    NoEarlyCompletion
    DueCallReplicated
    CabStateKnown
    CabInEveryFrame
PROPERTIES
    UnservedCallKept
    NoCabResurrection
