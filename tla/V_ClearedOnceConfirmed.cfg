SPECIFICATION SteadySpec
CONSTANTS
    A = A  B = B  C = C  None = None
    Node = {A, B}
    NumFloors = 4
    Floor = {1}
    Position = {p0}
    InitPosition = p0
    InboxCap = 2
    MaxCrashes = 0
    CrashNode = {}
    RestartNode = {}
    FalseTimeouts = FALSE
    Repress = FALSE
    HallButton <- OneHallButton
    CabButton <- NoButtons
    Mixed = FALSE
    PositionReport = {}
    MalfReport = {}
PROPERTIES
    ClearedOnceConfirmed
