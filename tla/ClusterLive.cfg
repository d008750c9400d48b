SPECIFICATION FairSteadySpec
CONSTANTS
    A = A  B = B  C = C  None = None
    Node = {A, B}
    NumFloors = 4
    Floor = {1}
    Position = {p0}
    InitPosition = p0
    InboxCap = 2
    MaxCrashes = 1
    CrashNode = {B}
    RestartNode = {}
    FalseTimeouts = FALSE
    Repress = FALSE
    HallButton <- HallButtonAtA
    CabButton <- NoButtons
    Mixed = FALSE
    PositionReport = {p0}
    MalfReport = {TRUE}
    Call <- TheCall
PROPERTIES
    CallConfirmed
    CompletionCleared
    ElevatorViewRefreshed
    KeepsLifecycle
