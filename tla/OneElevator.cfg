SPECIFICATION LiveSpec
CONSTANTS
    NumFloors = 3
    BetweenFloors <- Between
    None = None
    Button <- ThreeButtons
    MaxPresses = 2
    MaxSwitches = 1
    EventCap = 1
    ReportCap = 1
    TimeoutCap = 2
    Elsewhere <- DownElsewhere
INVARIANTS
    TypeOK
    DoorSafe
    NoOverrun
    DoorNotStuck
    MovingIsWatched
PROPERTIES
    CallServed
