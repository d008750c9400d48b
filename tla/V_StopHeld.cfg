SPECIFICATION Spec
CONSTANTS
    NumFloors = 3
    BetweenFloors <- Between
    None = None
    Button <- TwoButtons
    MaxPresses = 1
    MaxSwitches = 1
    EventCap = 1
    ReportCap = 1
    TimeoutCap = 2
    Elsewhere <- NothingElsewhere
PROPERTIES
    StopHeldStandsStill
