SPECIFICATION LiveSpec
CONSTANTS
    NumFloors = 2
    Node = {A, B}
    Position = {p0}
    None = None
    HallCall <- OneHallCall
    CabCall <- OneCabCall
    ChannelCap = 1
    MaxChanges = 2
INVARIANTS
    TypeOK
PROPERTIES
    HallCallAssignedOnce
    CabCallAssigned
    CompletedCallDropped
