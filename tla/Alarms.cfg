SPECIFICATION LiveSpec
CONSTANTS
    ChannelCap = 1
    MayHang = TRUE
    MaySlow = TRUE
    MaxSwitches = 2
INVARIANTS
    TypeOK
    StatusUpToDate
PROPERTIES
    HangReported
    SwitchReported
    RecoversOnTheMove
CHECK_DEADLOCK FALSE
