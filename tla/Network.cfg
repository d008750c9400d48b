SPECIFICATION SmallSpec
CONSTANTS
    A = A  None = None
    Peer = {A}
    Timeout = 1
    FramesCap = 1
    TxCap = 1
    SocketCap = 1
    PeerWvCap = 1
    UpdateCap = 1
    LampCap = 1
    MaxChanges = 2
    MaxStarts = 1
INVARIANTS
    TypeOK
    AliveListFollows
PROPERTIES
    NoFalseLoss
    FramesInOrder
    AliveListSettles
    NewestMerged
    LampsCatchUp
