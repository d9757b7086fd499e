CONSTANTS
    Writers = {}
    PlainIds = {"a"}
    Buffers = {1, 2, 3, 4, 5, 6}
    NoBuffer = 0
    Inbound <- MCInbound
    RecvCap = 1
    SendCap = 1
    MaxIn = 5
    MaxCalls = 0
    BundleLimit = 3
    MaxPhantoms = 1
SPECIFICATION GameFairSpec
INVARIANTS
    ReadInOrder
    ErrorTellsTheCause
    BufferHasOneOwner
    HandledInOrder
    BundleIsHeldBack
    ReplayMatchesHandling
PROPERTIES
    RecvIsChannel
    DeadSocketEndsGame
CHECK_DEADLOCK FALSE
