CONSTANTS
    w1 = w1
    w2 = w2
    Writers = {w1, w2}
    Inbound = {"a"}
    RecvCap = 1
    SendCap = 2
    MaxIn = 1
    MaxCalls = 2
SPECIFICATION FairSpec
INVARIANTS
    TypeOK
    PerWriterOrder
PROPERTIES
    SendIsChannel
    AcceptedIsWritten
    CloseEndsLoops
CHECK_DEADLOCK FALSE
