CONSTANTS
    Keys = {"k", "l"}
    Values = {"v", "w"}
    Titles = {"t"}
    Registries = {"r"}
    MaxPackets = 4
    MaxJoins = 2
    None = "none"
SPECIFICATION Spec
INVARIANTS
    RequestsAreAnswered
    CookiesAreLatest
    FramesAgree
CHECK_DEADLOCK FALSE
