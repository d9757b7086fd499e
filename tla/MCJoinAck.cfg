CONSTANTS
    Keys = {"k"}
    Values = {"v"}
    Titles = {"t"}
    Registries = {"r"}
    MaxPackets = 4
    MaxJoins = 2
    None = "none"
SPECIFICATION Spec
INVARIANTS
    SuccessIsAcknowledged
CHECK_DEADLOCK FALSE
