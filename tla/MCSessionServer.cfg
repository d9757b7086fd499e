CONSTANTS
    WindowIds = {1}
    Layouts <- MCLayouts
    Items = {"none", "a"}
    Empty = "none"
    Users = {"u"}
    Clickers = {"u"}
    InventorySize = 4
    MainStart = 1
    MainLength = 1
    HotbarLength = 1
    StateIds = {}
    MaxUpdates = 20
    MaxClicks = 2
    Closers = {"u"}
    MaxChanges = 1
    MaxOpens = 2
SPECIFICATION SessionSpec
INVARIANTS
    InventoryFresh
    WindowsAgree
    NeverBehind
CHECK_DEADLOCK FALSE
