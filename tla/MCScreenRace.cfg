CONSTANTS
    WindowIds = {1, 2}
    Layouts <- MCLayouts
    Items = {"none"}
    Empty = "none"
    Users = {"u"}
    Clickers = {}
    InventorySize = 4
    MainStart = 1
    MainLength = 1
    HotbarLength = 1
    StateIds = {}
    MaxUpdates = 0
    MaxClicks = 0
SPECIFICATION Spec
INVARIANTS
    CloseBeforeOpen
CHECK_DEADLOCK FALSE
