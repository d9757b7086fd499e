CONSTANTS
    WindowIds = {1}
    Layouts <- MCLayouts
    Items = {"none", "a"}
    Empty = "none"
    Users = {"u", "v"}
    Clickers = {"u"}
    InventorySize = 4
    MainStart = 1
    MainLength = 1
    HotbarLength = 1
    StateIds = {0, 1}
    MaxUpdates = 2
    MaxClicks = 2
SPECIFICATION Spec
INVARIANTS
    BalanceIsExplained
    ClicksAreDistinct
PROPERTIES
    ChangesAreCounted
    WindowsTouchOnlyRows
CHECK_DEADLOCK FALSE
