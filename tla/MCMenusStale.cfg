SPECIFICATION Spec
CONSTANTS
    Bots = {a, b}
    Servers <- MCServers
    Metadata <- MCMetadata
    Snapshot <- MCSnapshot
    ChestTypes = 1
    RowLength = 9
    PreIds <- MCPreIds
    PostIds <- MCPostIds
    MaxJoins = 2
    MaxLoads = 1
    None = None
    Edge = 2
    LongBits = 5
    BiomeSize = 2
    SectionCount = 2
    SectionsBelow = 1
    MaxBits = 3
    HashRange = 7
    LeafValues = {0, 1}
    Keys <- MCKeys
SYMMETRY MCBotsSymmetry
CHECK_DEADLOCK FALSE
INVARIANT
    LiveTypesArePerConnection
