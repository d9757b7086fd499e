CONSTANTS
    r1 = r1
    r2 = r2
    o1 = o1
    o2 = o2
    Chunks = {"c"}
    Offsets = {o1, o2}
    States = {"air", "stone"}
    Air = "air"
    Corrupt = Corrupt
    NotLoaded = "none"
    Readers = {r1, r2}
    MaxPackets = 3
SPECIFICATION Spec
SYMMETRY Symmetry
INVARIANTS
    LookupIsCurrent
    SectionParsedOnce
    MapFollowsPackets
CHECK_DEADLOCK FALSE
