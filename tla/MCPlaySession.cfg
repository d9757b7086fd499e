CONSTANTS
    u1 = u1
    u2 = u2
    PacketIds <- SessionIds
    Handlers <- SessionHandlers
    Uuids = {u1, u2}
    Dims = {"d", "e"}
    NoDim = "none"
    LatePriorities = {0, 64, 100}
    Required = {"players", "chat"}
    MaxPackets = 4
    MaxJoins = 2
SPECIFICATION Spec
SYMMETRY UuidSymmetry
INVARIANTS
    RegistryInOrder
    DispatchRunsAll
    PlayerFollowsPackets
    RequestsAreAnswered
    PlayersFollowServer
    ListedPlayersAreHeard
CHECK_DEADLOCK FALSE
