SPECIFICATION PartsSpec
CONSTANTS
    a1 = a1
    b1 = b1
    b2 = b2
    e1 = e1
    None = None
    LastNet = 2
    Names <- OneName
    Boards <- TwoBoards
    Endpoints <- OneEndpoint
    StopsInOnePass = TRUE
    MaxChanges = 3
    MaxFlips = 2
    MaxCrashes = 1
    DeadAfter = 1
    RecoverAfter = 2
    PeerStale = 1
    MaxEvents = 1
    MaxStops = 1
INVARIANTS RunsOneNetwork RelaysAreTrue
PROPERTIES AgentConverges UplinkSettles
