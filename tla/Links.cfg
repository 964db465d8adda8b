SPECIFICATION PartsSpec
CONSTANTS
    Poll = 1
    Retry = 2
    Deadline = 1
    FailThreshold = 2
    ErrorPause = 2
    SpoofBlock = 3
    WarmUp = 1
    Forecast = 1
    ManualHold = 1
    MaxFaults = 3
    MaxCommands = 2
    None = None
    Statuses <- SomeStatuses
    MaxChanges = 1
    Target = 800
    Floor = 150
    BaseWindow = 40
    Kinds <- TwoLines
    Capacities = {300, 1600}
    Cycle = 60
    GapAt = 48
    Step = 10
    MaxBursts = 1
    Bits = {1, 8, 128}
    MaxLine = 1
    MaxLost = 1
    MaxDamaged = 1
    MaxRestarts = 1
INVARIANTS StarlinkIsRecent JumpsAreBlocked BitrateFits LossShowsNoFalseState
PROPERTIES GpsReturnsToStarlink FireResyncs
CHECK_DEADLOCK FALSE
