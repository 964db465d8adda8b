SPECIFICATION PartsSpec
CONSTANTS
    DefaultMode = "mavlink"
    FailsafeTimeout = 2
    ReopenSleep = 4
    ConnectRetry = 5
    MaxArrivals = 1
    MaxQueue = 3
    MaxFaults = 2
    t1 = t1
    t2 = t2
    s1 = s1
    s2 = s2
    Threads <- TwoThreads
    Sessions <- TwoSessions
    None = None
    StickTimeout = 2
    Abandon = 4
    FcTimeout = 3
    MaxLosses = 1
    MaxCrashes = 1
    PageLoops = {1, 2}
    PageDisables = 2
    MaxPageFaults = 2
INVARIANTS PortOnlyInCrsf SticksAreRecent RcSticksAreRecent RcEndsClean
PROPERTIES BridgeKeepsSending RcFollowsPilot PanelAgrees
