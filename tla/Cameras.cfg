SPECIFICATION PartsSpec
CONSTANTS
    thermal = thermal
    grabber = grabber
    yuyv = yuyv
    mjpg = mjpg
    small = small
    large = large
    None = None
    Cameras <- TwoCameras
    Supports <- TheirModes
    Best <- TheirBest
    MaxRequests = 2
    MaxFaults = 2
    p1 = p1
    p2 = p2
    MaxSearching = 1
    MaxOnTheWay = 2
    MaxClicks = 2
    MaxChanges = 4
    t1 = t1
    t2 = t2
    Tabs <- TwoTabs
    LowerRequests = 3
    Ceiling = 2
    Idle = 1
INVARIANTS RunsWhatFilesSay CeilingHolds
PROPERTIES SettingsStream TapFollowsLastClick ImplementsCamera UnseenPreviewStops
CHECK_DEADLOCK FALSE
