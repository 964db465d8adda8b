SPECIFICATION PartsSpec
CONSTANTS
    Calls = {1, 2}
    None = None
    StaleTicks = 2
    MaxClicks = 2
    MaxFaults = 1
PROPERTIES PlayerReturns LiveServesAndShows
CHECK_DEADLOCK FALSE
