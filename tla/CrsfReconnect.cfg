SPECIFICATION Spec
CONSTANTS
    DefaultMode = "mavlink"
    FailsafeTimeout = 2
    ReopenSleep = 4
    ConnectRetry = 5
    MaxArrivals = 1
    MaxQueue = 3
    MaxFaults = 2
PROPERTY Reconnects
