SPECIFICATION Spec
CONSTANTS
    t1 = t1
    t2 = t2
    None = None
    Threads <- TwoThreads
    LastVersion = 2
    MaxPushes = 3
    MaxFaults = 2
PROPERTY ManagerComesBack
CHECK_DEADLOCK FALSE
