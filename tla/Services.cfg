SPECIFICATION PartsSpec
CONSTANTS
    t1 = t1
    t2 = t2
    None = None
    Threads <- TwoThreads
    LastVersion = 2
    MaxPushes = 2
    MaxFaults = 2
    classifier = classifier
    detector = detector
    Capabilities <- TwoCapabilities
    r1 = r1
    r2 = r2
    Requests <- TwoRequests
    b1 = b1
    b2 = b2
    Boards <- TwoBoards
    MaxWorkers = 2
    MaxVisionFaults = 3
    MaxSecond = 1
    MaxRecordings = 3
    MaxRecordFaults = 1
INVARIANTS PackageIsWhole StatusIsTrue NoOrphan RecordingsAreKept
PROPERTIES UpdateVersionIsReported VisionShowsWhatRuns UnitsStayUp
CHECK_DEADLOCK FALSE
