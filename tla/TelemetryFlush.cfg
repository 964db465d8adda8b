SPECIFICATION Spec
CONSTANTS
    QueueMax = 2
    BatchMax = 2
    MaxMsgs = 4
    MaxRestarts = 1
PROPERTY Flushes
CHECK_DEADLOCK FALSE
