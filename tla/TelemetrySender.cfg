SPECIFICATION Spec
CONSTANTS
    QueueMax = 2
    BatchMax = 2
    MaxMsgs = 4
    MaxRestarts = 1
INVARIANTS InOrder SentOnce
PROPERTIES LossExplained Drains
CHECK_DEADLOCK FALSE
