\* What is issued is answered, by a device with a shorter queue too.
SPECIFICATION FairSpec
CONSTANTS
    t1 = t1
    t2 = t2
    Threads = {t1, t2}
    Ops = {"query", "request", "command"}
    MAX_PENDING_REQUESTS = 2
    DEVICE_QUEUE_SIZE = 1
    SeqMod = 32
    FirstSeq = 2
    MaxSeq = 3
    MaxLine = 2
    MaxLosses = 1
    Timely = TRUE
    MaxReboots = 0
    DeviceStart = {2}
INVARIANTS
    ExpectedStillComes
PROPERTIES
    PendingDrains
    QueryReturns
CHECK_DEADLOCK FALSE
