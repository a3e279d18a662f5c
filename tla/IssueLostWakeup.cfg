\* A throttled issue_command sleeps through the wakeup meant for it.
SPECIFICATION FairSpec
CONSTANTS
    t1 = t1
    t2 = t2
    Threads = {t1, t2}
    Ops = {"command"}
    MAX_PENDING_REQUESTS = 1
    DEVICE_QUEUE_SIZE = 1
    SeqMod = 32
    FirstSeq = 2
    MaxSeq = 3
    MaxLine = 2
    MaxLosses = 0
    Timely = TRUE
    MaxReboots = 0
    DeviceStart = {2}
PROPERTIES
    IssueReturns
CHECK_DEADLOCK FALSE
