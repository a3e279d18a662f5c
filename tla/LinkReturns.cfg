\* Calls end when all is done, when they are cancelled, and on stop().
SPECIFICATION FairSpec
CONSTANTS
    t1 = t1
    t2 = t2
    Threads = {t1, t2}
    Ops = {"query", "wait_all", "stop", "cancel", "shutdown"}
    MAX_PENDING_REQUESTS = 1
    DEVICE_QUEUE_SIZE = 1
    SeqMod = 32
    FirstSeq = 2
    MaxSeq = 3
    MaxLine = 2
    MaxLosses = 0
    Timely = TRUE
    MaxReboots = 0
    DeviceStart = {2}
PROPERTIES
    StopTerminates
    WaitsReturn
CHECK_DEADLOCK FALSE
