\* Everything is sent while the truncated sequence number wraps around.
SPECIFICATION HistorySpec
CONSTANTS
    t1 = t1
    t2 = t2
    Threads = {t1, t2}
    Ops = {"query", "command", "stop", "interrupt"}
    MAX_PENDING_REQUESTS = 2
    DEVICE_QUEUE_SIZE = 2
    SeqMod = 16
    FirstSeq = 14
    MaxSeq = 16
    MaxLine = 2
    MaxLosses = 0
    Timely = FALSE
    MaxReboots = 0
    DeviceStart = {14}
SYMMETRY ThreadSymmetry
INVARIANTS
    WaiterOwnsEntry
    NoAckSleptThrough
    LiveSeqnumsResolve
    NoCommandDropped
PROPERTIES
    EntriesLeaveWhenDone
    CommandsOnceInOrder
CHECK_DEADLOCK FALSE
