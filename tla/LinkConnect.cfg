\* A new connection to a device in any state, which may restart; calls
\* that do not block.
SPECIFICATION Spec
CONSTANTS
    t1 = t1
    t2 = t2
    Threads = {t1, t2}
    Ops = {"connect", "try_request", "try_command", "try_stop", "try_interrupt"}
    MAX_PENDING_REQUESTS = 2
    DEVICE_QUEUE_SIZE = 2
    SeqMod = 32
    FirstSeq = 1
    MaxSeq = 3
    MaxLine = 2
    MaxLosses = 1
    Timely = FALSE
    MaxReboots = 1
    DeviceStart = {1, 2, 3}
SYMMETRY ThreadSymmetry
INVARIANTS
    InterruptionMeansReboot
CHECK_DEADLOCK FALSE
