\* Callers race with the thread that calls their callbacks.
SPECIFICATION FairSpec
CONSTANTS
    c1 = c1
    c2 = c2
    t1 = t1
    t2 = t2
    NoCallback = NoCallback
    Callbacks = {c1, c2}
    Threads = {t1, t2}
    Periods = {1}
    Ops = {"add", "delay", "remove", "destroy"}
    MaxTime = 3
INVARIANTS
    ScheduleMatchesCallbacks
    EntryOutlivesCall
PROPERTIES
    DueIsCalledUnlessIdle
    CallsReturn
CHECK_DEADLOCK FALSE
