\* Callbacks stop the routine they belong to while the user stops the program.
SPECIFICATION FairSpec
CONSTANTS
    e1 = e1
    e2 = e2
    root = root
    sub = sub
    runner = runner
    user = user
    stopper = stopper
    worker = worker
    NoThread = NoThread
    NoScope = NoScope
    NoException = NoException
    NoEvent = NoEvent
    Threads = {user, stopper, worker}
    Scopes = {root, sub}
    Leaves = {runner}
    Below <- TreeBelow
    Exceptions = {"error"}
    Events = {e1, e2}
    Periods = {1}
    MaxPeriod = 1
    Programs <- SomePrograms
    MaxStale = 1
INVARIANTS
    CallbackIsLive
    OneEntryPerEvent
PROPERTIES
    KeepsToScopes
    FrameIsNew
    NoneOvertakenTwice
    DueEventIsRun
    RoutinesReturn
CHECK_DEADLOCK FALSE
