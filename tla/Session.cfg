\* Commands are replaced and stopped while the program is stopped.
SPECIFICATION FairSpec
CONSTANTS
    c1 = c1
    c2 = c2
    root = root
    session = session
    user = user
    stopper = stopper
    commander = commander
    NoThread = NoThread
    NoScope = NoScope
    NoException = NoException
    NoSet = NoSet
    Threads = {user, stopper, commander}
    Scopes <- AllScopes
    Leaves = {session}
    Below <- TreeBelow
    Exceptions = {"cancelled"}
    Sets = {c1, c2}
    MaxCalls = 2
INVARIANTS
    TreeIsSafe
    CommandOutlivesRun
    CancelReachesCommand
PROPERTIES
    KeepsToScopes
    DispatchedIsRun
    CallsReturn
CHECK_DEADLOCK FALSE
