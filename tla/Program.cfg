\* Programs start, end and are stopped while the connection comes and goes.
SPECIFICATION FairProgramSpec
CONSTANTS
    ui = ui
    remote = remote
    NoCaller = NoCaller
    Callers = {ui, remote}
    Objects = 2
    Asked = {"start", "stop", "reset"}
    MaxRuns = 2
INVARIANTS
    StateMatchesThread
PROPERTIES
    ThreadsUseLive
    StopReturns
CHECK_DEADLOCK FALSE
