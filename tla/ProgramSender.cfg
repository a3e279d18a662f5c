\* The program is stopped before it can be cancelled.
SPECIFICATION ProgramSpec
CONSTANTS
    ui = ui
    remote = remote
    NoCaller = NoCaller
    Callers = {ui, remote}
    Objects = 2
    Asked = {"start", "stop"}
    MaxRuns = 2
INVARIANTS
    SenderIsValid
CHECK_DEADLOCK FALSE
