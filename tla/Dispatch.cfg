\* Tasks that run more tasks on the dispatcher they run on, and its destructor.
SPECIFICATION FairSpec
CONSTANTS
    k1 = k1
    k2 = k2
    k3 = k3
    w1 = w1
    w2 = w2
    w3 = w3
    u1 = u1
    u2 = u2
    NoTask = NoTask
    Tasks = {k1, k2}
    Workers = {w1, w2, w3}
    Starting = {w1}
    Callers = {u1, u2}
    Nested = TRUE
    Ops = {"dispatch", "run_in_parallel", "ensure_threads", "destroy"}
INVARIANTS
    NoTaskStranded
    TasksOutliveUse
    SomebodyWorks
PROPERTIES
    KeepsPromise
    CallsReturn
CHECK_DEADLOCK FALSE
