\* Callers that dispatch, wait for a task or for everything, and destroy.
SPECIFICATION FairSpec
CONSTANTS
    k1 = k1
    k2 = k2
    k3 = k3
    w1 = w1
    w2 = w2
    w3 = w3
    u1 = u1
    u2 = u2
    NoTask = NoTask
    Tasks = {k1, k2, k3}
    Workers = {w1, w2, w3}
    Starting = {w1, w2}
    Callers = {u1, u2}
    m_max_threads = 2
    Ops = {"dispatch", "wait_for_everything", "wait", "destroy"}
INVARIANTS
    WithinMaxThreads
    EverythingIsDone
PROPERTIES
    CallsReturn
CHECK_DEADLOCK FALSE
