-------------------------- MODULE ParallelTaskRunner -------------------------
(***************************************************************************)
(* ParallelTaskRunner: at most m_max_threads threads for compute tasks.  A *)
(* caller that finds them all busy waits; tasks do not call the runner.    *)
(***************************************************************************)
EXTENDS WorkerThreads

CONSTANTS
    Callers,
    m_max_threads,
    Ops        \* which of AllOps are called

AllOps == {"dispatch", "wait_for_everything", "wait", "destroy"}

ASSUME RunnerAssumption == m_max_threads \in Nat \ {0} /\ Ops \subseteq AllOps

VARIABLES
    doing,          \* per caller: the call it is in, or "free"
    arg,            \* per caller: the task that it dispatches or waits for
    m_dispatch_cv   \* the callers asleep on this condition variable

userVars == <<doing, arg, m_dispatch_cv>>
vars == <<taskVars, poolVars, workerVars, userVars>>

Init ==
    /\ WorkersInit
    /\ doing = [u \in Callers |-> "free"] /\ arg = [u \in Callers |-> NoTask]
    /\ m_dispatch_cv = {}

-----------------------------------------------------------------------------

InUse == Len(m_queue) + m_busy_count

(* Mistake: only the queue is looked at.                                   *)
RoomInQueue == Len(m_queue) < m_max_threads

Room == InUse < m_max_threads

Calls(u, o, k) ==
    /\ doing[u] = "free" /\ o \in Ops /\ ~m_stopping
    /\ doing' = [doing EXCEPT ![u] = o] /\ arg' = [arg EXCEPT ![u] = k]
    /\ UNCHANGED m_dispatch_cv

Returns(u) ==
    /\ doing' = [doing EXCEPT ![u] = "free"] /\ arg' = [arg EXCEPT ![u] = NoTask]
    /\ UNCHANGED m_dispatch_cv

In(u, o) == doing[u] = o /\ u \notin m_dispatch_cv

CallDispatch(u, k) ==
    /\ k \notin made /\ \A v \in Callers : ~(doing[v] = "dispatch" /\ arg[v] = k)
    /\ Calls(u, "dispatch", k)
    /\ UNCHANGED <<taskVars, poolVars, workerVars>>

Dispatch(u) ==
    /\ In(u, "dispatch") /\ Room
    /\ Enqueue(<<arg[u]>>, IF Missing(1) > 0 THEN 1 ELSE 0)
    /\ Returns(u)
    /\ UNCHANGED <<m_finished, m_exception, m_stopped_with_error, m_busy_count,
                   m_stopping, task, busy>>

CallWaitForEverything(u) ==
    /\ Calls(u, "wait_for_everything", NoTask)
    /\ UNCHANGED <<taskVars, poolVars, workerVars>>

WaitForEverythingEnds(u) ==
    /\ In(u, "wait_for_everything") /\ InUse = 0
    /\ Returns(u)
    /\ UNCHANGED <<taskVars, poolVars, workerVars>>

(* Both wait on m_dispatch_cv.                                             *)
Waits(u) ==
    /\ \/ In(u, "dispatch") /\ ~Room
       \/ In(u, "wait_for_everything") /\ InUse # 0
    /\ m_dispatch_cv' = m_dispatch_cv \cup {u}
    /\ UNCHANGED <<taskVars, poolVars, workerVars, doing, arg>>

SpuriousDispatchWakeup(u) ==
    /\ u \in m_dispatch_cv /\ m_dispatch_cv' = m_dispatch_cv \ {u}
    /\ UNCHANGED <<taskVars, poolVars, workerVars, doing, arg>>

(* wait_and_rethrow_exceptions, on the handle of a task.                   *)
CallWait(u, k) ==
    /\ k \in made
    /\ Calls(u, "wait", k)
    /\ UNCHANGED <<taskVars, poolVars, workerVars>>

WaitEnds(u) ==
    /\ In(u, "wait") /\ arg[u] \in m_finished
    /\ Returns(u)
    /\ UNCHANGED <<taskVars, poolVars, workerVars>>

(* Nobody destroys the runner under a call.                                *)
Destroy(u) ==
    /\ \A v \in Callers : doing[v] \in {"free", "wait"}
    /\ Calls(u, "destroy", NoTask)
    /\ StopWorkers
    /\ UNCHANGED <<taskVars, m_queue, m_busy_count, task, busy>>

DestroyEnds(u) ==
    /\ In(u, "destroy")
    /\ SignalTheRest
    /\ Returns(u)
    /\ UNCHANGED <<made, m_exception, m_stopped_with_error, m_busy_count,
                   m_stopping, workerVars>>

-----------------------------------------------------------------------------

(* Mistake: one caller is notified.                                        *)
NotifyOneDispatch(w) ==
    IF w \in busy /\ m_dispatch_cv # {}
    THEN \E u \in m_dispatch_cv : m_dispatch_cv' = m_dispatch_cv \ {u}
    ELSE UNCHANGED m_dispatch_cv

(* A worker that was busy notifies all that wait on m_dispatch_cv.         *)
NotifyDispatch(w) == m_dispatch_cv' = IF w \in busy THEN {} ELSE m_dispatch_cv

WorkerExits(w) == Exits(w) /\ NotifyDispatch(w) /\ UNCHANGED <<taskVars, doing, arg>>
WorkerSleeps(w) == Sleeps(w) /\ NotifyDispatch(w) /\ UNCHANGED <<taskVars, doing, arg>>
WorkerTakes(w) == Takes(w) /\ NotifyDispatch(w) /\ UNCHANGED <<taskVars, doing, arg>>

(* The exception is kept, and that is all.                                 *)
TaskEnds(w, throws) ==
    Ends(w, throws) /\ UNCHANGED <<m_stopped_with_error, userVars>>

TaskSignals(w) == Signals(w) /\ UNCHANGED userVars
SpuriousWakeup(w) == WakesSpuriously(w) /\ UNCHANGED userVars

-----------------------------------------------------------------------------

ThreadLoop(w) ==
    WorkerExits(w) \/ WorkerSleeps(w) \/ WorkerTakes(w) \/ TaskSignals(w)

Worker(w) ==
    \/ ThreadLoop(w) \/ SpuriousWakeup(w)
    \/ \E throws \in BOOLEAN : TaskEnds(w, throws)

(* What a caller does on its own once it is in a call.                     *)
Goes(u) ==
    \/ Dispatch(u) \/ WaitForEverythingEnds(u) \/ Waits(u) \/ WaitEnds(u)
    \/ DestroyEnds(u)

Caller(u) ==
    \/ \E k \in Tasks : CallDispatch(u, k) \/ CallWait(u, k)
    \/ CallWaitForEverything(u) \/ Destroy(u) \/ SpuriousDispatchWakeup(u)
    \/ Goes(u)

Next == (\E u \in Callers : Caller(u)) \/ (\E w \in Workers : Worker(w))

Spec == Init /\ [][Next]_vars

(* The threads run, the callers too, and the tasks end.                    *)
FairSpec ==
    /\ Spec
    /\ \A w \in Workers :
         /\ WF_vars(ThreadLoop(w))
         /\ WF_vars(\E throws \in BOOLEAN : TaskEnds(w, throws))
    /\ \A u \in Callers : WF_vars(Goes(u))

-----------------------------------------------------------------------------

TypeOK ==
    /\ WorkersTypeOK
    /\ doing \in [Callers -> AllOps \cup {"free"}]
    /\ arg \in [Callers -> Tasks \cup {NoTask}] /\ m_dispatch_cv \subseteq Callers

(* No more than max_threads tasks are queued or run at once.               *)
WithinMaxThreads == InUse <= m_max_threads

(* Once nothing is queued or busy, wait_for_everything returns: then every *)
(* task that was dispatched has been signalled.                            *)
EverythingIsDone == InUse = 0 => made \subseteq m_finished

(* Nobody sleeps on m_dispatch_cv while what it waits for holds already:   *)
(* the two kinds of callers share it, and only a worker that was busy      *)
(* notifies it, yet no wakeup is lost.                                     *)
NobodyOversleeps ==
    \A u \in m_dispatch_cv :
      \/ doing[u] = "dispatch" /\ ~Room
      \/ doing[u] = "wait_for_everything" /\ InUse # 0

(* Every call returns: dispatch and wait_for_everything, which sleep on the *)
(* same condition variable, whoever is woken; the wait on the handle of a  *)
(* task, also when the runner is destroyed before the task has run; and    *)
(* the destructor.                                                         *)
CallsReturn == \A u \in Callers : doing[u] # "free" ~> doing[u] = "free"
=============================================================================
