-------------------------- MODULE AsyncDispatcher ---------------------------
(***************************************************************************)
(* AsyncDispatcher: threads for asynchronous tasks that may block on each  *)
(* other, since the tasks of a program use the dispatcher they run on.     *)
(***************************************************************************)
EXTENDS WorkerThreads

CONSTANTS
    Callers,   \* the other threads that use the dispatcher
    Nested,    \* whether tasks use it
    Ops        \* which of AllOps are called

AllOps == {"dispatch", "run_in_parallel", "ensure_threads", "destroy"}

ASSUME DispatcherAssumption ==
    /\ Callers \cap Workers = {} /\ Nested \in BOOLEAN /\ Ops \subseteq AllOps

VARIABLES
    holds,       \* per user: the handles it got from dispatch
    awaits,      \* per user: the tasks it waits for, in ~AsyncTask or in
                 \* run_in_parallel
    gone,        \* the tasks whose AsyncTask has been destroyed
    destroying   \* the caller that is in the destructor

userVars == <<holds, awaits, gone, destroying>>
vars == <<taskVars, poolVars, workerVars, userVars>>

Users == Callers \cup Workers

Init ==
    /\ WorkersInit
    /\ holds = [u \in Users |-> {}] /\ awaits = [u \in Users |-> {}]
    /\ gone = {} /\ destroying = {}

-----------------------------------------------------------------------------

(* A user is a caller, or a worker in a task.                              *)
Free(u) ==
    /\ awaits[u] = {} /\ u \notin destroying
    /\ u \in Callers \/ (Nested /\ u \in At("run"))

Calls(u, o) == Free(u) /\ o \in Ops /\ ~m_stopping

Dispatch(u, k) ==
    /\ Calls(u, "dispatch") /\ k \notin made
    /\ Enqueue(<<k>>, IF Missing(1) > 0 THEN 1 ELSE 0)
    /\ holds' = [holds EXCEPT ![u] = @ \cup {k}]
    /\ UNCHANGED <<m_finished, m_exception, m_stopped_with_error, m_busy_count,
                   m_stopping, task, busy, awaits, gone, destroying>>

(* It does not return before the tasks s are done.                         *)
RunInParallel(u, s) ==
    /\ Calls(u, "run_in_parallel")
    /\ \A i \in 1..Len(s) : s[i] \notin made
    /\ \A i, j \in 1..Len(s) : s[i] = s[j] => i = j
    /\ Enqueue(s, Missing(Len(s)))
    /\ awaits' = [awaits EXCEPT ![u] = {s[i] : i \in 1..Len(s)}]
    /\ UNCHANGED <<m_finished, m_exception, m_stopped_with_error, m_busy_count,
                   m_stopping, task, busy, holds, gone, destroying>>

EnsureThreads(u, new) ==
    /\ Calls(u, "ensure_threads") /\ new \subseteq At("none")
    /\ StartThreads(new)
    /\ UNCHANGED <<taskVars, poolVars, task, busy, userVars>>

(* ~AsyncTask, of a handle ...                                             *)
Awaits(u, k) ==
    /\ Free(u) /\ k \in holds[u]
    /\ awaits' = [awaits EXCEPT ![u] = {k}]
    /\ UNCHANGED <<taskVars, poolVars, workerVars, holds, gone, destroying>>

(* Mistake: the destructor does not wait.                                  *)
WaitEndsNow(u) ==
    /\ awaits[u] # {}
    /\ gone' = gone \cup awaits[u]
    /\ holds' = [holds EXCEPT ![u] = @ \ awaits[u]]
    /\ awaits' = [awaits EXCEPT ![u] = {}]
    /\ UNCHANGED <<taskVars, poolVars, workerVars, destroying>>

(* ... waits for the task to finish; so does the end of run_in_parallel,   *)
(* which waits even for the tasks that follow one that threw.              *)
WaitEnds(u) ==
    /\ awaits[u] # {} /\ awaits[u] \subseteq m_finished
    /\ gone' = gone \cup awaits[u]
    /\ holds' = [holds EXCEPT ![u] = @ \ awaits[u]]
    /\ awaits' = [awaits EXCEPT ![u] = {}]
    /\ UNCHANGED <<taskVars, poolVars, workerVars, destroying>>

(* Nobody destroys the dispatcher under a call of run_in_parallel, or      *)
(* under a task that still has to wait for another: it would for good.     *)
Destroy(u) ==
    /\ Calls(u, "destroy") /\ u \in Callers
    /\ \A v \in Users : awaits[v] \subseteq holds[v]
    /\ \A w \in Workers : holds[w] = {}
    /\ StopWorkers
    /\ destroying' = {u}
    /\ UNCHANGED <<taskVars, m_queue, m_busy_count, task, busy, holds, awaits, gone>>

DestroyEnds ==
    /\ destroying # {}
    /\ SignalTheRest
    /\ destroying' = {}
    /\ UNCHANGED <<made, m_exception, m_stopped_with_error, m_busy_count,
                   m_stopping, workerVars, holds, awaits, gone>>

-----------------------------------------------------------------------------

WorkerExits(w) == Exits(w) /\ UNCHANGED <<taskVars, userVars>>
WorkerSleeps(w) == Sleeps(w) /\ UNCHANGED <<taskVars, userVars>>
WorkerTakes(w) == Takes(w) /\ UNCHANGED <<taskVars, userVars>>

(* A task releases the handles it got before it ends.                      *)
TaskEnds(w, throws) ==
    /\ awaits[w] = {} /\ holds[w] = {}
    /\ Ends(w, throws)
    /\ m_stopped_with_error' =
         IF throws THEN m_stopped_with_error \cup {task[w]} ELSE m_stopped_with_error
    /\ UNCHANGED userVars

TaskSignals(w) == Signals(w) /\ UNCHANGED userVars
SpuriousWakeup(w) == WakesSpuriously(w) /\ UNCHANGED userVars

-----------------------------------------------------------------------------

(* Batches of run_in_parallel: any tasks in any order.                     *)
Batches == UNION {[1..n -> Tasks] : n \in 1..Cardinality(Tasks)}

ThreadLoop(w) ==
    WorkerExits(w) \/ WorkerSleeps(w) \/ WorkerTakes(w) \/ TaskSignals(w)

User(u) ==
    \/ \E k \in Tasks : Dispatch(u, k) \/ Awaits(u, k)
    \/ \E s \in Batches : RunInParallel(u, s)
    \/ \E new \in SUBSET Workers : EnsureThreads(u, new)
    \/ WaitEnds(u) \/ Destroy(u)

Worker(w) ==
    \/ ThreadLoop(w) \/ SpuriousWakeup(w)
    \/ \E throws \in BOOLEAN : TaskEnds(w, throws)

Next == (\E u \in Users : User(u)) \/ (\E w \in Workers : Worker(w)) \/ DestroyEnds

Spec == Init /\ [][Next]_vars

(* The threads run, the tasks end, and give back their handles, once what  *)
(* they wait for is done.                                                  *)
FairSpec ==
    /\ Spec
    /\ \A w \in Workers :
         /\ WF_vars(ThreadLoop(w))
         /\ WF_vars(\E throws \in BOOLEAN : TaskEnds(w, throws))
         /\ WF_vars(\E k \in Tasks : Awaits(w, k))
    /\ \A u \in Users : WF_vars(WaitEnds(u))
    /\ WF_vars(DestroyEnds)

-----------------------------------------------------------------------------

TypeOK ==
    /\ WorkersTypeOK
    /\ holds \in [Users -> SUBSET Tasks] /\ awaits \in [Users -> SUBSET Tasks]
    /\ gone \subseteq Tasks /\ destroying \subseteq Callers

(* The queue and the workers hold plain pointers to AsyncTasks: none is    *)
(* destroyed before it has been run and signalled.                         *)
TasksOutliveUse == (Queued \cup Running) \cap gone = {}

(* As long as somebody waits, a thread is on its way to a task, or has one *)
(* that waits for nothing, or the destructor goes on: tasks that dispatch  *)
(* tasks and wait for them never all wait for each other, in a circle or   *)
(* for a thread (dispatch, run_in_parallel, ~AsyncTask, thread_loop).      *)
Waits(u) == ~(awaits[u] \subseteq m_finished)

Works(w) ==
    \/ worker[w] = "loop" /\ (m_stopping \/ m_queue # <<>>)
    \/ worker[w] = "run" /\ ~Waits(w)
    \/ worker[w] = "signal"

SomebodyWorks ==
    (\E u \in Users : Waits(u)) =>
        \/ \E w \in Workers : Works(w)
        \/ destroying # {} /\ m_threads = At("exited")

(* Waiting for a handle and run_in_parallel return, also when they are     *)
(* called by tasks, when tasks throw, and when the dispatcher is destroyed *)
(* under tasks that nobody has run; and so does the destructor.            *)
CallsReturn ==
    /\ \A u \in Users : awaits[u] # {} ~> awaits[u] = {}
    /\ destroying # {} ~> destroying = {}
=============================================================================
