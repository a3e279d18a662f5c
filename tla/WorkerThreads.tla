---------------------------- MODULE WorkerThreads ----------------------------
(***************************************************************************)
(* What AsyncDispatcher and ParallelTaskRunner have in common: a queue of  *)
(* AsyncTasks, the threads that run them, and thread_loop.                 *)
(*                                                                         *)
(* Everything but the tasks themselves happens under m_lock, so a step is  *)
(* a critical section, the end of a task or its signal.                    *)
(***************************************************************************)
EXTENDS Integers, Sequences, FiniteSets

CONSTANTS
    Tasks, NoTask,
    Workers,    \* bound: the threads that can be created
    Starting    \* the threads that the constructor starts

ASSUME WorkersAssumption ==
    /\ IsFiniteSet(Workers) /\ Starting \subseteq Workers
    /\ NoTask \notin Tasks

VARIABLES
    made,                  \* the tasks that have been dispatched
    m_finished,            \* those that have been signalled
    m_exception,           \* those that ended with an exception
    m_stopped_with_error,  \* those whose handle looks for the exception
    m_queue, m_busy_count, m_stopping,
    worker,                \* per worker: where its thread_loop is
    task,                  \* per worker: its local variable task
    busy                   \* the workers whose local variable busy is set

taskVars == <<made, m_finished, m_exception, m_stopped_with_error>>
poolVars == <<m_queue, m_busy_count, m_stopping>>
workerVars == <<worker, task, busy>>

At(place) == {w \in Workers : worker[w] = place}
m_threads == Workers \ At("none")
Queued == {m_queue[i] : i \in 1..Len(m_queue)}
Running == {task[w] : w \in At("run") \cup At("signal")}

WorkersInit ==
    /\ made = {} /\ m_finished = {} /\ m_exception = {}
    /\ m_stopped_with_error = {}
    /\ m_queue = <<>> /\ m_busy_count = 0 /\ m_stopping = FALSE
    /\ worker = [w \in Workers |-> IF w \in Starting THEN "loop" ELSE "none"]
    /\ task = [w \in Workers |-> NoTask] /\ busy = {}

-----------------------------------------------------------------------------
(* Under m_lock, for a caller.                                             *)

(* Mistake: the busy threads are taken for idle ones.                      *)
MissingWhenIdle(n) ==
    LET missing == Len(m_queue) + n - Cardinality(m_threads)
    IN  IF missing > 0 THEN missing ELSE 0

(* The threads that n more tasks would be short of.                        *)
Missing(n) ==
    LET missing == Len(m_queue) + n + m_busy_count - Cardinality(m_threads)
    IN  IF missing > 0 THEN missing ELSE 0

StartThreads(new) ==
    worker' = [w \in Workers |-> IF w \in new THEN "loop" ELSE worker[w]]

(* notify_one, n times, wakes n of those asleep or all.                    *)
Woken(n, woken) ==
    /\ woken \subseteq At("asleep")
    /\ Cardinality(woken) =
         IF n < Cardinality(At("asleep")) THEN n ELSE Cardinality(At("asleep"))

(* Mistake: one notify_one for all the tasks.                              *)
EnqueueNotifyingOnce(s, short) ==
    /\ m_queue' = m_queue \o s
    /\ made' = made \cup {s[i] : i \in 1..Len(s)}
    /\ \E new \in SUBSET At("none"), woken \in SUBSET At("asleep") :
         /\ Cardinality(new) = short /\ Woken(1, woken)
         /\ StartThreads(new \cup woken)

(* Queue the tasks s, create the threads they are short of, and notify.    *)
Enqueue(s, short) ==
    /\ m_queue' = m_queue \o s
    /\ made' = made \cup {s[i] : i \in 1..Len(s)}
    /\ \E new \in SUBSET At("none"), woken \in SUBSET At("asleep") :
         /\ Cardinality(new) = short /\ Woken(Len(s), woken)
         /\ StartThreads(new \cup woken)

(* The first half of the destructor: the workers are told to stop ...      *)
StopWorkers ==
    /\ m_stopping' = TRUE
    /\ StartThreads(At("asleep"))

(* Mistake: the tasks left over are forgotten.                             *)
ForgetTheRest ==
    /\ m_threads = At("exited")
    /\ m_queue' = <<>> /\ UNCHANGED m_finished

(* ... and when they have been joined, the tasks left over are signalled.  *)
SignalTheRest ==
    /\ m_threads = At("exited")
    /\ m_finished' = m_finished \cup Queued /\ m_queue' = <<>>

-----------------------------------------------------------------------------
(* thread_loop.                                                            *)

(* m_busy_count once thread_loop has come round.                           *)
BusyAfter(w) == IF w \in busy THEN m_busy_count - 1 ELSE m_busy_count

Exits(w) ==
    /\ worker[w] = "loop" /\ m_stopping
    /\ m_busy_count' = BusyAfter(w) /\ busy' = busy \ {w}
    /\ worker' = [worker EXCEPT ![w] = "exited"]
    /\ UNCHANGED <<m_queue, m_stopping, task>>

Sleeps(w) ==
    /\ worker[w] = "loop" /\ ~m_stopping /\ m_queue = <<>>
    /\ m_busy_count' = BusyAfter(w) /\ busy' = busy \ {w}
    /\ worker' = [worker EXCEPT ![w] = "asleep"]
    /\ UNCHANGED <<m_queue, m_stopping, task>>

(* Mistake: the newest task first.                                         *)
TakesLast(w) ==
    /\ worker[w] = "loop" /\ ~m_stopping /\ m_queue # <<>>
    /\ m_busy_count' = BusyAfter(w) + 1 /\ busy' = busy \cup {w}
    /\ task' = [task EXCEPT ![w] = m_queue[Len(m_queue)]]
    /\ m_queue' = SubSeq(m_queue, 1, Len(m_queue) - 1)
    /\ worker' = [worker EXCEPT ![w] = "run"]
    /\ UNCHANGED m_stopping

Takes(w) ==
    /\ worker[w] = "loop" /\ ~m_stopping /\ m_queue # <<>>
    /\ m_busy_count' = BusyAfter(w) + 1 /\ busy' = busy \cup {w}
    /\ task' = [task EXCEPT ![w] = Head(m_queue)]
    /\ m_queue' = Tail(m_queue)
    /\ worker' = [worker EXCEPT ![w] = "run"]
    /\ UNCHANGED m_stopping

(* Mistake: a task that throws is not signalled.                           *)
EndsWithoutSignal(w, throws) ==
    /\ worker[w] = "run"
    /\ worker' = [worker EXCEPT ![w] = IF throws THEN "loop" ELSE "signal"]
    /\ m_exception' = IF throws THEN m_exception \cup {task[w]} ELSE m_exception
    /\ UNCHANGED <<made, m_finished, poolVars, task, busy>>

(* The task returns, or throws and the exception is kept.                  *)
Ends(w, throws) ==
    /\ worker[w] = "run"
    /\ worker' = [worker EXCEPT ![w] = "signal"]
    /\ m_exception' = IF throws THEN m_exception \cup {task[w]} ELSE m_exception
    /\ UNCHANGED <<made, m_finished, poolVars, task, busy>>

Signals(w) ==
    /\ worker[w] = "signal"
    /\ m_finished' = m_finished \cup {task[w]}
    /\ worker' = [worker EXCEPT ![w] = "loop"]
    /\ UNCHANGED <<made, m_exception, m_stopped_with_error, poolVars, task, busy>>

WakesSpuriously(w) ==
    /\ worker[w] = "asleep"
    /\ worker' = [worker EXCEPT ![w] = "loop"]
    /\ UNCHANGED <<taskVars, poolVars, task, busy>>

-----------------------------------------------------------------------------

WorkersTypeOK ==
    /\ made \subseteq Tasks /\ m_finished \subseteq Tasks
    /\ m_exception \subseteq Tasks /\ m_stopped_with_error \subseteq Tasks
    /\ m_queue \in Seq(Tasks) /\ m_busy_count \in Nat /\ m_stopping \in BOOLEAN
    /\ worker \in [Workers -> {"none", "loop", "asleep", "run", "signal", "exited"}]
    /\ task \in [Workers -> Tasks \cup {NoTask}] /\ busy \subseteq Workers

(* There is a thread for every task that is queued or runs: "this class    *)
(* will always spawn enough threads run all tasks in parallel".            *)
EnoughThreads == Len(m_queue) + m_busy_count <= Cardinality(m_threads)

(* No notification is lost: for every task in the queue a worker is awake  *)
(* and on its way to m_lock, whatever the tasks that run do.               *)
NoTaskStranded == ~m_stopping => Len(m_queue) <= Cardinality(At("loop"))

(* A task runs once: one that is queued or runs has not been signalled,    *)
(* is queued once or runs on one worker.                                   *)
TasksRunOnce ==
    /\ (Queued \cup Running) \cap m_finished = {} /\ Queued \cap Running = {}
    /\ \A i, j \in 1..Len(m_queue) : m_queue[i] = m_queue[j] => i = j
    /\ \A v, w \in At("run") \cup At("signal") : task[v] = task[w] => v = w

(* rethrow_exceptions: "If the task ended with an exception, rethrow it    *)
(* here."  It looks for the exception only behind m_stopped_with_error.    *)
ExceptionsAreTold == m_exception \subseteq m_stopped_with_error

(* Together the queue and the threads are a TaskPool, to those who use it. *)
Pool == INSTANCE TaskPool WITH queued <- m_queue, running <- Running,
                               signalled <- m_finished, closed <- m_stopping

KeepsPromise == Pool!Spec
=============================================================================
