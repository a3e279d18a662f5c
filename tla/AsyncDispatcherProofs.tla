------------------------ MODULE AsyncDispatcherProofs ------------------------
(***************************************************************************)
(* What is proved of AsyncDispatcher, for any tasks, callers and threads:  *)
(* the invariants of WorkerThreadsProofs hold in it, and no AsyncTask is   *)
(* destroyed while the dispatcher has a pointer to it.                     *)
(***************************************************************************)
EXTENDS AsyncDispatcher, WorkerThreadsProofs

UsersOK ==
    /\ holds \in [Users -> SUBSET Tasks] /\ awaits \in [Users -> SUBSET Tasks]
    /\ gone \subseteq m_finished /\ destroying \subseteq Callers
    /\ destroying # {} => m_stopping
    /\ ExceptionsAreTold

Inv == Counts /\ Once /\ UsersOK

(* Calls, which happen while the dispatcher is not stopping.               *)
LEMMA DispatchKeepsInv ==
    ASSUME Inv, NEW u \in Users, NEW k \in Tasks, Dispatch(u, k)
    PROVE  Inv'
  <1>1. <<k>> \in Seq(Tasks) /\ Len(<<k>>) = 1 /\ <<k>>[1] = k
    OBVIOUS
  <1>2. Enqueue(<<k>>, Missing(Len(<<k>>))) /\ ~m_stopping /\ k \notin made
    BY <1>1, ShortOfOne DEF Inv, Dispatch, Calls
  <1>3. UNCHANGED <<m_finished, m_exception, m_stopped_with_error, m_busy_count,
                    m_stopping, task, busy>>
    BY DEF Dispatch
  <1>4. Counts'
    BY <1>1, <1>2, <1>3, EnqueueKeepsCounts DEF Inv
  <1>5. /\ \A i \in 1..Len(<<k>>) : <<k>>[i] \notin made
        /\ \A i, j \in 1..Len(<<k>>) : <<k>>[i] = <<k>>[j] => i = j
    BY <1>1, <1>2
  <1>6. Once'
    <2> DEFINE s == <<k>>
    <2>1. /\ s \in Seq(Tasks) /\ Enqueue(s, Missing(Len(s)))
          /\ \A i \in 1..Len(s) : s[i] \notin made
          /\ \A i, j \in 1..Len(s) : s[i] = s[j] => i = j
      BY <1>1, <1>2, <1>5
    <2> HIDE DEF s
    <2> QED
      BY <2>1, <1>3, EnqueueKeepsOnce DEF Inv
  <1>7. UsersOK'
    BY DEF Dispatch, Inv, UsersOK, ExceptionsAreTold
  <1> QED
    BY <1>4, <1>6, <1>7 DEF Inv

LEMMA RunInParallelKeepsInv ==
    ASSUME Inv, NEW u \in Users, NEW s \in Seq(Tasks), RunInParallel(u, s)
    PROVE  Inv'
  <1>1. /\ Enqueue(s, Missing(Len(s))) /\ ~m_stopping
        /\ \A i \in 1..Len(s) : s[i] \notin made
        /\ \A i, j \in 1..Len(s) : s[i] = s[j] => i = j
        /\ UNCHANGED <<m_finished, m_exception, m_stopped_with_error, m_busy_count,
                       m_stopping, task, busy>>
    BY DEF RunInParallel, Calls
  <1>2. Counts'
    BY <1>1, EnqueueKeepsCounts DEF Inv
  <1>3. Once'
    BY <1>1, EnqueueKeepsOnce DEF Inv
  <1>4. {s[i] : i \in 1..Len(s)} \subseteq Tasks
    OBVIOUS
  <1>5. UsersOK'
    BY <1>4 DEF RunInParallel, Inv, UsersOK, ExceptionsAreTold
  <1> QED
    BY <1>2, <1>3, <1>5 DEF Inv

LEMMA EnsureThreadsKeepsInv ==
    ASSUME Inv, NEW u \in Users, NEW new \in SUBSET Workers, EnsureThreads(u, new)
    PROVE  Inv'
  <1>1. /\ new \in SUBSET (At("none") \cup At("asleep")) /\ StartThreads(new)
        /\ UNCHANGED <<taskVars, poolVars, task, busy, userVars>>
    BY DEF EnsureThreads
  <1>2. Counts'
    BY <1>1, StartKeepsCounts DEF Inv, Counts, WorkersTypeOK, poolVars
  <1>3. InTask' = InTask
    BY <1>1 DEF InTask, At, StartThreads, Inv, Counts, WorkersTypeOK
  <1>4. Once'
    BY <1>1, <1>3, SamePlacesKeepOnce DEF Inv, taskVars, poolVars
  <1>5. UsersOK'
    BY <1>1 DEF Inv, UsersOK, ExceptionsAreTold, taskVars, userVars, poolVars
  <1> QED
    BY <1>2, <1>4, <1>5 DEF Inv

(* Waiting changes nothing but the user's own state; an AsyncTask is       *)
(* destroyed only when it is finished.                                     *)
LEMMA WaitingKeepsInv ==
    ASSUME Inv, NEW u \in Users,
           (\E k \in Tasks : Awaits(u, k)) \/ WaitEnds(u)
    PROVE  Inv'
  <1>1. UNCHANGED <<taskVars, poolVars, workerVars, destroying>>
    BY DEF Awaits, WaitEnds
  <1>2. Counts'
    BY <1>1, StutterKeepsCounts DEF Inv
  <1>3. InTask' = InTask
    BY <1>1 DEF InTask, At, workerVars
  <1>4. Once'
    BY <1>1, <1>3, SamePlacesKeepOnce DEF Inv, taskVars, poolVars, workerVars
  <1>5. UsersOK'
    BY <1>1 DEF Awaits, WaitEnds, Inv, UsersOK, ExceptionsAreTold, taskVars, poolVars
  <1> QED
    BY <1>2, <1>4, <1>5 DEF Inv

LEMMA DestroyKeepsInv ==
    ASSUME Inv, NEW u \in Users, Destroy(u)
    PROVE  Inv'
  <1>1. /\ StopWorkers /\ u \in Callers /\ destroying' = {u}
        /\ UNCHANGED <<taskVars, m_queue, m_busy_count, task, busy, holds, awaits, gone>>
    BY DEF Destroy
  <1>2. Counts'
    BY <1>1, StopKeepsCounts DEF Inv
  <1>3. InTask' = InTask
    BY <1>1 DEF InTask, At, StopWorkers, StartThreads, Inv, Counts, WorkersTypeOK
  <1>4. Once'
    BY <1>1, <1>3, SamePlacesKeepOnce DEF Inv, taskVars
  <1>5. UsersOK'
    BY <1>1 DEF Inv, UsersOK, ExceptionsAreTold, taskVars, StopWorkers
  <1> QED
    BY <1>2, <1>4, <1>5 DEF Inv

LEMMA DestroyEndsKeepsInv ==
    ASSUME Inv, DestroyEnds
    PROVE  Inv'
  <1>1. /\ SignalTheRest /\ destroying' = {}
        /\ UNCHANGED <<made, m_exception, m_stopped_with_error, m_busy_count,
                       m_stopping, workerVars>>
        /\ UNCHANGED <<holds, awaits, gone>>
    BY DEF DestroyEnds
  <1>2. Counts'
    BY <1>1, SignalTheRestKeepsCounts DEF Inv
  <1>3. Once'
    BY <1>1, SignalTheRestKeepsOnce DEF Inv
  <1>4. m_finished \subseteq m_finished'
    BY <1>1 DEF SignalTheRest
  <1>5. UsersOK'
    BY <1>1, <1>4 DEF Inv, UsersOK, ExceptionsAreTold
  <1> QED
    BY <1>2, <1>3, <1>5 DEF Inv

(* The workers.                                                            *)
LEMMA WorkerKeepsInv ==
    ASSUME Inv, NEW w \in Workers, Worker(w)
    PROVE  Inv'
  <1>1. CASE WorkerExits(w)
    <2>1. Exits(w) /\ UNCHANGED <<taskVars, userVars>>
      BY <1>1 DEF WorkerExits
    <2>2. Counts'
      BY <2>1, ExitsKeepsCounts DEF Inv
    <2>3. InTask' = InTask
      BY <2>1 DEF InTask, At, Exits, Inv, Counts, WorkersTypeOK
    <2>4. Once'
      BY <2>1, <2>3, SamePlacesKeepOnce DEF Inv, Exits, taskVars
    <2>5. UsersOK'
      BY <2>1 DEF Inv, UsersOK, ExceptionsAreTold, taskVars, userVars, Exits
    <2> QED
      BY <2>2, <2>4, <2>5 DEF Inv
  <1>2. CASE WorkerSleeps(w)
    <2>1. Sleeps(w) /\ UNCHANGED <<taskVars, userVars>>
      BY <1>2 DEF WorkerSleeps
    <2>2. Counts'
      BY <2>1, SleepsKeepsCounts DEF Inv
    <2>3. InTask' = InTask
      BY <2>1 DEF InTask, At, Sleeps, Inv, Counts, WorkersTypeOK
    <2>4. Once'
      BY <2>1, <2>3, SamePlacesKeepOnce DEF Inv, Sleeps, taskVars
    <2>5. UsersOK'
      BY <2>1 DEF Inv, UsersOK, ExceptionsAreTold, taskVars, userVars, Sleeps
    <2> QED
      BY <2>2, <2>4, <2>5 DEF Inv
  <1>3. CASE WorkerTakes(w)
    <2>1. Takes(w) /\ UNCHANGED <<taskVars, userVars>>
      BY <1>3 DEF WorkerTakes
    <2>2. Counts' /\ Once'
      BY <2>1, TakesKeepsCounts, TakesKeepsOnce DEF Inv
    <2>3. UsersOK'
      BY <2>1 DEF Inv, UsersOK, ExceptionsAreTold, taskVars, userVars, Takes
    <2> QED
      BY <2>2, <2>3 DEF Inv
  <1>4. CASE TaskSignals(w)
    <2>1. Signals(w) /\ UNCHANGED userVars
      BY <1>4 DEF TaskSignals
    <2>2. Counts' /\ Once'
      BY <2>1, SignalsKeepsCounts, SignalsKeepsOnce DEF Inv
    <2>3. m_finished \subseteq m_finished' /\ UNCHANGED <<m_exception, m_stopped_with_error>>
      BY <2>1 DEF Signals
    <2>4. UsersOK'
      BY <2>1, <2>3 DEF Inv, UsersOK, ExceptionsAreTold, userVars, Signals, poolVars
    <2> QED
      BY <2>2, <2>4 DEF Inv
  <1>5. CASE SpuriousWakeup(w)
    <2>1. WakesSpuriously(w) /\ UNCHANGED userVars
      BY <1>5 DEF SpuriousWakeup
    <2>2. Counts'
      BY <2>1, WakesKeepsCounts DEF Inv
    <2>3. InTask' = InTask
      BY <2>1 DEF InTask, At, WakesSpuriously, Inv, Counts, WorkersTypeOK
    <2>4. Once'
      BY <2>1, <2>3, SamePlacesKeepOnce DEF Inv, WakesSpuriously, taskVars, poolVars
    <2>5. UsersOK'
      BY <2>1 DEF WakesSpuriously, Inv, UsersOK, ExceptionsAreTold, taskVars, userVars, poolVars
    <2> QED
      BY <2>2, <2>4, <2>5 DEF Inv
  <1>6. ASSUME NEW throws \in BOOLEAN, TaskEnds(w, throws)
        PROVE  Inv'
    <2>1. Ends(w, throws) /\ UNCHANGED userVars
      BY <1>6 DEF TaskEnds
    <2>2. task[w] \in Tasks
      BY <2>1 DEF Ends, Inv, Counts, BusyPlaces
    <2>3. m_stopped_with_error' \subseteq Tasks
      BY <1>6, <2>2 DEF TaskEnds, Inv, Counts, WorkersTypeOK
    <2>4. Counts'
      BY <2>1, <2>3, EndsKeepsCounts DEF Inv
    <2>5. InTask' = InTask
      BY <2>1 DEF InTask, At, Ends, Inv, Counts, WorkersTypeOK
    <2>6. Once'
      BY <2>1, <2>5, SamePlacesKeepOnce DEF Inv, Ends, poolVars
    <2>7. UsersOK'
      BY <1>6 DEF TaskEnds, Ends, Inv, UsersOK, ExceptionsAreTold, userVars, poolVars
    <2> QED
      BY <2>4, <2>6, <2>7 DEF Inv
  <1> QED
    BY <1>1, <1>2, <1>3, <1>4, <1>5, <1>6 DEF Worker, ThreadLoop

-----------------------------------------------------------------------------
(* Nobody waits in a circle.                                               *)

(* What a user waits for, or may come to wait for.                         *)
Has(u) == holds[u] \cup awaits[u]

(* Of any tasks that run, one has handles of none of the others.  A task   *)
(* that is new has none, and only a task that runs gets new ones.          *)
Descends ==
    \A S \in SUBSET Tasks : S # {} =>
        \E k \in S : \A w \in At("run") : task[w] = k => Has(w) \cap S = {}

WhenStopping ==
    m_stopping =>
        /\ At("asleep") = {} /\ \A w \in Workers : Has(w) = {}
        /\ destroying # {} \/ (m_queue = <<>> /\ m_threads = At("exited"))

WaitsOK ==
    /\ \A u \in Users : Has(u) \subseteq made
    /\ \A w \in Workers \ At("run") : Has(w) = {}
    /\ Descends /\ WhenStopping

LEMMA WaitsEnd ==
    ASSUME Inv, WaitsOK
    PROVE  SomebodyWorks
  <1> SUFFICES ASSUME NEW u \in Users, Waits(u),
                      \A w \in Workers : ~Works(w)
               PROVE  destroying # {} /\ m_threads = At("exited")
    BY DEF SomebodyWorks
  <1>1. PICK k \in awaits[u] : k \notin m_finished
    BY DEF Waits
  <1>2. k \in Queued \cup Running
    BY <1>1 DEF WaitsOK, Has, Inv, Once
  <1>3. At("signal") = {}
    BY DEF Works, At
  <1>4. \A w \in At("run") : ~(awaits[w] \subseteq m_finished)
    BY DEF Works, At, Waits
  <1>5. CASE m_stopping
    <2>1. At("run") = {}
      BY <1>4, <1>5 DEF WaitsOK, WhenStopping, Has, At
    <2>2. At("loop") = {} /\ At("asleep") = {}
      BY <1>5 DEF Works, At, WaitsOK, WhenStopping
    <2>3. m_threads = At("exited")
      BY <1>3, <2>1, <2>2 DEF m_threads, At, Inv, Counts, WorkersTypeOK
    <2>4. Running = {}
      BY <1>3, <2>1 DEF Running
    <2>5. m_queue # <<>>
      BY <1>2, <2>4 DEF Queued
    <2> QED
      BY <1>5, <2>3, <2>5 DEF WaitsOK, WhenStopping
  <1>6. CASE ~m_stopping
    <2>1. m_queue = <<>>
      <3>1. At("loop") # {} => m_queue = <<>>
        BY DEF Works, At
      <3>2. ASSUME At("loop") = {}
            PROVE  Len(m_queue) = 0
        <4>1. Cardinality(At("loop")) = 0
          BY <3>2, FS_EmptySet
        <4>2. Len(m_queue) \in Nat /\ Len(m_queue) <= Cardinality(At("loop"))
          BY <1>6 DEF Inv, Counts, NoTaskStranded, WorkersTypeOK
        <4> QED
          BY <4>1, <4>2
      <3> QED
        BY <3>1, <3>2 DEF Inv, Counts, WorkersTypeOK
    <2>2. Queued = {}
      BY <2>1 DEF Queued
    <2>3. Running # {} /\ Running \in SUBSET Tasks
      BY <1>2, <2>2 DEF Running, At, Inv, Counts, BusyPlaces
    <2>4. PICK j \in Running :
             \A w \in At("run") : task[w] = j => Has(w) \cap Running = {}
      BY <2>3 DEF WaitsOK, Descends
    <2>5. PICK w \in At("run") : task[w] = j
      BY <1>3, <2>4 DEF Running
    <2>6. PICK i \in awaits[w] : i \notin m_finished
      BY <1>4
    <2>7. i \in Running
      <3>1. w \in Users
        BY DEF At, Users
      <3> QED
        BY <2>2, <2>6, <3>1 DEF WaitsOK, Has, Inv, Once
    <2> QED
      BY <2>4, <2>5, <2>6, <2>7 DEF Has
  <1> QED
    BY <1>5, <1>6

LEMMA HandlesGone ==
    ASSUME Descends,
           \A w \in At("run")' :
              \/ Has(w)' = {}
              \/ w \in At("run") /\ task'[w] = task[w] /\ Has(w)' \subseteq Has(w)
    PROVE  Descends'
  BY DEF Descends

LEMMA HandlesNew ==
    ASSUME Inv, Descends, At("run")' = At("run"), task' = task,
           \A w \in Workers : Has(w)' \subseteq Has(w) \cup (made' \ made)
    PROVE  Descends'
  <1> SUFFICES ASSUME NEW S \in SUBSET Tasks, S # {}
               PROVE  \E k \in S : \A w \in At("run") : task[w] = k => Has(w)' \cap S = {}
    BY DEF Descends
  <1>1. CASE S \cap (made' \ made) # {}
    <2>1. PICK k \in S : k \notin made
      BY <1>1
    <2>2. \A w \in At("run") : task[w] \in made
      BY DEF Inv, Once, Running
    <2> QED
      BY <2>1, <2>2
  <1>2. CASE S \cap (made' \ made) = {}
    <2>1. PICK k \in S : \A w \in At("run") : task[w] = k => Has(w) \cap S = {}
      BY DEF Descends
    <2>2. \A w \in At("run") : Has(w)' \cap S \subseteq Has(w) \cap S
      BY <1>2 DEF At
    <2> QED
      BY <2>1, <2>2
  <1> QED
    BY <1>1, <1>2

LEMMA EnqueueKeepsRun ==
    ASSUME Inv, NEW s, NEW short, Enqueue(s, short)
    PROVE  At("run")' = At("run")
  BY DEF Enqueue, StartThreads, At, Inv, Counts, WorkersTypeOK

LEMMA NewTasksKeepWaits ==
    ASSUME Inv, WaitsOK, NEW u \in Users, Free(u), ~m_stopping', made \subseteq made',
           At("run")' = At("run"), task' = task,
           \A v \in Users : Has(v)' \subseteq Has(v) \cup (made' \ made),
           \A v \in Users : v # u => Has(v)' = Has(v)
    PROVE  WaitsOK'
  <1>1. Workers \subseteq Users /\ (u \in Workers => u \in At("run"))
    BY DispatcherAssumption DEF Free, Users
  <1>2. Descends'
    BY <1>1, HandlesNew DEF WaitsOK
  <1>3. \A v \in Users : Has(v)' \subseteq made'
    BY DEF WaitsOK
  <1>4. \A w \in Workers \ At("run")' : Has(w)' = {}
    BY <1>1 DEF WaitsOK
  <1> QED
    BY <1>2, <1>3, <1>4 DEF WaitsOK, WhenStopping

LEMMA CallsKeepWaits ==
    ASSUME Inv, WaitsOK, NEW u \in Users,
           \/ \E k \in Tasks : Dispatch(u, k)
           \/ \E s \in Seq(Tasks) : RunInParallel(u, s)
    PROVE  WaitsOK'
  <1>1. ASSUME NEW k \in Tasks, Dispatch(u, k)
        PROVE  WaitsOK'
    <2>1. /\ Free(u) /\ ~m_stopping' /\ k \notin made /\ task' = task
          /\ holds' = [holds EXCEPT ![u] = @ \cup {k}] /\ awaits' = awaits
      BY <1>1 DEF Dispatch, Calls
    <2>2. made' = made \cup {k}
      <3>1. Len(<<k>>) = 1 /\ <<k>>[1] = k
        OBVIOUS
      <3> QED
        BY <1>1, <3>1 DEF Dispatch, Enqueue
    <2>3. At("run")' = At("run")
      BY <1>1, EnqueueKeepsRun DEF Dispatch
    <2>4. /\ \A v \in Users : Has(v)' \subseteq Has(v) \cup {k}
          /\ \A v \in Users : v # u => Has(v)' = Has(v)
      BY <2>1 DEF Has, Inv, UsersOK
    <2>5. made' \ made = {k} /\ made \subseteq made'
      BY <2>1, <2>2
    <2> QED
      BY <2>1, <2>3, <2>4, <2>5, NewTasksKeepWaits
  <1>2. ASSUME NEW s \in Seq(Tasks), RunInParallel(u, s)
        PROVE  WaitsOK'
    <2>1. PICK K : K = {s[i] : i \in 1..Len(s)}
      OBVIOUS
    <2>2. /\ Free(u) /\ ~m_stopping' /\ K \cap made = {} /\ task' = task
          /\ awaits' = [awaits EXCEPT ![u] = K] /\ holds' = holds
      BY <1>2, <2>1 DEF RunInParallel, Calls
    <2>3. made' = made \cup K
      BY <1>2, <2>1 DEF RunInParallel, Enqueue
    <2>4. At("run")' = At("run")
      BY <1>2, EnqueueKeepsRun DEF RunInParallel
    <2>5. /\ \A v \in Users : Has(v)' \subseteq Has(v) \cup K
          /\ \A v \in Users : v # u => Has(v)' = Has(v)
      BY <2>2 DEF Has, Inv, UsersOK
    <2>6. made' \ made = K /\ made \subseteq made'
      BY <2>2, <2>3
    <2> QED
      BY <2>2, <2>4, <2>5, <2>6, NewTasksKeepWaits
  <1> QED
    BY <1>1, <1>2

LEMMA UsersKeepWaits ==
    ASSUME Inv, WaitsOK, NEW u \in Users,
           \/ \E new \in SUBSET Workers : EnsureThreads(u, new)
           \/ \E k \in Tasks : Awaits(u, k)
           \/ WaitEnds(u) \/ Destroy(u) \/ DestroyEnds
    PROVE  WaitsOK'
  <1>1. /\ At("run")' = At("run") /\ UNCHANGED <<made, task>>
    BY DEF EnsureThreads, Awaits, WaitEnds, Destroy, DestroyEnds, StopWorkers, StartThreads,
           SignalTheRest, At, taskVars, poolVars, workerVars, Inv, Counts, WorkersTypeOK
  <1>2. \A v \in Users : Has(v)' \subseteq Has(v)
    BY DEF EnsureThreads, Awaits, WaitEnds, Destroy, DestroyEnds, userVars, Has, Inv, UsersOK
  <1>3. Descends'
    BY <1>1, <1>2, HandlesGone DEF WaitsOK, Users, At
  <1>4. /\ \A v \in Users : Has(v)' \subseteq made'
        /\ \A w \in Workers \ At("run")' : Has(w)' = {}
    BY <1>1, <1>2 DEF WaitsOK, Users
  <1>5. WhenStopping'
    <2>1. CASE \E new \in SUBSET Workers : EnsureThreads(u, new)
      BY <2>1 DEF EnsureThreads, Calls, poolVars, WhenStopping
    <2>2. CASE (\E k \in Tasks : Awaits(u, k)) \/ WaitEnds(u)
      <3>1. UNCHANGED <<m_stopping, m_queue, worker, destroying>>
        BY <2>2 DEF Awaits, WaitEnds, poolVars, workerVars
      <3>2. At("asleep")' = At("asleep") /\ At("exited")' = At("exited") /\ m_threads' = m_threads
        BY <3>1 DEF At, m_threads
      <3> QED
        BY <1>2, <3>1, <3>2 DEF WaitsOK, WhenStopping, Users
    <2>3. CASE Destroy(u)
      <3>1. \A w \in Workers : Has(w)' = {}
        BY <1>2, <2>3 DEF Destroy, Has, Users
      <3>2. At("asleep")' = {} /\ destroying' # {}
        BY <2>3 DEF Destroy, StopWorkers, StartThreads, At
      <3> QED
        BY <3>1, <3>2 DEF WhenStopping
    <2>4. CASE DestroyEnds
      <3>1. /\ m_queue' = <<>> /\ m_threads = At("exited")
            /\ UNCHANGED <<m_stopping, worker>>
        BY <2>4 DEF DestroyEnds, SignalTheRest, workerVars
      <3>2. At("asleep")' = At("asleep") /\ At("exited")' = At("exited") /\ m_threads' = m_threads
        BY <3>1 DEF At, m_threads
      <3> QED
        BY <1>2, <3>1, <3>2 DEF WaitsOK, WhenStopping, Users
    <2> QED
      BY <2>1, <2>2, <2>3, <2>4
  <1> QED
    BY <1>3, <1>4, <1>5 DEF WaitsOK

LEMMA WorkersKeepWaits ==
    ASSUME Inv, WaitsOK, NEW w \in Workers, Worker(w)
    PROVE  WaitsOK'
  <1>1. UNCHANGED <<made, m_stopping, userVars>>
    BY DEF Worker, ThreadLoop, WorkerExits, WorkerSleeps, WorkerTakes, TaskSignals,
           SpuriousWakeup, TaskEnds, Exits, Sleeps, Takes, Signals, WakesSpuriously, Ends,
           taskVars, poolVars
  <1>2. \A v \in Users : Has(v)' = Has(v)
    BY <1>1 DEF Has, userVars
  <1>3. /\ w \in At("none") \cup At("exited") => UNCHANGED worker
        /\ \A v \in Workers \ {w} : worker'[v] = worker[v] /\ task'[v] = task[v]
    BY DEF Worker, ThreadLoop, WorkerExits, WorkerSleeps, WorkerTakes, TaskSignals,
           SpuriousWakeup, TaskEnds, Exits, Sleeps, Takes, Signals, WakesSpuriously, Ends,
           taskVars, poolVars, At, Inv, Counts, WorkersTypeOK
  <1>4. Has(w)' = {}
    BY <1>2 DEF Worker, ThreadLoop, WorkerExits, WorkerSleeps, WorkerTakes, TaskSignals,
           SpuriousWakeup, TaskEnds, Exits, Sleeps, Takes, Signals, WakesSpuriously,
           At, WaitsOK, Has, Users
  <1>5. Descends'
    BY <1>2, <1>3, <1>4, HandlesGone DEF WaitsOK, At, Users
  <1>6. \A v \in Workers \ At("run")' : Has(v)' = {}
    BY <1>2, <1>3, <1>4 DEF WaitsOK, At, Users
  <1>7. WhenStopping'
    <2> SUFFICES ASSUME m_stopping
                 PROVE  /\ At("asleep")' = {}
                        /\ destroying # {} \/ (m_queue' = <<>> /\ m_threads' = At("exited")')
      BY <1>1, <1>2 DEF WaitsOK, WhenStopping, Users, userVars
    <2>1. At("asleep")' = {}
      BY <1>3 DEF Worker, ThreadLoop, WorkerExits, WorkerSleeps, WorkerTakes, TaskSignals,
           SpuriousWakeup, TaskEnds, Exits, Sleeps, Takes, Signals, WakesSpuriously, Ends,
           At, WaitsOK, WhenStopping, Inv, Counts, WorkersTypeOK
    <2>2. destroying # {} \/ w \notin m_threads \/ w \in At("exited")
      BY DEF WaitsOK, WhenStopping
    <2>3. w \in m_threads /\ w \notin At("exited")
      BY DEF Worker, ThreadLoop, WorkerExits, WorkerSleeps, WorkerTakes, TaskSignals,
           SpuriousWakeup, TaskEnds, Exits, Sleeps, Takes, Signals, WakesSpuriously, Ends,
           At, m_threads
    <2> QED
      BY <2>1, <2>2, <2>3
  <1> QED
    BY <1>1, <1>2, <1>5, <1>6, <1>7 DEF WaitsOK

-----------------------------------------------------------------------------
(* The steps of a TaskPool.                                                *)

LEMMA UsersKeepPromise ==
    ASSUME Inv, NEW u \in Users, User(u)
    PROVE  [Pool!Next]_poolState
  <1>1. ASSUME NEW k \in Tasks, Dispatch(u, k)
        PROVE  Pool!Submit
    <2> DEFINE s == <<k>>
    <2>1. s \in Seq(Tasks) /\ Len(s) = 1 /\ s[1] = k
      OBVIOUS
    <2>2. /\ Enqueue(s, IF Missing(1) > 0 THEN 1 ELSE 0) /\ ~m_stopping /\ k \notin made
          /\ UNCHANGED <<m_finished, m_stopping, task>>
      BY <1>1 DEF Dispatch, Calls
    <2>3. /\ \A i \in 1..Len(s) : s[i] \notin made
          /\ \A i, j \in 1..Len(s) : s[i] = s[j] => i = j
      BY <2>1, <2>2
    <2> HIDE DEF s
    <2> QED
      BY <2>1, <2>2, <2>3, EnqueueSubmits DEF Inv
  <1>2. ASSUME NEW s \in Batches, RunInParallel(u, s)
        PROVE  Pool!Submit
    <2>1. s \in Seq(Tasks)
      BY DEF Batches
    <2>2. /\ Enqueue(s, Missing(Len(s))) /\ ~m_stopping
          /\ \A i \in 1..Len(s) : s[i] \notin made
          /\ \A i, j \in 1..Len(s) : s[i] = s[j] => i = j
          /\ UNCHANGED <<m_finished, m_stopping, task>>
      BY <1>2 DEF RunInParallel, Calls
    <2> QED
      BY <2>1, <2>2, EnqueueSubmits DEF Inv
  <1>3. ASSUME NEW new \in SUBSET Workers, EnsureThreads(u, new)
        PROVE  UNCHANGED poolState
    <2>1. InTask' = InTask
      BY <1>3 DEF EnsureThreads, StartThreads, InTask, At, Inv, Counts, WorkersTypeOK
    <2> QED
      BY <1>3, <2>1, SamePlacesSamePool DEF EnsureThreads, taskVars, poolVars
  <1>4. ASSUME (\E k \in Tasks : Awaits(u, k)) \/ WaitEnds(u)
        PROVE  UNCHANGED poolState
    <2>1. UNCHANGED <<taskVars, poolVars, workerVars>>
      BY <1>4 DEF Awaits, WaitEnds
    <2> QED
      BY <2>1, SamePlacesSamePool DEF InTask, At, taskVars, poolVars, workerVars
  <1>5. CASE Destroy(u)
    BY <1>5, StopCloses DEF Destroy, Calls, Inv, taskVars, Pool!Next
  <1> QED
    BY <1>1, <1>2, <1>3, <1>4, <1>5 DEF User, Pool!Next

LEMMA DestroyEndsKeepsPromise ==
    ASSUME Inv, DestroyEnds
    PROVE  Pool!Abandon
  BY RestIsAbandoned DEF DestroyEnds, Inv, UsersOK

LEMMA WorkersKeepPromise ==
    ASSUME Inv, NEW w \in Workers, Worker(w)
    PROVE  [Pool!Next]_poolState
  <1>1. CASE WorkerTakes(w)
    BY <1>1, TakesBegins DEF WorkerTakes, Inv, taskVars, Pool!Next
  <1>2. CASE TaskSignals(w)
    BY <1>2, SignalsEnd DEF TaskSignals, Inv, Pool!Next
  <1>3. ASSUME \/ WorkerExits(w) \/ WorkerSleeps(w) \/ SpuriousWakeup(w)
               \/ \E throws \in BOOLEAN : TaskEnds(w, throws)
        PROVE  UNCHANGED poolState
    <2>1. /\ InTask' = InTask /\ UNCHANGED <<m_queue, m_finished, m_stopping, task>>
      BY <1>3 DEF WorkerExits, WorkerSleeps, SpuriousWakeup, TaskEnds, Exits, Sleeps,
                  WakesSpuriously, Ends, InTask, At, Inv, Counts, WorkersTypeOK,
                  taskVars, poolVars
    <2> QED
      BY <2>1, SamePlacesSamePool
  <1> QED
    BY <1>1, <1>2, <1>3 DEF Worker, ThreadLoop

-----------------------------------------------------------------------------

LEMMA InvHolds == Spec => []Inv
  <1>1. Init => Inv
    <2> SUFFICES ASSUME Init PROVE Inv
      OBVIOUS
    <2>1. Counts /\ Once
      BY InitCounts, InitOnce DEF Init
    <2>2. UsersOK
      BY DEF Init, WorkersInit, UsersOK, ExceptionsAreTold
    <2> QED
      BY <2>1, <2>2 DEF Inv
  <1>2. Inv /\ [Next]_vars => Inv'
    <2> SUFFICES ASSUME Inv, [Next]_vars PROVE Inv'
      OBVIOUS
    <2>1. CASE UNCHANGED vars
      <3>1. UNCHANGED <<taskVars, poolVars, workerVars, userVars>>
        BY <2>1 DEF vars
      <3>2. Counts'
        BY <3>1, StutterKeepsCounts DEF Inv
      <3>3. InTask' = InTask
        BY <3>1 DEF InTask, At, workerVars
      <3>4. Once'
        BY <3>1, <3>3, SamePlacesKeepOnce DEF Inv, taskVars, poolVars, workerVars
      <3>5. UsersOK'
        BY <3>1 DEF Inv, UsersOK, ExceptionsAreTold, taskVars, userVars, poolVars
      <3> QED
        BY <3>2, <3>4, <3>5 DEF Inv
    <2>2. ASSUME NEW u \in Users, User(u)
          PROVE  Inv'
      <3>1. ASSUME NEW s \in Batches, RunInParallel(u, s)
            PROVE  Inv'
        <4>1. s \in Seq(Tasks)
          BY DEF Batches
        <4> QED
          BY <3>1, <4>1, RunInParallelKeepsInv
      <3> QED
        BY <2>2, <3>1, DispatchKeepsInv, EnsureThreadsKeepsInv, WaitingKeepsInv,
           DestroyKeepsInv DEF User
    <2>3. CASE DestroyEnds
      BY <2>3, DestroyEndsKeepsInv
    <2> QED
      BY <2>1, <2>2, <2>3, WorkerKeepsInv DEF Next
  <1> QED
    BY <1>1, <1>2, PTL DEF Spec

(* The variables have their types.                                         *)
THEOREM DispatcherTypeCorrect == Spec => []TypeOK
  <1>1. Inv => TypeOK
    BY DEF Inv, TypeOK, Counts, WorkersTypeOK, UsersOK
  <1> QED
    BY <1>1, InvHolds, PTL

(* However many tasks use the dispatcher they run on, there is a thread    *)
(* for each that is queued or runs.                                        *)
THEOREM ThreadForEveryTask == Spec => []EnoughThreads
  <1>1. Inv => EnoughThreads
    BY DEF Inv, Counts
  <1> QED
    BY <1>1, InvHolds, PTL

(* And one that is awake for each that is queued: none waits for another   *)
(* to end.                                                                 *)
THEOREM NothingIsStranded == Spec => []NoTaskStranded
  <1>1. Inv => NoTaskStranded
    BY DEF Inv, Counts
  <1> QED
    BY <1>1, InvHolds, PTL

(* A task runs once, on one worker, and is signalled after that.           *)
THEOREM EveryTaskOnce == Spec => []TasksRunOnce
  <1>1. Inv => TasksRunOnce
    BY DEF Inv, Once
  <1> QED
    BY <1>1, InvHolds, PTL

(* The pointers to AsyncTasks in the queue and at the workers are good.    *)
THEOREM TasksAreAlive == Spec => []TasksOutliveUse
  <1>1. Inv => TasksOutliveUse
    BY DEF Inv, Once, TasksRunOnce, UsersOK, TasksOutliveUse
  <1> QED
    BY <1>1, InvHolds, PTL

(* A handle whose task threw looks for the exception.                      *)
THEOREM HandlesTellExceptions == Spec => []ExceptionsAreTold
  <1>1. Inv => ExceptionsAreTold
    BY DEF Inv, UsersOK
  <1> QED
    BY <1>1, InvHolds, PTL

(* However many tasks dispatch others and wait for them, and whatever      *)
(* handles they wait for, somebody goes on: there is no deadlock in        *)
(* ~AsyncTask, run_in_parallel or ~AsyncDispatcher.                        *)
THEOREM SomebodyAlwaysWorks == Spec => []SomebodyWorks
  <1>1. Init => WaitsOK
    BY DEF Init, WorkersInit, WaitsOK, Has, Descends, WhenStopping, At, Users
  <1>2. Inv /\ WaitsOK /\ [Next]_vars => WaitsOK'
    <2> SUFFICES ASSUME Inv, WaitsOK, [Next]_vars
                 PROVE  WaitsOK'
      OBVIOUS
    <2>1. CASE UNCHANGED vars
      <3>1. UNCHANGED <<made, task, worker, m_stopping, m_queue, holds, awaits, destroying>>
        BY <2>1 DEF vars, taskVars, poolVars, workerVars, userVars
      <3>2. \A place : At(place)' = At(place)
        BY <3>1 DEF At
      <3>3. m_threads' = m_threads
        BY <3>2 DEF m_threads
      <3>4. \A u \in Users : Has(u)' = Has(u)
        BY <3>1 DEF Has
      <3>5. Workers \subseteq Users
        BY DEF Users
      <3>6. Descends'
        BY <3>1, <3>2, <3>4, <3>5, HandlesGone DEF WaitsOK, At
      <3> QED
        BY <3>1, <3>2, <3>3, <3>4, <3>5, <3>6 DEF WaitsOK, WhenStopping
    <2>2. ASSUME NEW u \in Users, User(u)
          PROVE  WaitsOK'
      <3>1. \A s \in Batches : s \in Seq(Tasks)
        BY DEF Batches
      <3> QED
        BY <2>2, <3>1, CallsKeepWaits, UsersKeepWaits DEF User
    <2>3. CASE DestroyEnds
      <3>1. \E u \in Users : TRUE
        BY <2>3 DEF DestroyEnds, Inv, UsersOK, Users
      <3> QED
        BY <2>3, <3>1, UsersKeepWaits
    <2> QED
      BY <2>1, <2>2, <2>3, WorkersKeepWaits DEF Next
  <1> QED
    BY <1>1, <1>2, InvHolds, WaitsEnd, PTL DEF Spec

(* What the dispatcher promises: tasks begin in the order they were        *)
(* queued in, whoever takes them, each once, and every task is signalled   *)
(* when it is over or the dispatcher is destroyed before it begins.        *)
THEOREM DispatcherKeepsPromise == Spec => KeepsPromise
  <1>1. Init => Pool!Init
    BY DEF Init, WorkersInit, Running, At, Pool!Init
  <1>2. Inv /\ [Next]_vars => [Pool!Next]_poolState
    <2> SUFFICES ASSUME Inv, [Next]_vars
                 PROVE  [Pool!Next]_poolState
      OBVIOUS
    <2>1. CASE UNCHANGED vars
      <3>1. UNCHANGED <<taskVars, poolVars, workerVars>>
        BY <2>1 DEF vars
      <3> QED
        BY <3>1, SamePlacesSamePool DEF InTask, At, taskVars, poolVars, workerVars
    <2> QED
      BY <2>1, UsersKeepPromise, DestroyEndsKeepsPromise, WorkersKeepPromise
         DEF Next, Pool!Next
  <1> QED
    BY <1>1, <1>2, InvHolds, PTL DEF Spec, KeepsPromise, Pool!Spec, poolState
=============================================================================
