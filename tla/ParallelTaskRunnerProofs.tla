---------------------- MODULE ParallelTaskRunnerProofs -----------------------
(***************************************************************************)
(* What is proved of ParallelTaskRunner, for any tasks, callers, threads   *)
(* and m_max_threads.                                                      *)
(***************************************************************************)
EXTENDS ParallelTaskRunner, WorkerThreadsProofs

(* A caller in dispatch has a task of its own that nobody has queued.      *)
UsersOK ==
    /\ doing \in [Callers -> AllOps \cup {"free"}]
    /\ arg \in [Callers -> Tasks \cup {NoTask}] /\ m_dispatch_cv \subseteq Callers
    /\ \A u \in Callers :
         /\ doing[u] = "dispatch" => arg[u] \in Tasks \ made /\ ~m_stopping
         /\ doing[u] = "destroy" => m_stopping
    /\ \A u, v \in Callers :
         doing[u] = "dispatch" /\ doing[v] = "dispatch" /\ arg[u] = arg[v] => u = v

Inv == Counts /\ Once /\ UsersOK /\ WithinMaxThreads

(* Once the destructor has stopped the workers, no caller is left that     *)
(* dispatches or waits for everything.                                     *)
SleepersOK ==
    /\ NobodyOversleeps
    /\ m_stopping => \A u \in Callers : doing[u] # "wait_for_everything"

(* What a step means for those two.                                        *)
LEMMA FewerInUse ==
    ASSUME WithinMaxThreads, Counts, Counts', InUse' <= InUse
    PROVE  WithinMaxThreads'
  <1>1. InUse \in Nat /\ InUse' \in Nat /\ m_max_threads \in Nat
    BY RunnerAssumption DEF InUse, Counts, WorkersTypeOK
  <1> QED
    BY <1>1 DEF WithinMaxThreads

LEMMA UsersUntouched ==
    ASSUME UsersOK, UNCHANGED <<doing, arg, made, m_stopping>>,
           m_dispatch_cv' \subseteq Callers
    PROVE  UsersOK'
  BY DEF UsersOK

-----------------------------------------------------------------------------

LEMMA DispatchKeepsInv ==
    ASSUME Inv, NEW u \in Callers, Dispatch(u)
    PROVE  Inv'
  <1> DEFINE k == arg[u]  s == <<k>>
  <1>1. k \in Tasks \ made /\ ~m_stopping /\ doing[u] = "dispatch"
    BY DEF Inv, UsersOK, Dispatch, In
  <1>2. s \in Seq(Tasks) /\ Len(s) = 1 /\ s[1] = k /\ {s[i] : i \in 1..Len(s)} = {k}
    BY <1>1
  <1>3. /\ Enqueue(s, Missing(Len(s)))
        /\ UNCHANGED <<m_finished, m_exception, m_stopped_with_error, m_busy_count,
                       m_stopping, task, busy>>
    BY <1>2, ShortOfOne DEF Inv, Dispatch
  <1>4. /\ \A i \in 1..Len(s) : s[i] \notin made
        /\ \A i, j \in 1..Len(s) : s[i] = s[j] => i = j
    BY <1>1, <1>2
  <1>5. made' = made \cup {k} /\ m_queue' = m_queue \o s
    BY <1>2, <1>3 DEF Enqueue
  <1>6. Len(m_queue') = Len(m_queue) + 1 /\ Len(m_queue) \in Nat /\ m_busy_count \in Nat
    BY <1>2, <1>5 DEF Inv, Counts, WorkersTypeOK
  <1>7. UsersOK'
    BY <1>1, <1>3, <1>5 DEF Dispatch, Returns, Inv, UsersOK
  <1>8. WithinMaxThreads'
    <2>1. InUse < m_max_threads /\ m_busy_count' = m_busy_count /\ m_max_threads \in Nat
      BY <1>3, RunnerAssumption DEF Dispatch, Room
    <2> QED
      BY <1>6, <2>1 DEF WithinMaxThreads, InUse
  <1> HIDE DEF s
  <1>9. Counts' /\ Once'
    BY <1>1, <1>2, <1>3, <1>4, EnqueueKeepsCounts, EnqueueKeepsOnce DEF Inv
  <1> QED
    BY <1>7, <1>8, <1>9 DEF Inv

(* Calling, waiting and returning touch neither the queue nor the workers. *)
LEMMA CallsKeepInv ==
    ASSUME Inv, NEW u \in Callers,
           \/ \E k \in Tasks : CallDispatch(u, k) \/ CallWait(u, k)
           \/ CallWaitForEverything(u) \/ WaitForEverythingEnds(u)
           \/ Waits(u) \/ WaitEnds(u) \/ SpuriousDispatchWakeup(u)
    PROVE  Inv'
  <1>1. UNCHANGED <<taskVars, poolVars, workerVars>>
    BY DEF CallDispatch, CallWait, CallWaitForEverything, WaitForEverythingEnds,
           Waits, WaitEnds, SpuriousDispatchWakeup
  <1>2. Counts'
    BY <1>1, StutterKeepsCounts DEF Inv
  <1>3. InTask' = InTask
    BY <1>1 DEF InTask, At, workerVars
  <1>4. Once'
    BY <1>1, <1>3, SamePlacesKeepOnce DEF Inv, taskVars, poolVars, workerVars
  <1>5. WithinMaxThreads'
    BY <1>1 DEF Inv, WithinMaxThreads, InUse, poolVars
  <1>6. made' = made /\ m_stopping' = m_stopping
    BY <1>1 DEF taskVars, poolVars
  <1>7. ASSUME NEW k \in Tasks, CallDispatch(u, k)
        PROVE  UsersOK'
    BY <1>6, <1>7 DEF CallDispatch, Calls, Inv, UsersOK, AllOps
  <1>8. ASSUME NEW k \in Tasks, CallWait(u, k)
        PROVE  UsersOK'
    BY <1>6, <1>8 DEF CallWait, Calls, Inv, UsersOK, AllOps
  <1>9. ASSUME CallWaitForEverything(u)
        PROVE  UsersOK'
    BY <1>6, <1>9 DEF CallWaitForEverything, Calls, Inv, UsersOK, AllOps
  <1>10. ASSUME WaitForEverythingEnds(u) \/ WaitEnds(u)
        PROVE  UsersOK'
    BY <1>6, <1>10 DEF WaitForEverythingEnds, WaitEnds, Returns, Inv, UsersOK
  <1>11. ASSUME Waits(u) \/ SpuriousDispatchWakeup(u)
        PROVE  UsersOK'
    BY <1>6, <1>11 DEF Waits, SpuriousDispatchWakeup, Inv, UsersOK
  <1>12. UsersOK'
    BY <1>7, <1>8, <1>9, <1>10, <1>11
  <1> QED
    BY <1>2, <1>4, <1>5, <1>12 DEF Inv

LEMMA DestroyKeepsInv ==
    ASSUME Inv, NEW u \in Callers, Destroy(u)
    PROVE  Inv'
  <1>1. /\ StopWorkers /\ UNCHANGED <<taskVars, m_queue, m_busy_count, task, busy>>
        /\ \A v \in Callers : doing[v] \in {"free", "wait"}
        /\ doing' = [doing EXCEPT ![u] = "destroy"]
        /\ arg' = [arg EXCEPT ![u] = NoTask] /\ UNCHANGED m_dispatch_cv
    BY DEF Destroy, Calls
  <1>2. Counts'
    BY <1>1, StopKeepsCounts DEF Inv
  <1>3. InTask' = InTask
    BY <1>1 DEF InTask, At, StopWorkers, StartThreads, Inv, Counts, WorkersTypeOK
  <1>4. Once'
    BY <1>1, <1>3, SamePlacesKeepOnce DEF Inv, taskVars
  <1>5. UsersOK'
    <2>1. UsersOK /\ m_stopping' = TRUE
      BY <1>1 DEF Inv, StopWorkers
    <2>2. \A v \in Callers : doing'[v] # "dispatch"
      BY <1>1, <2>1 DEF UsersOK
    <2>3. /\ doing' \in [Callers -> AllOps \cup {"free"}]
          /\ arg' \in [Callers -> Tasks \cup {NoTask}] /\ m_dispatch_cv' \subseteq Callers
      BY <1>1, <2>1 DEF UsersOK, AllOps
    <2> QED
      BY <2>1, <2>2, <2>3 DEF UsersOK
  <1>6. WithinMaxThreads'
    BY <1>1 DEF Inv, WithinMaxThreads, InUse
  <1> QED
    BY <1>2, <1>4, <1>5, <1>6 DEF Inv

LEMMA DestroyEndsKeepsInv ==
    ASSUME Inv, NEW u \in Callers, DestroyEnds(u)
    PROVE  Inv'
  <1>1. /\ SignalTheRest /\ Returns(u)
        /\ UNCHANGED <<made, m_exception, m_stopped_with_error, m_busy_count,
                       m_stopping, workerVars>>
    BY DEF DestroyEnds
  <1>2. Counts' /\ Once'
    BY <1>1, SignalTheRestKeepsCounts, SignalTheRestKeepsOnce DEF Inv
  <1>3. UsersOK'
    BY <1>1 DEF Inv, UsersOK, Returns
  <1>4. Len(m_queue') = 0 /\ Len(m_queue) \in Nat /\ m_busy_count \in Nat
        /\ m_busy_count' = m_busy_count
    BY <1>1 DEF SignalTheRest, Inv, Counts, WorkersTypeOK
  <1>5. InUse' <= InUse
    BY <1>4 DEF InUse
  <1> QED
    BY <1>2, <1>3, <1>5, FewerInUse DEF Inv

(* The workers: each step leaves as much in use, or less.                  *)
LEMMA WorkerKeepsInv ==
    ASSUME Inv, NEW w \in Workers, Worker(w)
    PROVE  Inv'
  <1>0. /\ Len(m_queue) \in Nat /\ m_busy_count \in Nat /\ BusyAfter(w) \in Nat
        /\ BusyAfter(w) <= m_busy_count /\ m_dispatch_cv \subseteq Callers
    <2>1. Counts /\ m_dispatch_cv \subseteq Callers
      BY DEF Inv, UsersOK
    <2>2. BusyAfter(w) \in Nat /\ BusyAfter(w) <= m_busy_count
      BY <2>1, BusyAfterCounts
    <2>3. Len(m_queue) \in Nat /\ m_busy_count \in Nat
      BY <2>1 DEF Counts, WorkersTypeOK
    <2> QED
      BY <2>1, <2>2, <2>3
  <1>1. CASE WorkerExits(w)
    <2>1. Exits(w) /\ NotifyDispatch(w) /\ UNCHANGED <<taskVars, doing, arg>>
      BY <1>1 DEF WorkerExits
    <2>2. Counts'
      BY <2>1, ExitsKeepsCounts DEF Inv
    <2>3. InTask' = InTask
      BY <2>1 DEF InTask, At, Exits, Inv, Counts, WorkersTypeOK
    <2>4. Once'
      BY <2>1, <2>3, SamePlacesKeepOnce DEF Inv, Exits, taskVars
    <2>5. UsersOK'
      BY <1>0, <2>1, UsersUntouched DEF Inv, Exits, NotifyDispatch, taskVars
    <2>6. InUse' <= InUse
      BY <1>0, <2>1 DEF InUse, Exits
    <2> QED
      BY <2>2, <2>4, <2>5, <2>6, FewerInUse DEF Inv
  <1>2. CASE WorkerSleeps(w)
    <2>1. Sleeps(w) /\ NotifyDispatch(w) /\ UNCHANGED <<taskVars, doing, arg>>
      BY <1>2 DEF WorkerSleeps
    <2>2. Counts'
      BY <2>1, SleepsKeepsCounts DEF Inv
    <2>3. InTask' = InTask
      BY <2>1 DEF InTask, At, Sleeps, Inv, Counts, WorkersTypeOK
    <2>4. Once'
      BY <2>1, <2>3, SamePlacesKeepOnce DEF Inv, Sleeps, taskVars
    <2>5. UsersOK'
      BY <1>0, <2>1, UsersUntouched DEF Inv, Sleeps, NotifyDispatch, taskVars
    <2>6. InUse' <= InUse
      BY <1>0, <2>1 DEF InUse, Sleeps
    <2> QED
      BY <2>2, <2>4, <2>5, <2>6, FewerInUse DEF Inv
  <1>3. CASE WorkerTakes(w)
    <2>1. Takes(w) /\ NotifyDispatch(w) /\ UNCHANGED <<taskVars, doing, arg>>
      BY <1>3 DEF WorkerTakes
    <2>2. Counts' /\ Once'
      BY <2>1, TakesKeepsCounts, TakesKeepsOnce DEF Inv
    <2>3. UsersOK'
      BY <1>0, <2>1, UsersUntouched DEF Inv, Takes, NotifyDispatch, taskVars
    <2>4. Len(m_queue') = Len(m_queue) - 1 /\ m_busy_count' = BusyAfter(w) + 1
      BY <2>1 DEF Takes, Inv, Counts, WorkersTypeOK
    <2>5. InUse' <= InUse
      BY <1>0, <2>4 DEF InUse
    <2> QED
      BY <2>2, <2>3, <2>5, FewerInUse DEF Inv
  <1>4. CASE TaskSignals(w)
    <2>1. Signals(w) /\ UNCHANGED userVars
      BY <1>4 DEF TaskSignals
    <2>2. Counts' /\ Once'
      BY <2>1, SignalsKeepsCounts, SignalsKeepsOnce DEF Inv
    <2>3. UsersOK'
      BY <1>0, <2>1, UsersUntouched DEF Inv, Signals, poolVars, userVars
    <2>4. WithinMaxThreads'
      BY <2>1 DEF Signals, Inv, WithinMaxThreads, InUse, poolVars
    <2> QED
      BY <2>2, <2>3, <2>4 DEF Inv
  <1>5. CASE SpuriousWakeup(w)
    <2>1. WakesSpuriously(w) /\ UNCHANGED userVars
      BY <1>5 DEF SpuriousWakeup
    <2>2. Counts'
      BY <2>1, WakesKeepsCounts DEF Inv
    <2>3. InTask' = InTask
      BY <2>1 DEF InTask, At, WakesSpuriously, Inv, Counts, WorkersTypeOK
    <2>4. Once'
      BY <2>1, <2>3, SamePlacesKeepOnce DEF Inv, WakesSpuriously, taskVars, poolVars
    <2>5. UsersOK'
      BY <1>0, <2>1, UsersUntouched DEF Inv, WakesSpuriously, taskVars, poolVars, userVars
    <2>6. WithinMaxThreads'
      BY <2>1 DEF WakesSpuriously, Inv, WithinMaxThreads, InUse, poolVars
    <2> QED
      BY <2>2, <2>4, <2>5, <2>6 DEF Inv
  <1>6. ASSUME NEW throws \in BOOLEAN, TaskEnds(w, throws)
        PROVE  Inv'
    <2>1. Ends(w, throws) /\ UNCHANGED <<m_stopped_with_error, userVars>>
      BY <1>6 DEF TaskEnds
    <2>2. m_stopped_with_error' \subseteq Tasks
      BY <2>1 DEF Inv, Counts, WorkersTypeOK
    <2>3. Counts'
      BY <2>1, <2>2, EndsKeepsCounts DEF Inv
    <2>4. InTask' = InTask
      BY <2>1 DEF InTask, At, Ends, Inv, Counts, WorkersTypeOK
    <2>5. Once'
      BY <2>1, <2>4, SamePlacesKeepOnce DEF Inv, Ends, poolVars
    <2>6. UsersOK'
      BY <1>0, <2>1, UsersUntouched DEF Inv, Ends, poolVars, userVars
    <2>7. WithinMaxThreads'
      BY <2>1 DEF Ends, Inv, WithinMaxThreads, InUse, poolVars
    <2> QED
      BY <2>3, <2>5, <2>6, <2>7 DEF Inv
  <1> QED
    BY <1>1, <1>2, <1>3, <1>4, <1>5, <1>6 DEF Worker, ThreadLoop

-----------------------------------------------------------------------------
(* Who sleeps on m_dispatch_cv.                                            *)

(* Sleepers may leave it; the others stay while what they wait for is as   *)
(* far away as before.                                                     *)
LEMMA SleepersStay ==
    ASSUME SleepersOK, m_dispatch_cv' \subseteq m_dispatch_cv,
           InUse' = InUse, UNCHANGED <<doing, m_stopping>>
    PROVE  SleepersOK'
  BY DEF SleepersOK, NobodyOversleeps, Room

(* Once the workers are told to stop nobody sleeps on it.                  *)
LEMMA NobodySleepsAtTheEnd ==
    ASSUME Inv, SleepersOK, m_stopping
    PROVE  m_dispatch_cv = {}
  BY DEF Inv, UsersOK, SleepersOK, NobodyOversleeps

LEMMA DispatchKeepsSleepers ==
    ASSUME Inv, SleepersOK, NEW u \in Callers, Dispatch(u)
    PROVE  SleepersOK'
  <1>1. arg[u] \in Tasks /\ u \notin m_dispatch_cv /\ InUse < m_max_threads
        /\ doing' = [doing EXCEPT ![u] = "free"]
        /\ m_queue' = m_queue \o <<arg[u]>>
        /\ UNCHANGED <<m_busy_count, m_dispatch_cv, m_stopping>>
    BY DEF Dispatch, In, Room, Enqueue, Returns, Inv, UsersOK
  <1>2. /\ Len(m_queue') = Len(m_queue) + 1
        /\ Len(m_queue) \in Nat /\ m_busy_count \in Nat
    BY <1>1 DEF Inv, Counts, WorkersTypeOK
  <1>3. InUse' # 0
    BY <1>1, <1>2 DEF InUse
  <1>4. \A v \in m_dispatch_cv : v # u /\ doing[v] = "wait_for_everything"
    BY <1>1 DEF SleepersOK, NobodyOversleeps, Room
  <1>5. \A v \in Callers : v # u => doing'[v] = doing[v]
    BY <1>1 DEF Inv, UsersOK
  <1>6. \A v \in Callers :
          doing'[v] = "wait_for_everything" => doing[v] = "wait_for_everything"
    BY <1>1 DEF Inv, UsersOK
  <1>7. m_dispatch_cv \subseteq Callers
    BY DEF Inv, UsersOK
  <1> QED
    BY <1>1, <1>3, <1>4, <1>5, <1>6, <1>7 DEF SleepersOK, NobodyOversleeps

(* A caller that begins a call, or returns from one, is awake.             *)
LEMMA CallsKeepSleepers ==
    ASSUME Inv, SleepersOK, NEW u \in Callers,
           \/ \E k \in Tasks : CallDispatch(u, k) \/ CallWait(u, k)
           \/ CallWaitForEverything(u) \/ WaitForEverythingEnds(u)
           \/ Waits(u) \/ WaitEnds(u) \/ SpuriousDispatchWakeup(u)
    PROVE  SleepersOK'
  <1>1. UNCHANGED <<m_queue, m_busy_count, m_stopping>>
    BY DEF CallDispatch, CallWait, CallWaitForEverything, WaitForEverythingEnds,
           Waits, WaitEnds, SpuriousDispatchWakeup, poolVars
  <1>2. InUse' = InUse /\ Room' = Room
    BY <1>1 DEF InUse, Room
  <1>3. doing \in [Callers -> AllOps \cup {"free"}] /\ m_dispatch_cv \subseteq Callers
    BY DEF Inv, UsersOK
  <1>4. ASSUME NEW o \in AllOps, NEW k, Calls(u, o, k)
        PROVE  SleepersOK'
    <2>1. doing[u] = "free" /\ ~m_stopping /\ doing' = [doing EXCEPT ![u] = o]
          /\ m_dispatch_cv' = m_dispatch_cv
      BY <1>4 DEF Calls
    <2>2. u \notin m_dispatch_cv
      BY <2>1 DEF SleepersOK, NobodyOversleeps
    <2>3. \A v \in m_dispatch_cv : doing'[v] = doing[v]
      BY <1>3, <2>1, <2>2
    <2> QED
      BY <1>1, <1>2, <2>1, <2>3 DEF SleepersOK, NobodyOversleeps
  <1>5. ASSUME NEW o, In(u, o), Returns(u)
        PROVE  SleepersOK'
    <2>1. u \notin m_dispatch_cv /\ doing' = [doing EXCEPT ![u] = "free"]
          /\ m_dispatch_cv' = m_dispatch_cv
      BY <1>5 DEF In, Returns
    <2>2. \A v \in m_dispatch_cv : doing'[v] = doing[v]
      BY <1>3, <2>1
    <2>3. \A v \in Callers :
            doing'[v] = "wait_for_everything" => doing[v] = "wait_for_everything"
      BY <1>3, <2>1
    <2> QED
      BY <1>1, <1>2, <2>1, <2>2, <2>3 DEF SleepersOK, NobodyOversleeps
  <1>6. ASSUME NEW k \in Tasks, CallDispatch(u, k) \/ CallWait(u, k)
        PROVE  SleepersOK'
    BY <1>4, <1>6 DEF CallDispatch, CallWait, AllOps
  <1>7. CASE CallWaitForEverything(u)
    BY <1>4, <1>7 DEF CallWaitForEverything, AllOps
  <1>8. CASE WaitForEverythingEnds(u) \/ WaitEnds(u)
    BY <1>5, <1>8 DEF WaitForEverythingEnds, WaitEnds
  <1>9. CASE Waits(u)
    <2>1. /\ m_dispatch_cv' = m_dispatch_cv \cup {u} /\ doing' = doing
          /\ \/ doing[u] = "dispatch" /\ ~Room
             \/ doing[u] = "wait_for_everything" /\ InUse # 0
      BY <1>9 DEF Waits, In
    <2> QED
      BY <1>1, <1>2, <2>1 DEF SleepersOK, NobodyOversleeps
  <1>10. CASE SpuriousDispatchWakeup(u)
    BY <1>1, <1>2, <1>10, SleepersStay DEF SpuriousDispatchWakeup
  <1> QED
    BY <1>6, <1>7, <1>8, <1>9, <1>10

(* Nobody sleeps on it when the runner is destroyed.                       *)
LEMMA DestroyKeepsSleepers ==
    ASSUME Inv, SleepersOK, NEW u \in Callers, Destroy(u) \/ DestroyEnds(u)
    PROVE  SleepersOK'
  <1>1. doing \in [Callers -> AllOps \cup {"free"}] /\ m_dispatch_cv \subseteq Callers
    BY DEF Inv, UsersOK
  <1>2. CASE Destroy(u)
    <2>1. /\ \A v \in Callers : doing[v] \in {"free", "wait"}
          /\ doing' = [doing EXCEPT ![u] = "destroy"] /\ UNCHANGED m_dispatch_cv
      BY <1>2 DEF Destroy, Calls
    <2>2. m_dispatch_cv' = {}
      BY <1>1, <2>1 DEF SleepersOK, NobodyOversleeps
    <2>3. \A v \in Callers : doing'[v] # "wait_for_everything"
      BY <1>1, <2>1
    <2> QED
      BY <2>2, <2>3 DEF SleepersOK, NobodyOversleeps
  <1>3. CASE DestroyEnds(u)
    <2>1. doing[u] = "destroy" /\ doing' = [doing EXCEPT ![u] = "free"]
          /\ UNCHANGED <<m_dispatch_cv, m_stopping>>
      BY <1>3 DEF DestroyEnds, In, Returns
    <2>2. m_stopping
      BY <2>1 DEF Inv, UsersOK
    <2>3. m_dispatch_cv' = {}
      BY <2>1, <2>2, NobodySleepsAtTheEnd
    <2>4. \A v \in Callers : doing'[v] # "wait_for_everything"
      BY <1>1, <2>1, <2>2 DEF SleepersOK
    <2> QED
      BY <2>3, <2>4 DEF SleepersOK, NobodyOversleeps
  <1> QED
    BY <1>2, <1>3

(* Less is in use only after the step of a worker that was busy, and this  *)
(* step notifies all of them.                                              *)
LEMMA WorkerKeepsSleepers ==
    ASSUME Inv, SleepersOK, NEW w \in Workers, Worker(w)
    PROVE  SleepersOK'
  <1>1. ASSUME NotifyDispatch(w), UNCHANGED <<doing, m_stopping>>,
               w \notin busy => InUse' = InUse
        PROVE  SleepersOK'
    <2>1. CASE w \in busy
      <3>1. m_dispatch_cv' = {}
        BY <1>1, <2>1 DEF NotifyDispatch
      <3> QED
        BY <1>1, <3>1 DEF SleepersOK, NobodyOversleeps
    <2>2. CASE w \notin busy
      BY <1>1, <2>2, SleepersStay DEF NotifyDispatch
    <2> QED
      BY <2>1, <2>2
  <1>2. /\ m_queue \in Seq(Tasks) /\ Len(m_queue) \in Nat /\ m_busy_count \in Nat
        /\ w \notin busy => BusyAfter(w) = m_busy_count
    BY DEF Inv, Counts, WorkersTypeOK, BusyAfter
  <1>3. CASE WorkerExits(w) \/ WorkerSleeps(w)
    <2>1. NotifyDispatch(w) /\ UNCHANGED <<doing, m_queue, m_stopping>>
          /\ m_busy_count' = BusyAfter(w)
      BY <1>3 DEF WorkerExits, WorkerSleeps, Exits, Sleeps
    <2> QED
      BY <1>1, <1>2, <2>1 DEF InUse
  <1>4. CASE WorkerTakes(w)
    <2>1. NotifyDispatch(w) /\ UNCHANGED <<doing, m_stopping>> /\ m_queue # <<>>
          /\ m_busy_count' = BusyAfter(w) + 1 /\ m_queue' = Tail(m_queue)
      BY <1>4 DEF WorkerTakes, Takes
    <2>2. Len(m_queue') = Len(m_queue) - 1
      BY <1>2, <2>1
    <2>3. w \notin busy => InUse' = InUse
      BY <1>2, <2>1, <2>2 DEF InUse
    <2> QED
      BY <1>1, <2>1, <2>3
  <1>5. CASE TaskSignals(w) \/ SpuriousWakeup(w) \/ \E throws \in BOOLEAN : TaskEnds(w, throws)
    <2>1. UNCHANGED <<m_queue, m_busy_count, m_stopping, doing, m_dispatch_cv>>
      BY <1>5 DEF TaskSignals, Signals, SpuriousWakeup, WakesSpuriously, TaskEnds,
                  Ends, poolVars, userVars
    <2> QED
      BY <2>1, SleepersStay DEF InUse
  <1> QED
    BY <1>3, <1>4, <1>5 DEF Worker, ThreadLoop

-----------------------------------------------------------------------------
(* The steps of a TaskPool.                                                *)

LEMMA CallersKeepPromise ==
    ASSUME Inv, NEW u \in Callers, Caller(u)
    PROVE  [Pool!Next]_poolState
  <1>1. CASE Dispatch(u)
    <2> DEFINE s == <<arg[u]>>
    <2>1. arg[u] \in Tasks \ made /\ ~m_stopping
      BY <1>1 DEF Inv, UsersOK, Dispatch, In
    <2>2. s \in Seq(Tasks) /\ Len(s) = 1 /\ s[1] = arg[u]
      BY <2>1
    <2>3. /\ Enqueue(s, IF Missing(1) > 0 THEN 1 ELSE 0)
          /\ UNCHANGED <<m_finished, m_stopping, task>>
      BY <1>1 DEF Dispatch
    <2>4. /\ \A i \in 1..Len(s) : s[i] \notin made
          /\ \A i, j \in 1..Len(s) : s[i] = s[j] => i = j
      BY <2>1, <2>2
    <2> HIDE DEF s
    <2> QED
      BY <2>1, <2>2, <2>3, <2>4, EnqueueSubmits DEF Inv, Pool!Next
  <1>2. ASSUME \/ \E k \in Tasks : CallDispatch(u, k) \/ CallWait(u, k)
               \/ CallWaitForEverything(u) \/ WaitForEverythingEnds(u)
               \/ Waits(u) \/ WaitEnds(u) \/ SpuriousDispatchWakeup(u)
        PROVE  UNCHANGED poolState
    <2>1. UNCHANGED <<taskVars, poolVars, workerVars>>
      BY <1>2 DEF CallDispatch, CallWait, CallWaitForEverything, WaitForEverythingEnds,
                  Waits, WaitEnds, SpuriousDispatchWakeup
    <2> QED
      BY <2>1, SamePlacesSamePool DEF InTask, At, taskVars, poolVars, workerVars
  <1>3. CASE Destroy(u)
    BY <1>3, StopCloses DEF Destroy, Calls, Inv, taskVars, Pool!Next
  <1>4. CASE DestroyEnds(u)
    BY <1>4, RestIsAbandoned DEF DestroyEnds, In, Inv, UsersOK, Pool!Next
  <1> QED
    BY <1>1, <1>2, <1>3, <1>4 DEF Caller, Goes

LEMMA WorkersKeepPromise ==
    ASSUME Inv, NEW w \in Workers, Worker(w)
    PROVE  [Pool!Next]_poolState
  <1>1. CASE WorkerTakes(w)
    BY <1>1, TakesBegins DEF WorkerTakes, Inv, taskVars, Pool!Next
  <1>2. CASE TaskSignals(w)
    BY <1>2, SignalsEnd DEF TaskSignals, Inv, Pool!Next
  <1>3. ASSUME \/ WorkerExits(w) \/ WorkerSleeps(w) \/ SpuriousWakeup(w)
               \/ \E throws \in BOOLEAN : TaskEnds(w, throws)
        PROVE  UNCHANGED poolState
    <2>1. /\ InTask' = InTask /\ UNCHANGED <<m_queue, m_finished, m_stopping, task>>
      BY <1>3 DEF WorkerExits, WorkerSleeps, SpuriousWakeup, TaskEnds, Exits, Sleeps,
                  WakesSpuriously, Ends, InTask, At, Inv, Counts, WorkersTypeOK,
                  taskVars, poolVars
    <2> QED
      BY <2>1, SamePlacesSamePool
  <1> QED
    BY <1>1, <1>2, <1>3 DEF Worker, ThreadLoop

-----------------------------------------------------------------------------

LEMMA InvHolds == Spec => []Inv
  <1>1. Init => Inv
    <2> SUFFICES ASSUME Init PROVE Inv
      OBVIOUS
    <2>1. Counts /\ Once
      BY InitCounts, InitOnce DEF Init
    <2>2. UsersOK
      BY DEF Init, UsersOK
    <2>3. WithinMaxThreads
      BY RunnerAssumption DEF Init, WorkersInit, WithinMaxThreads, InUse
    <2> QED
      BY <2>1, <2>2, <2>3 DEF Inv
  <1>2. Inv /\ [Next]_vars => Inv'
    <2> SUFFICES ASSUME Inv, [Next]_vars PROVE Inv'
      OBVIOUS
    <2>1. CASE UNCHANGED vars
      <3>1. UNCHANGED <<taskVars, poolVars, workerVars, userVars>>
        BY <2>1 DEF vars
      <3>2. Counts'
        BY <3>1, StutterKeepsCounts DEF Inv
      <3>3. InTask' = InTask
        BY <3>1 DEF InTask, At, workerVars
      <3>4. Once'
        BY <3>1, <3>3, SamePlacesKeepOnce DEF Inv, taskVars, poolVars, workerVars
      <3>5. UsersOK' /\ WithinMaxThreads'
        BY <3>1 DEF Inv, UsersOK, WithinMaxThreads, InUse, taskVars, poolVars, userVars
      <3> QED
        BY <3>2, <3>4, <3>5 DEF Inv
    <2>2. ASSUME NEW u \in Callers, Caller(u)
          PROVE  Inv'
      BY <2>2, DispatchKeepsInv, CallsKeepInv, DestroyKeepsInv, DestroyEndsKeepsInv
         DEF Caller, Goes
    <2> QED
      BY <2>1, <2>2, WorkerKeepsInv DEF Next
  <1> QED
    BY <1>1, <1>2, PTL DEF Spec

LEMMA SleepersHold == Spec => []SleepersOK
  <1>1. Init => SleepersOK
    BY DEF Init, WorkersInit, SleepersOK, NobodyOversleeps
  <1>2. Inv /\ SleepersOK /\ [Next]_vars => SleepersOK'
    <2> SUFFICES ASSUME Inv, SleepersOK, [Next]_vars PROVE SleepersOK'
      OBVIOUS
    <2>1. CASE UNCHANGED vars
      <3>1. UNCHANGED <<m_queue, m_busy_count, m_stopping, doing, m_dispatch_cv>>
        BY <2>1 DEF vars, poolVars, userVars
      <3> QED
        BY <3>1, SleepersStay DEF InUse
    <2>2. ASSUME NEW u \in Callers, Caller(u)
          PROVE  SleepersOK'
      BY <2>2, DispatchKeepsSleepers, CallsKeepSleepers, DestroyKeepsSleepers
         DEF Caller, Goes
    <2> QED
      BY <2>1, <2>2, WorkerKeepsSleepers DEF Next
  <1> QED
    BY <1>1, <1>2, InvHolds, PTL DEF Spec

(* The variables have their types.                                         *)
THEOREM RunnerTypeCorrect == Spec => []TypeOK
  <1>1. Inv => TypeOK
    BY DEF Inv, TypeOK, Counts, UsersOK
  <1> QED
    BY <1>1, InvHolds, PTL

(* However many callers dispatch at once, no more than m_max_threads tasks *)
(* are queued or run.                                                      *)
THEOREM RunnerStaysWithinMaxThreads == Spec => []WithinMaxThreads
  <1>1. Inv => WithinMaxThreads
    BY DEF Inv
  <1> QED
    BY <1>1, InvHolds, PTL

(* No wakeup of a caller is lost: whoever sleeps in dispatch or in         *)
(* wait_for_everything has reason to.                                      *)
THEOREM RunnerWakesItsCallers == Spec => []NobodyOversleeps
  <1>1. SleepersOK => NobodyOversleeps
    BY DEF SleepersOK
  <1> QED
    BY <1>1, SleepersHold, PTL

(* A queued task never waits for the end of another.                       *)
THEOREM RunnerStrandsNothing == Spec => []NoTaskStranded
  <1>1. Inv => NoTaskStranded
    BY DEF Inv, Counts
  <1> QED
    BY <1>1, InvHolds, PTL

(* When wait_for_everything may return, every dispatched task is finished. *)
THEOREM EverythingMeansEverything == Spec => []EverythingIsDone
  <1>1. Inv => EverythingIsDone
    <2> SUFFICES ASSUME Inv, InUse = 0 PROVE made \subseteq m_finished
      BY DEF EverythingIsDone
    <2>1. Len(m_queue) = 0 /\ Cardinality(busy) = 0
      BY DEF Inv, Counts, WorkersTypeOK, InUse
    <2>2. busy \in SUBSET Workers
      BY DEF Inv, Counts, WorkersTypeOK
    <2>3. busy = {}
      BY <2>1, <2>2, SubsetsOfWorkers, FS_EmptySet
    <2>4. Running = {} /\ Queued = {}
      BY <2>1, <2>3 DEF Running, At, Queued, Inv, Counts, BusyPlaces
    <2> QED
      BY <2>4 DEF Inv, Once
  <1> QED
    BY <1>1, InvHolds, PTL

(* The runner promises the same as AsyncDispatcher, also for the callers   *)
(* that it makes wait: their tasks begin in the order they got in.         *)
THEOREM RunnerKeepsPromise == Spec => KeepsPromise
  <1>1. Init => Pool!Init
    BY DEF Init, WorkersInit, Running, At, Pool!Init
  <1>2. Inv /\ [Next]_vars => [Pool!Next]_poolState
    <2> SUFFICES ASSUME Inv, [Next]_vars
                 PROVE  [Pool!Next]_poolState
      OBVIOUS
    <2>1. CASE UNCHANGED vars
      <3>1. UNCHANGED <<taskVars, poolVars, workerVars>>
        BY <2>1 DEF vars
      <3> QED
        BY <3>1, SamePlacesSamePool DEF InTask, At, taskVars, poolVars, workerVars
    <2> QED
      BY <2>1, CallersKeepPromise, WorkersKeepPromise DEF Next
  <1> QED
    BY <1>1, <1>2, InvHolds, PTL DEF Spec, KeepsPromise, Pool!Spec, poolState
=============================================================================
