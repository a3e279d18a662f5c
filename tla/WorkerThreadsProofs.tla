------------------------- MODULE WorkerThreadsProofs -------------------------
(***************************************************************************)
(* The counting invariant that AsyncDispatcher and ParallelTaskRunner      *)
(* share, and that each step of WorkerThreads preserves it.                *)
(***************************************************************************)
EXTENDS WorkerThreads, FiniteSetTheorems, TLAPS

(* A worker's flag busy, and its task, go with its place.                  *)
BusyPlaces ==
    /\ \A w \in busy : worker[w] \in {"run", "signal", "loop"}
    /\ \A w \in Workers :
         worker[w] \in {"run", "signal"} => w \in busy /\ task[w] \in Tasks

ExitedAfterStop == m_stopping \/ At("exited") = {}

Counts ==
    /\ WorkersTypeOK
    /\ BusyPlaces /\ ExitedAfterStop
    /\ m_busy_count = Cardinality(busy)
    /\ EnoughThreads /\ NoTaskStranded

-----------------------------------------------------------------------------

LEMMA SubsetsOfWorkers ==
    ASSUME NEW S \in SUBSET Workers
    PROVE  IsFiniteSet(S) /\ Cardinality(S) \in Nat
  BY WorkersAssumption, FS_Subset, FS_CardinalityType

(* Disjoint sets of workers add up, and any two sets at most.              *)
LEMMA SizeOfUnion ==
    ASSUME NEW S \in SUBSET Workers, NEW T \in SUBSET Workers
    PROVE  /\ Cardinality(S \cup T) <= Cardinality(S) + Cardinality(T)
           /\ S \cap T = {} => Cardinality(S \cup T) = Cardinality(S) + Cardinality(T)
  <1>1. /\ IsFiniteSet(S) /\ IsFiniteSet(T)
        /\ Cardinality(S) \in Nat /\ Cardinality(T) \in Nat
        /\ Cardinality(S \cap T) \in Nat
    BY SubsetsOfWorkers
  <1>2. Cardinality(S \cup T) = Cardinality(S) + Cardinality(T) - Cardinality(S \cap T)
    BY <1>1, FS_Union
  <1>3. S \cap T = {} => Cardinality(S \cap T) = 0
    BY FS_EmptySet
  <1> QED
    BY <1>1, <1>2, <1>3

LEMMA SizeOfSubset ==
    ASSUME NEW T \in SUBSET Workers, NEW S \in SUBSET T
    PROVE  Cardinality(S) <= Cardinality(T)
  BY SubsetsOfWorkers, FS_Subset

(* Unless they are stopping, threads that are not busy are at m_lock or    *)
(* asleep.                                                                 *)
LEMMA IdleThreads ==
    ASSUME Counts, ~m_stopping
    PROVE  Cardinality(m_threads)
             <= m_busy_count + Cardinality(At("loop")) + Cardinality(At("asleep"))
  <1> DEFINE L == At("loop")  A == At("asleep")
  <1>1. L \in SUBSET Workers /\ A \in SUBSET Workers /\ busy \in SUBSET Workers
    BY DEF At, Counts, WorkersTypeOK
  <1>2. m_threads \in SUBSET (busy \cup (L \cup A))
    BY DEF m_threads, At, Counts, WorkersTypeOK, BusyPlaces, ExitedAfterStop
  <1> HIDE DEF L, A
  <1>3. Cardinality(m_threads) <= Cardinality(busy \cup (L \cup A))
    BY <1>1, <1>2, SizeOfSubset
  <1>4. Cardinality(busy \cup (L \cup A)) <= Cardinality(busy) + Cardinality(L \cup A)
    BY <1>1, SizeOfUnion
  <1>5. Cardinality(L \cup A) <= Cardinality(L) + Cardinality(A)
    BY <1>1, SizeOfUnion
  <1>6. m_threads \in SUBSET Workers
    BY <1>1, <1>2
  <1>7. /\ Cardinality(m_threads) \in Nat /\ Cardinality(busy) \in Nat
        /\ Cardinality(L) \in Nat /\ Cardinality(A) \in Nat
        /\ Cardinality(L \cup A) \in Nat /\ Cardinality(busy \cup (L \cup A)) \in Nat
    BY <1>1, <1>6, SubsetsOfWorkers
  <1>8. m_busy_count = Cardinality(busy)
    BY DEF Counts
  <1>9. Cardinality(m_threads) <= m_busy_count + Cardinality(L) + Cardinality(A)
    BY <1>3, <1>4, <1>5, <1>7, <1>8
  <1> QED
    BY <1>9 DEF L, A

(* One task more is short of one thread at most.                           *)
LEMMA ShortOfOne ==
    ASSUME Counts
    PROVE  (IF Missing(1) > 0 THEN 1 ELSE 0) = Missing(1)
  <1>1. /\ Len(m_queue) \in Nat /\ m_busy_count \in Nat
        /\ Cardinality(m_threads) \in Nat
    <2>1. m_threads \in SUBSET Workers
      BY DEF m_threads
    <2> QED
      BY <2>1, SubsetsOfWorkers DEF Counts, WorkersTypeOK
  <1> QED
    BY <1>1 DEF Missing, Counts, EnoughThreads

-----------------------------------------------------------------------------

LEMMA InitCounts ==
    ASSUME WorkersInit
    PROVE  Counts
  <1>1. WorkersTypeOK
    <2>1. <<>> \in Seq(Tasks)
      OBVIOUS
    <2>2. worker \in [Workers -> {"none", "loop", "asleep", "run", "signal", "exited"}]
      BY DEF WorkersInit
    <2>3. task \in [Workers -> Tasks \cup {NoTask}]
      BY DEF WorkersInit
    <2> QED
      BY <2>1, <2>2, <2>3 DEF WorkersInit, WorkersTypeOK
  <1>2. BusyPlaces /\ ExitedAfterStop
    BY DEF WorkersInit, BusyPlaces, ExitedAfterStop, At
  <1>3. m_busy_count = Cardinality(busy)
    BY FS_EmptySet DEF WorkersInit
  <1>4. EnoughThreads /\ NoTaskStranded
    <2>1. m_threads \in SUBSET Workers /\ At("loop") \in SUBSET Workers
      BY DEF m_threads, At
    <2>2. Cardinality(m_threads) \in Nat /\ Cardinality(At("loop")) \in Nat
      BY <2>1, SubsetsOfWorkers
    <2>3. Len(m_queue) = 0 /\ m_busy_count = 0
      BY DEF WorkersInit
    <2> QED
      BY <2>2, <2>3 DEF EnoughThreads, NoTaskStranded
  <1> QED
    BY <1>1, <1>2, <1>3, <1>4 DEF Counts

(* Tasks are queued with as many new threads as they are short of.         *)
LEMMA EnqueueKeepsCounts ==
    ASSUME Counts, NEW s \in Seq(Tasks), ~m_stopping,
           Enqueue(s, Missing(Len(s))),
           UNCHANGED <<m_finished, m_exception, m_stopped_with_error,
                       m_busy_count, m_stopping, task, busy>>
    PROVE  Counts'
  <1> DEFINE n == Len(s)  short == Missing(n)
             None == At("none")  Asleep == At("asleep")  Loop == At("loop")
  <1>1. PICK new \in SUBSET None, woken \in SUBSET Asleep :
          /\ Cardinality(new) = short /\ Woken(n, woken)
          /\ StartThreads(new \cup woken)
    BY DEF Enqueue
  <1>2. n \in Nat /\ m_queue' \in Seq(Tasks) /\ Len(m_queue') = Len(m_queue) + n
        /\ Len(m_queue) \in Nat /\ m_busy_count \in Nat
    BY DEF Enqueue, Counts, WorkersTypeOK
  <1>3. WorkersTypeOK'
    <2>1. made' \subseteq Tasks
      BY DEF Enqueue, Counts, WorkersTypeOK
    <2>2. worker' \in [Workers -> {"none", "loop", "asleep", "run", "signal", "exited"}]
      BY <1>1 DEF StartThreads, Counts, WorkersTypeOK
    <2> QED
      BY <1>2, <2>1, <2>2 DEF Counts, WorkersTypeOK
  <1>4. BusyPlaces' /\ ExitedAfterStop'
    BY <1>1 DEF StartThreads, At, Counts, WorkersTypeOK, BusyPlaces, ExitedAfterStop
  <1>5. (m_busy_count = Cardinality(busy))'
    BY DEF Counts
  <1>6. m_threads' = m_threads \cup new /\ m_threads \cap new = {}
    BY <1>1 DEF m_threads, At, StartThreads, Counts, WorkersTypeOK
  <1>7. Loop' = Loop \cup (new \cup woken) /\ Loop \cap (new \cup woken) = {}
        /\ new \cap woken = {}
    BY <1>1 DEF At, StartThreads, Counts, WorkersTypeOK
  <1>8. /\ Loop \in SUBSET Workers /\ new \in SUBSET Workers
        /\ woken \in SUBSET Workers /\ m_threads \in SUBSET Workers
        /\ Asleep \in SUBSET Workers
    BY <1>1 DEF At, m_threads
  <1>w. Cardinality(woken) = IF n < Cardinality(Asleep) THEN n ELSE Cardinality(Asleep)
    BY <1>1 DEF Woken
  <1>s. short = IF Len(m_queue) + n + m_busy_count - Cardinality(m_threads) > 0
                THEN Len(m_queue) + n + m_busy_count - Cardinality(m_threads) ELSE 0
    BY DEF Missing
  <1>i. Cardinality(m_threads)
          <= m_busy_count + Cardinality(Loop) + Cardinality(Asleep)
    BY IdleThreads
  <1>c. Cardinality(new) = short
    BY <1>1
  <1>q. NoTaskStranded
    BY DEF Counts
  <1>r. Len(m_queue) <= Cardinality(Loop)
    BY <1>q DEF NoTaskStranded
  <1>l. Loop' = At("loop")'
    OBVIOUS
  <1> HIDE DEF n, short, None, Asleep, Loop
  <1>9. /\ Cardinality(Loop) \in Nat /\ Cardinality(new) \in Nat
        /\ Cardinality(woken) \in Nat /\ Cardinality(m_threads) \in Nat
        /\ Cardinality(Asleep) \in Nat
    BY <1>8, SubsetsOfWorkers
  <1>10. Cardinality(m_threads') = Cardinality(m_threads) + short
    BY <1>6, <1>8, <1>c, SizeOfUnion
  <1>11. Cardinality(Loop') = Cardinality(Loop) + short + Cardinality(woken)
    <2>1. Cardinality(new \cup woken) = short + Cardinality(woken)
      BY <1>7, <1>8, <1>c, SizeOfUnion
    <2>2. Cardinality(Loop \cup (new \cup woken))
            = Cardinality(Loop) + Cardinality(new \cup woken)
      BY <1>7, <1>8, SizeOfUnion
    <2>3. short \in Nat
      BY <1>9, <1>c
    <2> QED
      BY <1>7, <1>9, <2>1, <2>2, <2>3
  <1>12. Len(m_queue') + m_busy_count <= Cardinality(m_threads')
    BY <1>2, <1>9, <1>10, <1>s
  <1>13. EnoughThreads'
    BY <1>12 DEF EnoughThreads
  <1>14. Len(m_queue') <= Cardinality(Loop')
    BY <1>2, <1>9, <1>11, <1>w, <1>s, <1>i, <1>r
  <1>15. NoTaskStranded'
    BY <1>14, <1>l DEF NoTaskStranded
  <1> QED
    BY <1>3, <1>4, <1>5, <1>13, <1>15 DEF Counts

(* Starting or waking threads leaves no fewer of them.                     *)
LEMMA StartKeepsCounts ==
    ASSUME Counts, NEW new \in SUBSET (At("none") \cup At("asleep")),
           StartThreads(new), UNCHANGED <<taskVars, m_queue, m_busy_count, task, busy>>,
           m_stopping' \in BOOLEAN, m_stopping => m_stopping'
    PROVE  Counts'
  <1>1. WorkersTypeOK'
    BY DEF StartThreads, Counts, WorkersTypeOK, taskVars
  <1>2. BusyPlaces' /\ ExitedAfterStop'
    BY DEF StartThreads, At, Counts, WorkersTypeOK, BusyPlaces, ExitedAfterStop
  <1>3. m_threads \in SUBSET m_threads' /\ At("loop") \in SUBSET At("loop")'
    BY DEF m_threads, At, StartThreads, Counts, WorkersTypeOK
  <1>4. m_threads' \in SUBSET Workers /\ At("loop")' \in SUBSET Workers
    BY DEF m_threads, At
  <1> DEFINE T == m_threads  L == At("loop")
  <1>5. /\ Cardinality(T) \in Nat /\ Cardinality(L) \in Nat
        /\ Cardinality(T') \in Nat /\ Cardinality(L') \in Nat
    BY <1>3, <1>4, SubsetsOfWorkers
  <1>6. Cardinality(T) <= Cardinality(T') /\ Cardinality(L) <= Cardinality(L')
    BY <1>3, <1>4, SizeOfSubset
  <1>7. Len(m_queue) + m_busy_count <= Cardinality(T)
        /\ (~m_stopping => Len(m_queue) <= Cardinality(L))
    BY DEF Counts, EnoughThreads, NoTaskStranded
  <1>8. Len(m_queue) \in Nat /\ m_busy_count \in Nat
    BY DEF Counts, WorkersTypeOK
  <1> HIDE DEF T, L
  <1>9. Len(m_queue') + m_busy_count' <= Cardinality(T')
        /\ (~m_stopping' => Len(m_queue') <= Cardinality(L'))
    BY <1>5, <1>6, <1>7, <1>8
  <1>10. EnoughThreads' /\ NoTaskStranded'
    BY <1>9 DEF EnoughThreads, NoTaskStranded, T, L
  <1> QED
    BY <1>1, <1>2, <1>10 DEF Counts

(* A worker that comes round gives up its place among the busy.            *)
LEMMA BusyAfterCounts ==
    ASSUME Counts, NEW w \in Workers
    PROVE  BusyAfter(w) \in Nat /\ BusyAfter(w) = Cardinality(busy \ {w})
           /\ BusyAfter(w) <= m_busy_count
  <1>1. busy \in SUBSET Workers /\ m_busy_count = Cardinality(busy)
    BY DEF Counts, WorkersTypeOK
  <1>2. IsFiniteSet(busy) /\ Cardinality(busy) \in Nat
        /\ Cardinality(busy \ {w}) \in Nat
    BY <1>1, SubsetsOfWorkers
  <1>3. Cardinality(busy \ {w}) =
          IF w \in busy THEN Cardinality(busy) - 1 ELSE Cardinality(busy)
    BY <1>2, FS_RemoveElement
  <1> QED
    BY <1>1, <1>2, <1>3 DEF BusyAfter

LEMMA ExitsKeepsCounts ==
    ASSUME Counts, NEW w \in Workers, Exits(w), UNCHANGED taskVars
    PROVE  Counts'
  <1>1. BusyAfter(w) \in Nat /\ BusyAfter(w) = Cardinality(busy \ {w})
        /\ BusyAfter(w) <= m_busy_count
    BY BusyAfterCounts
  <1>2. WorkersTypeOK'
    BY <1>1 DEF Exits, Counts, WorkersTypeOK, taskVars
  <1>3. BusyPlaces' /\ ExitedAfterStop' /\ NoTaskStranded'
    BY DEF Exits, At, Counts, WorkersTypeOK, BusyPlaces, ExitedAfterStop,
           NoTaskStranded
  <1>4. (m_busy_count = Cardinality(busy))'
    BY <1>1 DEF Exits
  <1>5. m_threads' = m_threads
    BY DEF Exits, m_threads, At, Counts, WorkersTypeOK
  <1>6. EnoughThreads'
    <2>1. m_threads \in SUBSET Workers
      BY DEF m_threads
    <2>2. Cardinality(m_threads) \in Nat
      BY <2>1, SubsetsOfWorkers
    <2>3. m_queue' = m_queue /\ m_busy_count' = BusyAfter(w)
      BY DEF Exits
    <2>4. Len(m_queue) \in Nat /\ m_busy_count \in Nat
      BY DEF Counts, WorkersTypeOK
    <2>5. Len(m_queue) + m_busy_count <= Cardinality(m_threads)
      BY DEF Counts, EnoughThreads
    <2> HIDE DEF m_threads
    <2> QED
      BY <1>1, <1>5, <2>2, <2>3, <2>4, <2>5 DEF EnoughThreads
  <1> QED
    BY <1>2, <1>3, <1>4, <1>6 DEF Counts

LEMMA SleepsKeepsCounts ==
    ASSUME Counts, NEW w \in Workers, Sleeps(w), UNCHANGED taskVars
    PROVE  Counts'
  <1>1. BusyAfter(w) \in Nat /\ BusyAfter(w) = Cardinality(busy \ {w})
        /\ BusyAfter(w) <= m_busy_count
    BY BusyAfterCounts
  <1>2. WorkersTypeOK'
    BY <1>1 DEF Sleeps, Counts, WorkersTypeOK, taskVars
  <1>3. BusyPlaces' /\ ExitedAfterStop'
    BY DEF Sleeps, At, Counts, WorkersTypeOK, BusyPlaces, ExitedAfterStop
  <1>4. (m_busy_count = Cardinality(busy))'
    BY <1>1 DEF Sleeps
  <1>5. m_threads' = m_threads /\ m_threads \in SUBSET Workers
    BY DEF Sleeps, m_threads, At, Counts, WorkersTypeOK
  <1>6. At("loop")' \in SUBSET Workers
    BY DEF At
  <1>7. Cardinality(m_threads) \in Nat /\ Cardinality(At("loop")') \in Nat
    BY <1>5, <1>6, SubsetsOfWorkers
  <1>8. /\ m_queue = <<>> /\ Len(m_queue) = 0 /\ m_queue' = m_queue
        /\ m_busy_count' = BusyAfter(w) /\ m_busy_count \in Nat
    BY DEF Sleeps, Counts, WorkersTypeOK
  <1>9. Len(m_queue) + m_busy_count <= Cardinality(m_threads)
    BY DEF Counts, EnoughThreads
  <1>10. EnoughThreads'
    BY <1>1, <1>5, <1>7, <1>8, <1>9 DEF EnoughThreads
  <1>11. NoTaskStranded'
    BY <1>7, <1>8 DEF NoTaskStranded
  <1> QED
    BY <1>2, <1>3, <1>4, <1>10, <1>11 DEF Counts

LEMMA TakesKeepsCounts ==
    ASSUME Counts, NEW w \in Workers, Takes(w), UNCHANGED taskVars
    PROVE  Counts'
  <1>1. BusyAfter(w) \in Nat /\ BusyAfter(w) = Cardinality(busy \ {w})
        /\ BusyAfter(w) <= m_busy_count
    BY BusyAfterCounts
  <1>2. /\ m_queue \in Seq(Tasks) /\ m_queue # <<>>
        /\ m_queue' = Tail(m_queue) /\ m_busy_count \in Nat
        /\ m_busy_count' = BusyAfter(w) + 1 /\ busy' = busy \cup {w}
    BY DEF Takes, Counts, WorkersTypeOK
  <1>3. /\ Head(m_queue) \in Tasks /\ m_queue' \in Seq(Tasks)
        /\ Len(m_queue) \in Nat /\ Len(m_queue') = Len(m_queue) - 1
    BY <1>2
  <1>4. WorkersTypeOK'
    BY <1>1, <1>2, <1>3 DEF Takes, Counts, WorkersTypeOK, taskVars
  <1>5. BusyPlaces' /\ ExitedAfterStop'
    BY DEF Takes, At, Counts, WorkersTypeOK, BusyPlaces, ExitedAfterStop
  <1>6. (m_busy_count = Cardinality(busy))'
    <2>1. busy \ {w} \in SUBSET Workers /\ busy' = (busy \ {w}) \cup {w}
      BY <1>2 DEF Counts, WorkersTypeOK
    <2>2. IsFiniteSet(busy \ {w})
      BY <2>1, SubsetsOfWorkers
    <2>3. Cardinality((busy \ {w}) \cup {w}) = Cardinality(busy \ {w}) + 1
      BY <2>2, FS_AddElement
    <2> QED
      BY <1>1, <1>2, <2>1, <2>3
  <1>7. m_threads' = m_threads /\ m_threads \in SUBSET Workers
    BY DEF Takes, m_threads, At, Counts, WorkersTypeOK
  <1>8. At("loop")' = At("loop") \ {w} /\ w \in At("loop")
        /\ At("loop") \in SUBSET Workers
    BY DEF Takes, At, Counts, WorkersTypeOK
  <1>9. Cardinality(m_threads) \in Nat /\ IsFiniteSet(At("loop"))
        /\ Cardinality(At("loop")) \in Nat
    BY <1>7, <1>8, SubsetsOfWorkers
  <1>10. Cardinality(At("loop")') = Cardinality(At("loop")) - 1
    BY <1>8, <1>9, FS_RemoveElement
  <1>11. Len(m_queue) + m_busy_count <= Cardinality(m_threads)
    BY DEF Counts, EnoughThreads
  <1>12. EnoughThreads'
    BY <1>1, <1>2, <1>3, <1>7, <1>9, <1>11 DEF EnoughThreads
  <1>13. NoTaskStranded'
    BY <1>3, <1>9, <1>10 DEF NoTaskStranded, Counts, Takes
  <1> QED
    BY <1>4, <1>5, <1>6, <1>12, <1>13 DEF Counts

(* Ends and Signals take a worker to another place among the running, or   *)
(* to the loop, and leave the counters alone.                              *)
LEMMA MovesKeepCounts ==
    ASSUME Counts, NEW w \in Workers, worker[w] \in {"run", "signal"},
           NEW place \in {"signal", "loop"},
           worker' = [worker EXCEPT ![w] = place],
           UNCHANGED <<poolVars, task, busy>>, WorkersTypeOK'
    PROVE  Counts'
  <1>1. BusyPlaces' /\ ExitedAfterStop'
    BY DEF At, Counts, WorkersTypeOK, BusyPlaces, ExitedAfterStop, poolVars
  <1>2. (m_busy_count = Cardinality(busy))'
    BY DEF Counts, poolVars
  <1>3. m_threads' = m_threads
    BY DEF m_threads, At, Counts, WorkersTypeOK
  <1>4. EnoughThreads'
    BY <1>3 DEF EnoughThreads, Counts, poolVars
  <1>5. At("loop") \in SUBSET At("loop")' /\ At("loop")' \in SUBSET Workers
    BY DEF At, Counts, WorkersTypeOK
  <1>6. /\ Cardinality(At("loop")) <= Cardinality(At("loop")')
        /\ Cardinality(At("loop")) \in Nat /\ Cardinality(At("loop")') \in Nat
    BY <1>5, SizeOfSubset, SubsetsOfWorkers
  <1>7. Len(m_queue) \in Nat /\ m_queue' = m_queue /\ m_stopping' = m_stopping
    BY DEF Counts, WorkersTypeOK, poolVars
  <1>8. NoTaskStranded'
    BY <1>6, <1>7 DEF NoTaskStranded, Counts
  <1> QED
    BY <1>1, <1>2, <1>4, <1>8 DEF Counts

LEMMA EndsKeepsCounts ==
    ASSUME Counts, NEW w \in Workers, NEW throws \in BOOLEAN, Ends(w, throws),
           m_stopped_with_error' \subseteq Tasks
    PROVE  Counts'
  <1>1. task[w] \in Tasks /\ worker[w] = "run"
    BY DEF Ends, Counts, BusyPlaces
  <1>2. WorkersTypeOK'
    BY <1>1 DEF Ends, Counts, WorkersTypeOK, poolVars
  <1>3. worker' = [worker EXCEPT ![w] = "signal"] /\ UNCHANGED <<poolVars, task, busy>>
    BY DEF Ends
  <1> QED
    BY <1>1, <1>2, <1>3, MovesKeepCounts

LEMMA SignalsKeepsCounts ==
    ASSUME Counts, NEW w \in Workers, Signals(w)
    PROVE  Counts'
  <1>1. task[w] \in Tasks /\ worker[w] = "signal"
    BY DEF Signals, Counts, BusyPlaces
  <1>2. WorkersTypeOK'
    BY <1>1 DEF Signals, Counts, WorkersTypeOK, poolVars
  <1>3. worker' = [worker EXCEPT ![w] = "loop"] /\ UNCHANGED <<poolVars, task, busy>>
    BY DEF Signals
  <1> QED
    BY <1>1, <1>2, <1>3, MovesKeepCounts

LEMMA WakesKeepsCounts ==
    ASSUME Counts, NEW w \in Workers, WakesSpuriously(w)
    PROVE  Counts'
  <1>1. StartThreads({w}) /\ {w} \in SUBSET (At("none") \cup At("asleep"))
    BY DEF WakesSpuriously, StartThreads, At, Counts, WorkersTypeOK
  <1>2. UNCHANGED <<taskVars, m_queue, m_busy_count, task, busy>>
        /\ m_stopping' = m_stopping /\ m_stopping \in BOOLEAN
    BY DEF WakesSpuriously, poolVars, Counts, WorkersTypeOK
  <1> QED
    BY <1>1, <1>2, StartKeepsCounts

LEMMA StopKeepsCounts ==
    ASSUME Counts, StopWorkers,
           UNCHANGED <<taskVars, m_queue, m_busy_count, task, busy>>
    PROVE  Counts'
  <1>1. StartThreads(At("asleep")) /\ m_stopping' = TRUE
    BY DEF StopWorkers
  <1> QED
    BY <1>1, StartKeepsCounts

LEMMA SignalTheRestKeepsCounts ==
    ASSUME Counts, SignalTheRest,
           UNCHANGED <<made, m_exception, m_stopped_with_error, m_busy_count,
                       m_stopping, workerVars>>
    PROVE  Counts'
  <1>1. Queued \subseteq Tasks /\ <<>> \in Seq(Tasks)
    BY DEF Queued, Counts, WorkersTypeOK
  <1>2. WorkersTypeOK'
    BY <1>1 DEF SignalTheRest, Counts, WorkersTypeOK, workerVars
  <1>3. BusyPlaces' /\ ExitedAfterStop' /\ (m_busy_count = Cardinality(busy))'
    BY DEF At, Counts, BusyPlaces, ExitedAfterStop, workerVars
  <1>4. m_threads' = m_threads /\ At("loop")' = At("loop")
        /\ m_threads \in SUBSET Workers /\ At("loop") \in SUBSET Workers
    BY DEF m_threads, At, workerVars
  <1>5. Cardinality(m_threads) \in Nat /\ Cardinality(At("loop")) \in Nat
    BY <1>4, SubsetsOfWorkers
  <1>6. Len(m_queue') = 0 /\ Len(m_queue) \in Nat /\ m_busy_count \in Nat
        /\ m_busy_count' = m_busy_count
    BY DEF SignalTheRest, Counts, WorkersTypeOK
  <1>7. EnoughThreads' /\ NoTaskStranded'
    BY <1>4, <1>5, <1>6 DEF Counts, EnoughThreads, NoTaskStranded
  <1> QED
    BY <1>2, <1>3, <1>7 DEF Counts

LEMMA StutterKeepsCounts ==
    ASSUME Counts, UNCHANGED <<taskVars, poolVars, workerVars>>
    PROVE  Counts'
  BY DEF Counts, WorkersTypeOK, BusyPlaces, ExitedAfterStop, EnoughThreads,
         NoTaskStranded, m_threads, At, taskVars, poolVars, workerVars

-----------------------------------------------------------------------------
(* Every task that was dispatched is at one place: in the queue, at a      *)
(* worker or finished.                                                     *)

Once == TasksRunOnce /\ Queued \cup Running \cup m_finished = made

InTask == At("run") \cup At("signal")

LEMMA InitOnce ==
    ASSUME WorkersInit
    PROVE  Once
  <1>1. Queued = {} /\ Running = {} /\ Len(m_queue) = 0
    BY DEF WorkersInit, Queued, Running, At
  <1>2. At("run") \cup At("signal") = {}
    BY DEF WorkersInit, At
  <1> QED
    BY <1>1, <1>2 DEF Once, TasksRunOnce, WorkersInit

(* What does not touch the queue, the tasks at workers or what is finished *)
(* keeps it.                                                               *)
LEMMA SamePlacesKeepOnce ==
    ASSUME Once, InTask' = InTask, UNCHANGED <<made, m_finished, m_queue, task>>
    PROVE  Once'
  <1>1. Queued' = Queued
    BY DEF Queued
  <1>2. Running' = Running
    BY DEF Running, InTask
  <1>3. TasksRunOnce'
    BY <1>1, <1>2 DEF TasksRunOnce, Once, InTask
  <1> QED
    BY <1>1, <1>2, <1>3 DEF Once

LEMMA EnqueueKeepsOnce ==
    ASSUME Counts, Once, NEW s \in Seq(Tasks), NEW short, Enqueue(s, short),
           \A i \in 1..Len(s) : s[i] \notin made,
           \A i, j \in 1..Len(s) : s[i] = s[j] => i = j,
           UNCHANGED <<m_finished, task>>
    PROVE  Once'
  <1> DEFINE new == {s[i] : i \in 1..Len(s)}
  <1>1. m_queue \in Seq(Tasks) /\ m_queue' = m_queue \o s /\ made' = made \cup new
    BY DEF Enqueue, Counts, WorkersTypeOK
  <1>2. InTask' = InTask
    BY DEF InTask, At, Enqueue, StartThreads, Counts, WorkersTypeOK
  <1>3. Running' = Running
    BY <1>2 DEF Running, InTask
  <1>4. /\ Len(m_queue') = Len(m_queue) + Len(s)
        /\ Len(m_queue) \in Nat /\ Len(s) \in Nat
        /\ \A i \in 1..Len(m_queue') :
             m_queue'[i] = IF i <= Len(m_queue) THEN m_queue[i] ELSE s[i - Len(m_queue)]
    BY <1>1
  <1>5. Queued' = Queued \cup new
    <2>1. Queued' \subseteq Queued \cup new
      BY <1>4 DEF Queued
    <2>2. ASSUME NEW i \in 1..Len(m_queue)
          PROVE  m_queue[i] \in Queued'
      <3>1. i \in 1..Len(m_queue') /\ m_queue'[i] = m_queue[i]
        BY <1>4
      <3> QED
        BY <3>1 DEF Queued
    <2>3. ASSUME NEW i \in 1..Len(s)
          PROVE  s[i] \in Queued'
      <3>1. Len(m_queue) + i \in 1..Len(m_queue')
            /\ m_queue'[Len(m_queue) + i] = s[i]
        BY <1>4
      <3> QED
        BY <3>1 DEF Queued
    <2>4. Queued \subseteq Queued'
      BY <2>2 DEF Queued
    <2>5. new \subseteq Queued'
      BY <2>3
    <2> QED
      BY <2>1, <2>4, <2>5
  <1>6. Queued \cap new = {} /\ Running \cap new = {} /\ m_finished \cap new = {}
    BY DEF Once
  <1>7. ASSUME NEW i \in 1..Len(m_queue'), NEW j \in 1..Len(m_queue'),
               m_queue'[i] = m_queue'[j]
        PROVE  i = j
    <2>1. CASE i <= Len(m_queue) /\ j <= Len(m_queue)
      BY <1>4, <1>7, <2>1 DEF Once, TasksRunOnce
    <2>2. CASE ~(i <= Len(m_queue)) /\ ~(j <= Len(m_queue))
      BY <1>4, <1>7, <2>2
    <2>3. CASE i <= Len(m_queue) /\ ~(j <= Len(m_queue))
      <3>1. m_queue'[i] \in Queued /\ m_queue'[j] \in new
        BY <1>4, <2>3 DEF Queued
      <3> QED
        BY <1>6, <1>7, <3>1
    <2>4. CASE ~(i <= Len(m_queue)) /\ j <= Len(m_queue)
      <3>1. m_queue'[j] \in Queued /\ m_queue'[i] \in new
        BY <1>4, <2>4 DEF Queued
      <3> QED
        BY <1>6, <1>7, <3>1
    <2> QED
      BY <2>1, <2>2, <2>3, <2>4
  <1>8. TasksRunOnce'
    <2> HIDE DEF new
    <2>1. (Queued' \cup Running') \cap m_finished' = {} /\ Queued' \cap Running' = {}
      BY <1>3, <1>5, <1>6 DEF Once, TasksRunOnce
    <2>2. \A v, w \in InTask' : task'[v] = task'[w] => v = w
      BY <1>2 DEF Once, TasksRunOnce, InTask
    <2> QED
      BY <1>7, <2>1, <2>2 DEF TasksRunOnce, InTask
  <1> QED
    BY <1>1, <1>3, <1>5, <1>8 DEF Once

LEMMA TakenRuns ==
    ASSUME Counts, NEW w \in Workers, Takes(w)
    PROVE  Running' = Running \cup {Head(m_queue)}
  <1>1. InTask' = InTask \cup {w} /\ w \notin InTask /\ InTask \subseteq Workers
        /\ task' = [task EXCEPT ![w] = Head(m_queue)]
    BY DEF InTask, At, Takes, Counts, WorkersTypeOK
  <1>2. task \in [Workers -> Tasks \cup {NoTask}]
    BY DEF Counts, WorkersTypeOK
  <1>3. Running = {task[v] : v \in InTask} /\ Running' = {task'[v] : v \in InTask'}
    BY DEF Running, InTask
  <1>4. task'[w] = Head(m_queue) /\ \A v \in InTask : task'[v] = task[v]
    BY <1>1, <1>2
  <1> QED
    BY <1>1, <1>3, <1>4

LEMMA TakesKeepsOnce ==
    ASSUME Counts, Once, NEW w \in Workers, Takes(w), UNCHANGED taskVars
    PROVE  Once'
  <1> DEFINE k == Head(m_queue)
  <1>1. /\ m_queue \in Seq(Tasks) /\ m_queue # <<>> /\ m_queue' = Tail(m_queue)
        /\ task' = [task EXCEPT ![w] = k]
    BY DEF Takes, Counts, WorkersTypeOK
  <1>2. InTask' = InTask \cup {w} /\ w \notin InTask /\ task' = [task EXCEPT ![w] = k]
        /\ InTask \subseteq Workers
    BY DEF InTask, At, Takes, Counts, WorkersTypeOK
  <1>3. /\ Len(m_queue) \in Nat /\ Len(m_queue) > 0
        /\ Len(m_queue') = Len(m_queue) - 1 /\ k = m_queue[1]
        /\ \A i \in 1..Len(m_queue') : m_queue'[i] = m_queue[i + 1]
    BY <1>1
  <1>4. k \in Queued /\ Queued' = Queued \ {k}
    <2>1. k \in Queued
      BY <1>3 DEF Queued
    <2>2. ASSUME NEW i \in 1..Len(m_queue')
          PROVE  m_queue'[i] \in Queued \ {k}
      <3>1. i + 1 \in 1..Len(m_queue) /\ 1 \in 1..Len(m_queue) /\ i + 1 # 1
        BY <1>3
      <3>2. m_queue[i + 1] # m_queue[1]
        BY <3>1 DEF Once, TasksRunOnce
      <3> QED
        BY <1>3, <3>1, <3>2 DEF Queued
    <2>3. ASSUME NEW i \in 1..Len(m_queue), m_queue[i] # k
          PROVE  m_queue[i] \in Queued'
      <3>1. i - 1 \in 1..Len(m_queue') /\ m_queue'[i - 1] = m_queue[(i - 1) + 1]
            /\ (i - 1) + 1 = i
        BY <1>3, <2>3
      <3> QED
        BY <3>1 DEF Queued
    <2> QED
      BY <2>1, <2>2, <2>3 DEF Queued
  <1>5. Running' = Running \cup {k}
    BY TakenRuns
  <1> HIDE DEF k
  <1>6. \A i, j \in 1..Len(m_queue') : m_queue'[i] = m_queue'[j] => i = j
    <2> TAKE i, j \in 1..Len(m_queue')
    <2>1. i + 1 \in 1..Len(m_queue) /\ j + 1 \in 1..Len(m_queue)
      BY <1>3
    <2>2. m_queue[i + 1] = m_queue[j + 1] => i + 1 = j + 1
      BY <2>1 DEF Once, TasksRunOnce
    <2> QED
      BY <1>3, <2>2
  <1>7. \A u, v \in InTask' : task'[u] = task'[v] => u = v
    <2>1. task \in [Workers -> Tasks \cup {NoTask}]
      BY DEF Counts, WorkersTypeOK
    <2>2. task'[w] = k /\ \A v \in InTask : task'[v] = task[v]
      BY <1>2, <2>1
    <2>3. \A v \in InTask : task[v] \in Running
      BY DEF Running, InTask
    <2>4. k \notin Running
      BY <1>4 DEF Once, TasksRunOnce
    <2>5. \A u, v \in InTask : task[u] = task[v] => u = v
      BY DEF Once, TasksRunOnce, InTask
    <2> QED
      BY <1>2, <2>2, <2>3, <2>4, <2>5
  <1>8. m_finished' = m_finished /\ made' = made
    BY DEF taskVars
  <1>9. TasksRunOnce'
    <2>1. (Queued' \cup Running') \cap m_finished' = {} /\ Queued' \cap Running' = {}
      BY <1>4, <1>5, <1>8 DEF Once, TasksRunOnce
    <2> QED
      BY <1>6, <1>7, <2>1 DEF TasksRunOnce, InTask
  <1> QED
    BY <1>4, <1>5, <1>8, <1>9 DEF Once

LEMMA SignalledRanLast ==
    ASSUME Counts, Once, NEW w \in Workers, Signals(w)
    PROVE  Running' = Running \ {task[w]} /\ task[w] \in Running
  <1>1. InTask' = InTask \ {w} /\ w \in InTask /\ task' = task
    BY DEF InTask, At, Signals, Counts, WorkersTypeOK
  <1> QED
    BY <1>1 DEF Running, InTask, Once, TasksRunOnce

LEMMA SignalsKeepsOnce ==
    ASSUME Counts, Once, NEW w \in Workers, Signals(w)
    PROVE  Once'
  <1>1. InTask' = InTask \ {w} /\ w \in InTask
    BY DEF InTask, At, Signals, Counts, WorkersTypeOK
  <1>2. /\ m_queue' = m_queue /\ task' = task /\ made' = made
        /\ m_finished' = m_finished \cup {task[w]}
    BY DEF Signals, poolVars
  <1>3. Queued' = Queued
    BY <1>2 DEF Queued
  <1>4. Running' = Running \ {task[w]} /\ task[w] \in Running
    BY SignalledRanLast
  <1>5. TasksRunOnce'
    <2>1. (Queued' \cup Running') \cap m_finished' = {} /\ Queued' \cap Running' = {}
      BY <1>2, <1>3, <1>4 DEF Once, TasksRunOnce
    <2>2. \A u, v \in InTask' : task'[u] = task'[v] => u = v
      BY <1>1, <1>2 DEF Once, TasksRunOnce, InTask
    <2> QED
      BY <1>2, <2>1, <2>2 DEF Once, TasksRunOnce, InTask
  <1> QED
    BY <1>2, <1>3, <1>4, <1>5 DEF Once

LEMMA SignalTheRestKeepsOnce ==
    ASSUME Counts, Once, SignalTheRest, UNCHANGED <<made, workerVars>>
    PROVE  Once'
  <1>1. InTask = {} /\ InTask' = {}
    BY DEF InTask, At, SignalTheRest, m_threads, workerVars
  <1>2. Running = {} /\ Running' = {} /\ Queued' = {} /\ Len(m_queue') = 0
    BY <1>1 DEF Running, InTask, Queued, SignalTheRest
  <1>3. TasksRunOnce'
    BY <1>1, <1>2 DEF TasksRunOnce, InTask
  <1> QED
    BY <1>2, <1>3 DEF Once, SignalTheRest

-----------------------------------------------------------------------------
(* Each step is one of a TaskPool, or none.                                *)

poolState == <<m_queue, Running, m_finished, m_stopping>>

LEMMA EnqueueSubmits ==
    ASSUME Counts, Once, ~m_stopping, NEW s \in Seq(Tasks), NEW short, Enqueue(s, short),
           \A i \in 1..Len(s) : s[i] \notin made,
           \A i, j \in 1..Len(s) : s[i] = s[j] => i = j,
           UNCHANGED <<m_finished, m_stopping, task>>
    PROVE  Pool!Submit
  <1>1. m_queue \in Seq(Tasks) /\ m_queue' = m_queue \o s
    BY DEF Enqueue, Counts, WorkersTypeOK
  <1>2. /\ Len(m_queue') = Len(m_queue) + Len(s)
        /\ Len(m_queue) \in Nat /\ Len(s) \in Nat
        /\ \A i \in 1..Len(m_queue') :
             m_queue'[i] = IF i <= Len(m_queue) THEN m_queue[i] ELSE s[i - Len(m_queue)]
    BY <1>1
  <1>3. InTask' = InTask
    BY DEF InTask, At, Enqueue, StartThreads, Counts, WorkersTypeOK
  <1>4. Running' = Running
    BY <1>3 DEF Running, InTask
  <1>5. ASSUME NEW i \in Len(m_queue) + 1..Len(m_queue')
        PROVE  /\ m_queue'[i] \in Tasks \ (Running \cup m_finished)
               /\ \A j \in 1..i - 1 : m_queue'[j] # m_queue'[i]
    <2> DEFINE n == i - Len(m_queue)
    <2>1. n \in 1..Len(s) /\ m_queue'[i] = s[n] /\ i \in 1..Len(m_queue')
      BY <1>2
    <2>2. s[n] \in Tasks /\ s[n] \notin Running \cup m_finished \cup Queued
      BY <2>1 DEF Once
    <2>3. ASSUME NEW j \in 1..i - 1
          PROVE  m_queue'[j] # s[n]
      <3>1. CASE j <= Len(m_queue)
        <4>1. j \in 1..Len(m_queue) /\ m_queue'[j] = m_queue[j]
          BY <1>2, <2>1, <3>1
        <4> QED
          BY <2>2, <4>1 DEF Queued
      <3>2. CASE ~(j <= Len(m_queue))
        <4>1. /\ j - Len(m_queue) \in 1..Len(s) /\ j - Len(m_queue) # n
              /\ m_queue'[j] = s[j - Len(m_queue)]
          BY <1>2, <2>1, <3>2
        <4> QED
          BY <2>1, <4>1
      <3> QED
        BY <3>1, <3>2
    <2> QED
      BY <2>1, <2>2, <2>3
  <1>6. /\ Len(m_queue') >= Len(m_queue)
        /\ \A i \in 1..Len(m_queue) : m_queue'[i] = m_queue[i]
    BY <1>2
  <1> QED
    BY <1>4, <1>5, <1>6 DEF Pool!Submit

LEMMA TakesBegins ==
    ASSUME Counts, Once, NEW w \in Workers, Takes(w), UNCHANGED m_finished
    PROVE  Pool!Begin
  <1>1. Running' = Running \cup {Head(m_queue)}
    BY TakenRuns
  <1> QED
    BY <1>1 DEF Takes, Pool!Begin

LEMMA SignalsEnd ==
    ASSUME Counts, Once, NEW w \in Workers, Signals(w)
    PROVE  Pool!End
  <1>1. task[w] \in Running /\ Running' = Running \ {task[w]}
    BY SignalledRanLast
  <1> QED
    BY <1>1 DEF Signals, poolVars, Pool!End

LEMMA StopCloses ==
    ASSUME Counts, ~m_stopping, StopWorkers, UNCHANGED <<m_queue, m_finished, task>>
    PROVE  Pool!Close
  <1>1. InTask' = InTask
    BY DEF InTask, At, StopWorkers, StartThreads, Counts, WorkersTypeOK
  <1> QED
    BY <1>1 DEF StopWorkers, Running, InTask, Pool!Close

LEMMA RestIsAbandoned ==
    ASSUME Counts, SignalTheRest, m_stopping, UNCHANGED <<m_stopping, workerVars>>
    PROVE  Pool!Abandon
  <1>1. InTask = {} /\ InTask' = {}
    BY DEF InTask, At, SignalTheRest, m_threads, workerVars
  <1>2. Running = {} /\ Running' = {}
    BY <1>1 DEF Running, InTask
  <1> QED
    BY <1>2 DEF SignalTheRest, Queued, Pool!Abandon

LEMMA SamePlacesSamePool ==
    ASSUME InTask' = InTask, UNCHANGED <<m_queue, m_finished, m_stopping, task>>
    PROVE  UNCHANGED poolState
  BY DEF poolState, Running, InTask
=============================================================================
