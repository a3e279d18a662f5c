-------------------------- MODULE OwnedThreadProofs --------------------------
(***************************************************************************)
(* What is proved of the two components that own threads which go on with  *)
(* what they have looked up after they let go of its lock: Watchdog, whose *)
(* thread runs the callbacks of any number of callers, and ProgramSession, *)
(* with the program's thread and the two threads that poll the connection. *)
(***************************************************************************)
EXTENDS Watchdog, ProgramSession, WellFoundedInduction, TLAPS

-----------------------------------------------------------------------------
(* Watchdog: the two maps agree, and the entry that its thread works with  *)
(* stays.                                                                  *)

Maps == MapsTypeOK /\ ScheduleMatchesCallbacks

Inv == Maps /\ ControlTypeOK /\ EntryOutlivesCall

-----------------------------------------------------------------------------
(* The maps.                                                               *)

LEMMA MapsUntouched ==
    ASSUME Maps, UNCHANGED <<m_callbacks, m_schedule>>
    PROVE  Maps'
  BY DEF Maps, MapsTypeOK, ScheduleMatchesCallbacks, Item

LEMMA MapsGrow ==
    ASSUME Maps, NEW c \in Callbacks, c \notin DOMAIN m_callbacks,
           NEW period \in Periods, NEW next \in Nat,
           m_schedule' = m_schedule \cup {Item(c, next)},
           m_callbacks' =
             [d \in DOMAIN m_callbacks \cup {c} |->
                IF d = c THEN [period |-> period, next |-> next]
                ELSE m_callbacks[d]]
    PROVE  Maps'
  <1> USE DEF Maps, MapsTypeOK, ScheduleMatchesCallbacks
  <1>1. /\ DOMAIN m_callbacks' = DOMAIN m_callbacks \cup {c}
        /\ m_callbacks'[c] = [period |-> period, next |-> next]
        /\ \A d \in DOMAIN m_callbacks : m_callbacks'[d] = m_callbacks[d]
    OBVIOUS
  <1>2. \A d \in DOMAIN m_callbacks' :
          m_callbacks'[d] \in [period : Periods, next : Nat]
    BY <1>1
  <1>3. m_schedule' = {Item(d, m_callbacks'[d].next) : d \in DOMAIN m_callbacks'}
    BY <1>1 DEF Item
  <1>4. m_schedule' \subseteq [callback : Callbacks, time : Nat]
    BY DEF Item
  <1> QED
    BY <1>1, <1>2, <1>3, <1>4

LEMMA MapsUpdated ==
    ASSUME Maps, NEW c \in DOMAIN m_callbacks,
           NEW period \in Periods, NEW next \in Nat,
           update_unprotected(c, period, next)
    PROVE  Maps' /\ DOMAIN m_callbacks' = DOMAIN m_callbacks
  <1> USE DEF Maps, MapsTypeOK, ScheduleMatchesCallbacks
  <1>1. /\ DOMAIN m_callbacks' = DOMAIN m_callbacks
        /\ m_callbacks'[c] = [period |-> period, next |-> next]
        /\ \A d \in DOMAIN m_callbacks \ {c} : m_callbacks'[d] = m_callbacks[d]
    BY DEF update_unprotected
  <1>2. \A d \in DOMAIN m_callbacks' :
          m_callbacks'[d] \in [period : Periods, next : Nat]
    BY <1>1
  <1>3. m_schedule' = {Item(d, m_callbacks'[d].next) : d \in DOMAIN m_callbacks'}
    BY <1>1 DEF update_unprotected, Item
  <1>4. m_schedule' \subseteq [callback : Callbacks, time : Nat]
    BY DEF update_unprotected, Item
  <1> QED
    BY <1>1, <1>2, <1>3, <1>4

LEMMA MapsShrink ==
    ASSUME Maps, NEW c,
           m_schedule' =
             IF c \in DOMAIN m_callbacks
             THEN m_schedule \ {Item(c, m_callbacks[c].next)} ELSE m_schedule,
           m_callbacks' = Restrict(m_callbacks, DOMAIN m_callbacks \ {c})
    PROVE  Maps' /\ DOMAIN m_callbacks' = DOMAIN m_callbacks \ {c}
  <1> USE DEF Maps, MapsTypeOK, ScheduleMatchesCallbacks
  <1>1. /\ DOMAIN m_callbacks' = DOMAIN m_callbacks \ {c}
        /\ \A d \in DOMAIN m_callbacks \ {c} : m_callbacks'[d] = m_callbacks[d]
    BY DEF Restrict
  <1>2. \A d \in DOMAIN m_callbacks' :
          m_callbacks'[d] \in [period : Periods, next : Nat]
    BY <1>1
  <1>3. m_schedule' = {Item(d, m_callbacks'[d].next) : d \in DOMAIN m_callbacks'}
    BY <1>1 DEF Item
  <1>4. m_schedule' \subseteq [callback : Callbacks, time : Nat]
    OBVIOUS
  <1> QED
    BY <1>1, <1>2, <1>3, <1>4

LEMMA EarliestIsTime ==
    ASSUME MapsTypeOK, m_schedule # {}
    PROVE  Earliest(m_schedule) \in Nat
  <1> DEFINE times == {e.time : e \in m_schedule}
  <1>1. times \in SUBSET Nat /\ times # {}
    BY DEF MapsTypeOK
  <1> DEFINE R == OpToRel(<, Nat)
  <1>2. \A x, y \in Nat : y < x => <<y, x>> \in R
    BY DEF OpToRel
  <1>3. IsWellFoundedOn(R, Nat)
    BY NatLessThanWellFounded
  <1> HIDE DEF times, R
  <1>4. \E x \in times : \A y \in times : ~ (<<y, x>> \in R)
    BY <1>1, <1>3, WFMin
  <1>5. PICK x \in times : \A y \in times : ~ (<<y, x>> \in R)
    BY <1>4
  <1>6. \A y \in times : ~ (y < x)
    BY <1>1, <1>2, <1>5
  <1>7. \A y \in times : x <= y
    BY <1>1, <1>6
  <1>8. Min(times) \in times
    BY <1>7 DEF Min
  <1> QED
    BY <1>1, <1>8 DEF times, Earliest

LEMMA NextCallIsTime ==
    ASSUME ControlTypeOK, NEW p \in Periods
    PROVE  NextCall(p) \in Nat
  BY WatchdogAssumption DEF ControlTypeOK, NextCall

-----------------------------------------------------------------------------
(* The steps.                                                              *)

LEMMA InitInv == Init => Inv
  <1> SUFFICES ASSUME Init PROVE Inv
    OBVIOUS
  <1>1. Maps
    BY DEF Init, Maps, MapsTypeOK, ScheduleMatchesCallbacks
  <1>2. ControlTypeOK /\ EntryOutlivesCall
    BY WatchdogAssumption DEF Init, ControlTypeOK, EntryOutlivesCall
  <1> QED
    BY <1>1, <1>2 DEF Inv

(* Steps of the callers.                                                   *)
LEMMA CallerInv ==
    ASSUME Inv, NEW t \in Threads, Caller(t)
    PROVE  Inv'
  <1> USE WatchdogAssumption
  <1>1. ASSUME NEW c \in Callbacks, NEW p \in Periods, AddNew(t, c, p)
        PROVE  Inv'
    <2>1. NextCall(p) \in Nat
      BY NextCallIsTime DEF Inv
    <2>2. Maps'
      BY <1>1, <2>1, MapsGrow DEF AddNew, Inv
    <2>3. ControlTypeOK'
      BY <1>1 DEF AddNew, Inv, ControlTypeOK, Goto
    <2>4. EntryOutlivesCall'
      BY <1>1 DEF AddNew, Inv, EntryOutlivesCall
    <2> QED
      BY <2>2, <2>3, <2>4 DEF Inv
  <1>2. ASSUME NEW c \in Callbacks, NEW p \in Periods, AddAgain(t, c, p)
        PROVE  Inv'
    <2>1. NextCall(p) \in Nat
      BY NextCallIsTime DEF Inv
    <2>2. Maps' /\ DOMAIN m_callbacks' = DOMAIN m_callbacks
      BY <1>2, <2>1, MapsUpdated DEF AddAgain, Inv
    <2>3. ControlTypeOK'
      BY <1>2 DEF AddAgain, Inv, ControlTypeOK, Goto
    <2>4. EntryOutlivesCall'
      BY <1>2, <2>2 DEF AddAgain, Inv, EntryOutlivesCall
    <2> QED
      BY <2>2, <2>3, <2>4 DEF Inv
  <1>3. ASSUME NEW c \in Callbacks, NEW by \in Periods \cup {0}, Delay(t, c, by)
        PROVE  Inv'
    <2>1. now + by \in Nat /\ c \in DOMAIN m_callbacks
      BY <1>3 DEF Inv, ControlTypeOK, Delay
    <2>2. m_callbacks[c].period \in Periods
      BY <2>1 DEF Inv, Maps, MapsTypeOK
    <2>3. Maps' /\ DOMAIN m_callbacks' = DOMAIN m_callbacks
      BY <1>3, <2>1, <2>2, MapsUpdated DEF Delay, Inv
    <2>4. ControlTypeOK'
      BY <1>3 DEF Delay, Inv, ControlTypeOK, Goto
    <2>5. EntryOutlivesCall'
      BY <1>3, <2>3 DEF Delay, Inv, EntryOutlivesCall
    <2> QED
      BY <2>3, <2>4, <2>5 DEF Inv
  <1>4. ASSUME NEW c \in Callbacks, CallRemove(t, c)
        PROVE  Inv'
    <2>1. Maps'
      BY <1>4, MapsUntouched DEF CallRemove, Inv
    <2>2. ControlTypeOK' /\ EntryOutlivesCall'
      BY <1>4 DEF CallRemove, Inv, ControlTypeOK, EntryOutlivesCall, Goto
    <2> QED
      BY <2>1, <2>2 DEF Inv
  <1>5. CASE Notify(t)
    <2>1. Maps'
      BY <1>5, MapsUntouched DEF Notify, Inv
    <2>2. ControlTypeOK' /\ EntryOutlivesCall'
      BY <1>5 DEF Notify, Inv, ControlTypeOK, EntryOutlivesCall, Goto, NotifyAll
    <2> QED
      BY <2>1, <2>2 DEF Inv
  <1>6. CASE RemoveEnds(t)
    <2>1. Maps' /\ DOMAIN m_callbacks' = DOMAIN m_callbacks \ {target[t]}
      BY <1>6, MapsShrink DEF RemoveEnds, Inv
    <2>2. ControlTypeOK'
      BY <1>6 DEF RemoveEnds, Inv, ControlTypeOK, Goto
    <2>3. EntryOutlivesCall'
      BY <1>6, <2>1 DEF RemoveEnds, Locked, Inv, EntryOutlivesCall
    <2> QED
      BY <2>1, <2>2, <2>3 DEF Inv
  <1>7. CASE Destroy(t)
    <2>1. Maps'
      BY <1>7, MapsUntouched DEF Destroy, Inv
    <2>2. ControlTypeOK' /\ EntryOutlivesCall'
      BY <1>7 DEF Destroy, Inv, ControlTypeOK, EntryOutlivesCall, Goto, NotifyAll
    <2> QED
      BY <2>1, <2>2 DEF Inv
  <1>8. CASE DestroyEnds(t)
    <2>1. Maps'
      BY <1>8, MapsUntouched DEF DestroyEnds, Inv
    <2>2. ControlTypeOK' /\ EntryOutlivesCall'
      BY <1>8 DEF DestroyEnds, Inv, ControlTypeOK, EntryOutlivesCall, Goto
    <2> QED
      BY <2>1, <2>2 DEF Inv
  <1> QED
    BY <1>1, <1>2, <1>3, <1>4, <1>5, <1>6, <1>7, <1>8 DEF Caller

(* Steps of the thread, and of the clock.                                  *)
LEMMA ThreadInv ==
    ASSUME Inv, ThreadBody \/ SpuriousWakeup \/ Tick
    PROVE  Inv'
  <1> USE WatchdogAssumption
  <1>1. CASE Sleeps \/ WakesUp \/ SpuriousWakeup \/ CallbackReturns \/ Unlocks \/ Tick
    <2>1. Maps'
      BY <1>1, MapsUntouched
      DEF Sleeps, WakesUp, SpuriousWakeup, CallbackReturns, Unlocks, Tick, Inv
    <2>2. ControlTypeOK'
      BY <1>1
      DEF Sleeps, WakesUp, SpuriousWakeup, CallbackReturns, Unlocks, Tick, Inv,
          ControlTypeOK
    <2>3. EntryOutlivesCall'
      BY <1>1
      DEF Sleeps, WakesUp, SpuriousWakeup, CallbackReturns, Unlocks, Tick, Inv,
          EntryOutlivesCall, ControlTypeOK
    <2> QED
      BY <2>1, <2>2, <2>3 DEF Inv
  <1>2. CASE NotReady
    <2>1. Maps'
      BY <1>2, MapsUntouched DEF NotReady, Inv
    <2>2. wake_time' \in Nat \cup {Asap, Forever}
      BY <1>2, EarliestIsTime DEF NotReady, Inv, Maps
    <2>3. ControlTypeOK' /\ EntryOutlivesCall'
      BY <1>2, <2>2 DEF NotReady, Inv, ControlTypeOK, EntryOutlivesCall
    <2> QED
      BY <2>1, <2>3 DEF Inv
  <1>3. ASSUME NEW e \in m_schedule, Ready(e)
        PROVE  Inv'
    <2>1. Maps'
      BY <1>3, MapsUntouched DEF Ready, Inv
    <2>2. e.callback \in DOMAIN m_callbacks /\ e.callback \in Callbacks
      BY <1>3 DEF Inv, Maps, MapsTypeOK, ScheduleMatchesCallbacks, Item
    <2>3. ControlTypeOK' /\ EntryOutlivesCall'
      BY <1>3, <2>2 DEF Ready, Inv, ControlTypeOK, EntryOutlivesCall
    <2> QED
      BY <2>1, <2>3 DEF Inv
  <1>4. CASE Updates
    <2>1. entry \in DOMAIN m_callbacks
      BY <1>4 DEF Updates, Inv, EntryOutlivesCall
    <2>2. m_callbacks[entry].period \in Periods
      BY <2>1 DEF Inv, Maps, MapsTypeOK
    <2>3. NextCall(m_callbacks[entry].period) \in Nat
      BY <2>2, NextCallIsTime DEF Inv
    <2>4. Maps' /\ DOMAIN m_callbacks' = DOMAIN m_callbacks
      BY <1>4, <2>1, <2>2, <2>3, MapsUpdated DEF Updates, Inv
    <2>5. ControlTypeOK' /\ EntryOutlivesCall'
      BY <1>4, <2>1, <2>4 DEF Updates, Inv, ControlTypeOK, EntryOutlivesCall
    <2> QED
      BY <2>4, <2>5 DEF Inv
  <1> QED
    BY <1>1, <1>2, <1>3, <1>4 DEF ThreadBody

LEMMA StepInv == Inv /\ [Next]_vars => Inv'
  <1> SUFFICES ASSUME Inv, [Next]_vars PROVE Inv'
    OBVIOUS
  <1>1. CASE UNCHANGED vars
    BY <1>1, MapsUntouched DEF vars, Inv, ControlTypeOK, EntryOutlivesCall
  <1>2. CASE Next
    BY <1>2, CallerInv, ThreadInv DEF Next
  <1> QED
    BY <1>1, <1>2

(* Every reachable state is well typed.                                    *)
THEOREM WatchdogTypeCorrect == Spec => []TypeOK
  <1>1. Inv => TypeOK
    BY DEF Inv, Maps, TypeOK
  <1> QED
    BY InitInv, StepInv, <1>1, PTL DEF Spec

(* The schedule and the callbacks always agree: no callback is called      *)
(* twice for one period, and none is forgotten.                            *)
THEOREM MapsAgree == Spec => []ScheduleMatchesCallbacks
  <1>1. Inv => ScheduleMatchesCallbacks
    BY DEF Inv, Maps
  <1> QED
    BY InitInv, StepInv, <1>1, PTL DEF Spec

(* remove() never takes the entry from under a running callback.           *)
THEOREM EntriesOutliveCalls == Spec => []EntryOutlivesCall
  <1>1. Inv => EntryOutlivesCall
    BY DEF Inv
  <1> QED
    BY InitInv, StepInv, <1>1, PTL DEF Spec

-----------------------------------------------------------------------------
(* The handle of the PABotBase: who is in it has its lock, and the two     *)
(* threads that poll are over before the object is replaced.               *)

HandlePlaces ==
    {"out", "stop", "stop: botbase", "stop: join", "reset", "reset: botbase",
     "reset: join", "open", "leave"}

HandleTypeOK ==
    /\ h_state \in {"NOT_CONNECTED", "CONNECTING", "READY", "STOPPED", "ERRORED",
                    "SHUTDOWN"}
    /\ h_lock \in Callers \cup {NoCaller} /\ h_at \in [Callers -> HandlePlaces]
    /\ m_botbase \in Nat \ {0} /\ up \in BOOLEAN /\ overwrote \in BOOLEAN
    /\ status \in {"connect", "verify", "not verified", "ready", "stop commands",
                   "poll", "error", "join", "over", "crashed"}
    /\ watchdog \in {"none", "poll", "over"}

(* The watchdog thread is there while the status thread is in its loop or  *)
(* joins it.                                                               *)
ThreadsOver ==
    /\ watchdog # "none" => status \in {"poll", "error", "join"}
    /\ h_state = "NOT_CONNECTED" => status = "over"
    /\ \A t \in Callers : At(t, "open") => status = "over"

HandleInv ==
    /\ HandleTypeOK /\ ThreadsOver
    /\ \A t \in Callers : At(t, "out") <=> h_lock # t

LEMMA EnterKeepsHandle ==
    ASSUME HandleInv, NEW t \in Callers, NEW what \in {"stop", "reset"},
           EnterHandle(t, what)
    PROVE  HandleInv'
  BY HandleAssumption
     DEF HandleInv, HandleTypeOK, ThreadsOver, HandlePlaces, EnterHandle, Goes, At

LEMMA CallerKeepsHandle ==
    ASSUME HandleInv, NEW t \in Callers, HandleStep(t)
    PROVE  HandleInv'
  <1> USE HandleAssumption DEF HandleInv, HandleTypeOK, ThreadsOver, HandlePlaces, Goes, At
  <1>1. CASE NothingToStop(t)
    BY <1>1 DEF NothingToStop
  <1>2. CASE StopUnprotected(t) \/ StopBotBase(t)
    BY <1>2 DEF StopUnprotected, StopBotBase
  <1>3. CASE JoinStatusThread(t)
    BY <1>3 DEF JoinStatusThread
  <1>4. CASE Open(t)
    <2>1. At(t, "open") /\ h_lock = t /\ status = "over" /\ watchdog = "none"
      BY <1>4 DEF Open
    <2>2. /\ h_at' = [h_at EXCEPT ![t] = "leave"] /\ h_lock' = h_lock
          /\ m_botbase' = m_botbase + 1 /\ up' = TRUE /\ overwrote' = overwrote
          /\ h_state' = "CONNECTING" /\ status' = "connect" /\ watchdog' = watchdog
      BY <1>4 DEF Open
    <2>3. \A u \in Callers : u # t => ~At(u, "open")'
      BY <2>1, <2>2
    <2>4. \A u \in Callers : At(u, "out")' <=> h_lock' # u
      BY <2>1, <2>2
    <2>5. HandleTypeOK'
      <3>1. m_botbase + 1 \in Nat \ {0}
        <4>1. m_botbase \in Nat
          OBVIOUS
        <4> HIDE DEF HandleInv
        <4> QED
          BY <4>1
      <3>2. h_at' \in [Callers -> HandlePlaces]
        BY <2>2
      <3> QED
        BY <2>2, <3>1, <3>2
    <2>6. ThreadsOver'
      BY <2>1, <2>2, <2>3
    <2> QED
      BY <2>4, <2>5, <2>6
  <1>5. CASE CannotOpen(t) \/ LeaveHandle(t)
    BY <1>5 DEF CannotOpen, LeaveHandle
  <1> QED
    BY <1>1, <1>2, <1>3, <1>4, <1>5 DEF HandleStep

LEMMA ThreadsKeepHandle ==
    ASSUME HandleInv, StatusStep
    PROVE  HandleInv'
  <1> USE DEF HandleInv, HandleTypeOK, ThreadsOver, HandlePlaces, StatusMoves, NothingElse, At
  <1>1. CASE Connect \/ Verify \/ NotVerified \/ StoreReady
    BY <1>1 DEF Connect, Verify, NotVerified, StoreReady
  <1>2. CASE StopCommands \/ Poll \/ Errored
    BY <1>2 DEF StopCommands, Poll, Errored
  <1>3. CASE WatchdogEnds \/ JoinWatchdog
    BY <1>3 DEF WatchdogEnds, JoinWatchdog
  <1> QED
    BY <1>1, <1>2, <1>3 DEF StatusStep

-----------------------------------------------------------------------------
(* The session.                                                            *)

ProgramTypeOK ==
    /\ HandleTypeOK
    /\ m_state \in {"STOPPED", "RUNNING", "STOPPING"}
    /\ ui_state \in {"STOPPED", "RUNNING", "STOPPING"}
    /\ runs \in 0..MaxRuns /\ sender \in Nat
    /\ run \in {"start", "env", "ready", "program", "finish", "save", "over"}
    /\ m_scope \in 0..MaxRuns /\ cancelled \in BOOLEAN
    /\ at \in [Callers -> {"idle", "stop", "stop handle", "load", "cancel", "spin",
                           "reset: stop", "reset", "done"}]
    /\ found \in [Callers -> 0..MaxRuns]
    /\ m_lock \in Callers \cup {NoCaller}

ProgramInv == ProgramTypeOK /\ HandleInv /\ StateMatchesThread

LEMMA RunNumbers ==
    /\ 0 \in 0..MaxRuns
    /\ \A n \in 0..MaxRuns : n < MaxRuns => n + 1 \in 0..MaxRuns
  BY ProgramAssumption

LEMMA ProgramInitInv == ProgramInit => ProgramInv
  <1> SUFFICES ASSUME ProgramInit
               PROVE  ProgramInv
    OBVIOUS
  <1>1. HandleTypeOK
    <2>1. 1 \in Nat \ {0}
      OBVIOUS
    <2>2. h_at \in [Callers -> HandlePlaces]
      BY DEF ProgramInit, HandleInit, HandlePlaces
    <2>3. up \in BOOLEAN /\ overwrote \in BOOLEAN
      BY DEF ProgramInit, HandleInit
    <2> QED
      BY <2>1, <2>2, <2>3 DEF ProgramInit, HandleInit, HandleTypeOK
  <1>2. HandleInv
    BY <1>1, HandleAssumption DEF ProgramInit, HandleInit, HandleInv, ThreadsOver, At
  <1>3. 0 \in 0..MaxRuns
    BY RunNumbers
  <1>4. ProgramTypeOK /\ StateMatchesThread
    BY <1>1, <1>3 DEF ProgramInit, ProgramTypeOK, StateMatchesThread
  <1> QED
    BY <1>2, <1>4 DEF ProgramInv

LEMMA HandleUntouched ==
    ASSUME HandleInv, UNCHANGED handleVars
    PROVE  HandleInv'
  BY DEF handleVars, HandleInv, HandleTypeOK, ThreadsOver, At

LEMMA SessionUntouched ==
    ASSUME ProgramInv, HandleInv', UNCHANGED programVars
    PROVE  ProgramInv'
  BY DEF programVars, ProgramInv, HandleInv, ProgramTypeOK, StateMatchesThread

(* The program's thread and the user interface.                            *)
LEMMA ProgramKeepsInv ==
    ASSUME ProgramInv, ProgramStep \/ ProgramEnds \/ UpdateUi
    PROVE  ProgramInv'
  <1>1. UNCHANGED handleVars
    BY DEF ProgramStep, MakeEnvironment, CheckReady, StoreScope, ScopeGone, SaveStats,
           ProgramEnds, UpdateUi
  <1>2. HandleInv'
    BY <1>1, HandleUntouched DEF ProgramInv
  <1>3. m_botbase \in Nat
    BY DEF ProgramInv, HandleInv, HandleTypeOK
  <1>4. CASE MakeEnvironment \/ CheckReady \/ StoreScope
    BY <1>2, <1>3, <1>4
       DEF MakeEnvironment, CheckReady, StoreScope, RunMoves, ProgramInv, HandleInv,
           ProgramTypeOK, StateMatchesThread
  <1>5. CASE ProgramEnds
    <2>1. 0 \in 0..MaxRuns
      BY RunNumbers
    <2> QED
      BY <1>2, <1>5, <2>1 DEF ProgramEnds, RunMoves, ProgramInv, HandleInv, ProgramTypeOK,
                              StateMatchesThread
  <1>6. CASE ScopeGone \/ SaveStats \/ UpdateUi
    BY <1>2, <1>6 DEF ScopeGone, SaveStats, UpdateUi, RunMoves, ProgramInv, HandleInv,
                      ProgramTypeOK, StateMatchesThread
  <1> QED
    BY <1>4, <1>5, <1>6 DEF ProgramStep

(* Who starts, stops and resets.                                           *)
LEMMA HandleCallKeepsInv ==
    ASSUME ProgramInv, NEW t \in Callers,
           NEW from, NEW what \in {"stop", "reset"},
           NEW to \in {"load", "reset", "done"}, CallHandle(t, from, what, to)
    PROVE  ProgramInv'
  <1>1. HandleInv'
    BY EnterKeepsHandle DEF CallHandle, ProgramInv
  <1> QED
    BY <1>1 DEF CallHandle, CallerMoves, ProgramInv, HandleInv, ProgramTypeOK, StateMatchesThread

LEMMA CallerKeepsInv ==
    ASSUME ProgramInv, NEW t \in Callers,
           CallerStep(t) \/ Requests(t) \/ (t = ui /\ ResetButton)
    PROVE  ProgramInv'
  <1>1. CASE HandleStep(t) /\ UNCHANGED programVars
    BY <1>1, CallerKeepsHandle, SessionUntouched DEF ProgramInv
  <1>2. CASE RemoteReset(t)
    <2>1. EnterHandle(t, "reset") /\ UNCHANGED programVars
      BY <1>2 DEF RemoteReset, TryReset
    <2> QED
      BY <2>1, EnterKeepsHandle, SessionUntouched DEF ProgramInv
  <1>3. CASE StopHandle(t) \/ ResetStops(t) \/ ResetOpens(t) \/ (t = ui /\ ResetButton)
    BY <1>3, HandleCallKeepsInv DEF StopHandle, ResetStops, ResetOpens, ResetButton
  <1>4. CASE StartProgram(t) \/ StopProgram(t) \/ InternalStop(t) \/ LoadScope(t)
              \/ CancelScope(t) \/ Spin(t) \/ Done(t)
    <2>1. UNCHANGED handleVars
      BY <1>4 DEF StartProgram, StopProgram, InternalStop, LoadScope, CancelScope, Spin, Done
    <2>2. HandleInv' /\ HandleTypeOK'
      BY <2>1, HandleUntouched DEF ProgramInv, HandleInv
    <2>0. /\ 0 \in 0..MaxRuns
          /\ \A n \in 0..MaxRuns : n < MaxRuns => n + 1 \in 0..MaxRuns
      BY RunNumbers
    <2> USE DEF ProgramInv, ProgramTypeOK, StateMatchesThread, CallerMoves
    <2>3. CASE StartProgram(t)
      <3>1. runs' \in 0..MaxRuns
        BY <2>0, <2>3 DEF StartProgram
      <3> QED
        BY <2>2, <2>3, <3>1 DEF StartProgram
    <2>4. CASE StopProgram(t) \/ InternalStop(t)
      BY <2>2, <2>4 DEF StopProgram, InternalStop
    <2>6. CASE LoadScope(t)
      BY <2>2, <2>6 DEF LoadScope
    <2>7. CASE CancelScope(t)
      <3>1. found' \in [Callers -> 0..MaxRuns] /\ cancelled' \in BOOLEAN
        BY <2>0, <2>7 DEF CancelScope
      <3> QED
        BY <2>2, <2>7, <3>1 DEF CancelScope
    <2>5. CASE Spin(t) \/ Done(t)
      BY <2>2, <2>5 DEF Spin, Done
    <2> QED
      BY <1>4, <2>3, <2>4, <2>5, <2>6, <2>7
  <1> QED
    BY <1>1, <1>2, <1>3, <1>4 DEF CallerStep, Requests

LEMMA ProgramInvHolds == ProgramSpec => []ProgramInv
  <1>1. ProgramInv /\ [ProgramNext]_sessionVars => ProgramInv'
    <2> SUFFICES ASSUME ProgramInv, [ProgramNext]_sessionVars
                 PROVE  ProgramInv'
      OBVIOUS
    <2>1. CASE UNCHANGED sessionVars
      BY <2>1, HandleUntouched, SessionUntouched DEF sessionVars, ProgramInv
    <2>2. CASE StatusStep /\ UNCHANGED programVars
      BY <2>2, ThreadsKeepHandle, SessionUntouched DEF ProgramInv
    <2>3. CASE ResetButton
      BY <2>3, CallerKeepsInv, ProgramAssumption
    <2> QED
      BY <2>1, <2>2, <2>3, ProgramKeepsInv, CallerKeepsInv DEF ProgramNext
  <1> QED
    BY <1>1, ProgramInitInv, PTL DEF ProgramSpec

(* The variables have their types.                                         *)
THEOREM ProgramTypeCorrect == ProgramSpec => []ProgramTypeOK
  <1>1. ProgramInv => ProgramTypeOK
    BY DEF ProgramInv
  <1> QED
    BY <1>1, ProgramInvHolds, PTL

(* However many callers start, stop and reset, and wherever the program    *)
(* ends by itself meanwhile, the session is STOPPED exactly when there is  *)
(* no program's thread (start_program, stop_program, run_program).         *)
THEOREM StateIsThreads == ProgramSpec => []StateMatchesThread
  <1>1. ProgramInv => StateMatchesThread
    BY DEF ProgramInv
  <1> QED
    BY <1>1, ProgramInvHolds, PTL

(* Nobody replaces the object that the status thread or the watchdog       *)
(* thread polls (stop_unprotected, reset_unprotected, thread_body).        *)
THEOREM PolledObjectStays == ProgramSpec => ThreadsUseLive
  <1>1. ProgramInv /\ [ProgramNext]_sessionVars
          => [m_botbase' # m_botbase => status = "over" /\ watchdog # "poll"]_sessionVars
    <2> SUFFICES ASSUME ProgramInv, ProgramNext, m_botbase' # m_botbase
                 PROVE  status = "over" /\ watchdog # "poll"
      BY DEF sessionVars, handleVars
    <2>1. ASSUME NEW t \in Callers, Open(t)
          PROVE  status = "over" /\ watchdog # "poll"
      BY <2>1 DEF Open, Goes, ProgramInv, HandleInv, ThreadsOver
    <2>2. \E t \in Callers : Open(t)
      <3>1. ~(StatusStep \/ UNCHANGED handleVars)
        BY DEF StatusStep, Connect, Verify, NotVerified, StoreReady, StopCommands, Poll,
               Errored, WatchdogEnds, JoinWatchdog, NothingElse, handleVars
      <3>2. ~(ProgramStep \/ ProgramEnds \/ UpdateUi \/ ResetButton)
        BY DEF ProgramStep, MakeEnvironment, CheckReady, StoreScope, ScopeGone, SaveStats,
               ProgramEnds, UpdateUi, ResetButton, CallHandle, EnterHandle, handleVars
      <3>3. PICK t \in Callers : CallerStep(t) \/ Requests(t)
        BY <3>1, <3>2 DEF ProgramNext
      <3>4. ~Requests(t)
        BY DEF Requests, StartProgram, StopProgram, RemoteReset, TryReset, EnterHandle, handleVars
      <3>5. HandleStep(t)
        BY <3>3, <3>4
           DEF CallerStep, InternalStop, StopHandle, LoadScope, CancelScope, Spin, ResetStops,
               ResetOpens, Done, CallHandle, EnterHandle, handleVars
      <3> QED
        BY <3>5 DEF HandleStep, NothingToStop, StopUnprotected, StopBotBase, JoinStatusThread,
                    CannotOpen, LeaveHandle
    <2> QED
      BY <2>1, <2>2
  <1> QED
    BY <1>1, ProgramInvHolds, PTL DEF ProgramSpec, ThreadsUseLive
=============================================================================
