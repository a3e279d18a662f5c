------------------------------ MODULE Watchdog ------------------------------
(***************************************************************************)
(* Watchdog: one thread that calls callbacks at their periods, and any     *)
(* number of threads that add, delay and remove them.                      *)
(*                                                                         *)
(* m_state_lock guards the two maps and m_sleep_lock the sleep; nobody     *)
(* holds both, so a change and the wakeup it calls for are two steps.      *)
(***************************************************************************)
EXTENDS Integers, FiniteSets, FiniteSetsExt, Functions

CONSTANTS
    Callbacks, Threads, NoCallback,
    Periods,     \* what callbacks are added with and delayed by
    Ops,         \* which of AllOps the threads call
    MaxTime      \* bound: where the clock stops

AllOps == {"add", "delay", "remove", "destroy"}

ASSUME WatchdogAssumption ==
    /\ Periods \subseteq Nat \ {0} /\ MaxTime \in Nat /\ Ops \subseteq AllOps
    /\ NoCallback \notin Callbacks

VARIABLES
    now,          \* current_time()
    m_stopped,
    m_callbacks,  \* callback -> its period, and the time its iterator points to
    m_schedule,   \* set of entries; the order among equal times is left open
    thread,       \* where thread_body is
    wake_time,
    entry,        \* the callback whose Entry thread_body uses
    pc, target    \* per calling thread: where, and the callback it removes

vars == <<now, m_stopped, m_callbacks, m_schedule, thread, wake_time, entry,
          pc, target>>

Asap == -1      \* WallClock::min()
Forever == -2   \* WallClock::max()

Init ==
    /\ now = 0 /\ m_stopped = FALSE
    /\ m_callbacks = <<>> /\ m_schedule = {}
    /\ thread = "top" /\ wake_time = Asap /\ entry = NoCallback
    /\ pc = [t \in Threads |-> "idle"]
    /\ target = [t \in Threads |-> NoCallback]

-----------------------------------------------------------------------------

NextCall(period) == now + period

Item(c, time) == [callback |-> c, time |-> time]
Earliest(schedule) == Min({e.time : e \in schedule})

(* The lock of a callback's Entry is thread_body's while it runs it.       *)
Locked(c) == thread \in {"calling", "update", "unlock"} /\ entry = c

(* Mistake: nobody is notified.                                            *)
NotifyNobody == UNCHANGED thread

Goto(t, at) == pc' = [pc EXCEPT ![t] = at]

NotifyAll == thread' = IF thread = "asleep" THEN "check" ELSE thread

(* Mistake: the old time is not taken out of the schedule.                 *)
UpdateKeepsOld(c, period, next_call) ==
    /\ m_schedule' = m_schedule \cup {Item(c, next_call)}
    /\ m_callbacks' =
         [m_callbacks EXCEPT ![c] = [period |-> period, next |-> next_call]]

(* update_unprotected, for a callback that is registered.                  *)
update_unprotected(c, period, next_call) ==
    /\ m_schedule' =
         (m_schedule \ {Item(c, m_callbacks[c].next)}) \cup {Item(c, next_call)}
    /\ m_callbacks' =
         [m_callbacks EXCEPT ![c] = [period |-> period, next |-> next_call]]

(* Whether the next call has moved up.                                     *)
MovedUp == Earliest(m_schedule') < Earliest(m_schedule)

-----------------------------------------------------------------------------
(* The callers.                                                            *)

Calls(t, o) == pc[t] = "idle" /\ o \in Ops /\ ~m_stopped

AddNew(t, c, period) ==
    /\ Calls(t, "add") /\ c \notin DOMAIN m_callbacks
    /\ m_schedule' = m_schedule \cup {Item(c, NextCall(period))}
    /\ m_callbacks' =
         [d \in DOMAIN m_callbacks \cup {c} |->
            IF d = c THEN [period |-> period, next |-> NextCall(period)]
            ELSE m_callbacks[d]]
    /\ Goto(t, "notify")
    /\ UNCHANGED <<now, m_stopped, thread, wake_time, entry, target>>

AddAgain(t, c, period) ==
    /\ Calls(t, "add") /\ c \in DOMAIN m_callbacks
    /\ update_unprotected(c, period, NextCall(period))
    /\ Goto(t, IF MovedUp THEN "notify" ELSE "idle")
    /\ UNCHANGED <<now, m_stopped, thread, wake_time, entry, target>>

(* delay: by the period, by a duration, or to a time, which may be now.    *)
Delay(t, c, by) ==
    /\ Calls(t, "delay") /\ c \in DOMAIN m_callbacks
    /\ update_unprotected(c, m_callbacks[c].period, now + by)
    /\ Goto(t, IF MovedUp THEN "notify" ELSE "idle")
    /\ UNCHANGED <<now, m_stopped, thread, wake_time, entry, target>>

Notify(t) ==
    /\ pc[t] = "notify"
    /\ NotifyAll
    /\ Goto(t, "idle")
    /\ UNCHANGED <<now, m_stopped, m_callbacks, m_schedule, wake_time, entry,
                   target>>

CallRemove(t, c) ==
    /\ Calls(t, "remove")
    /\ Goto(t, "removing") /\ target' = [target EXCEPT ![t] = c]
    /\ UNCHANGED <<now, m_stopped, m_callbacks, m_schedule, thread, wake_time,
                   entry>>

(* Mistakes: remove does not try the lock; it tries again when there is    *)
(* nothing to remove.                                                      *)
RemoveRegardless(t) ==
    LET c == target[t]
    IN  /\ pc[t] = "removing" /\ c \in DOMAIN m_callbacks
        /\ m_schedule' = m_schedule \ {Item(c, m_callbacks[c].next)}
        /\ m_callbacks' = Restrict(m_callbacks, DOMAIN m_callbacks \ {c})
        /\ Goto(t, "idle") /\ target' = [target EXCEPT ![t] = NoCallback]
        /\ UNCHANGED <<now, m_stopped, thread, wake_time, entry>>

(* remove goes round its loop until it gets the entry's lock.              *)
RemoveEnds(t) ==
    LET c == target[t]
    IN  /\ pc[t] = "removing" /\ ~Locked(c)
        /\ m_schedule' =
             IF c \in DOMAIN m_callbacks
             THEN m_schedule \ {Item(c, m_callbacks[c].next)} ELSE m_schedule
        /\ m_callbacks' = Restrict(m_callbacks, DOMAIN m_callbacks \ {c})
        /\ Goto(t, "idle") /\ target' = [target EXCEPT ![t] = NoCallback]
        /\ UNCHANGED <<now, m_stopped, thread, wake_time, entry>>

(* The destructor, when no other call is under way.                        *)
Destroy(t) ==
    /\ Calls(t, "destroy") /\ \A u \in Threads : pc[u] = "idle"
    /\ m_stopped' = TRUE
    /\ NotifyAll
    /\ Goto(t, "joining")
    /\ UNCHANGED <<now, m_callbacks, m_schedule, wake_time, entry, target>>

DestroyEnds(t) ==
    /\ pc[t] = "joining" /\ thread = "exited"
    /\ Goto(t, "idle")
    /\ UNCHANGED <<now, m_stopped, m_callbacks, m_schedule, thread, wake_time,
                   entry, target>>

-----------------------------------------------------------------------------
(* thread_body.                                                            *)

Sleeps ==
    /\ thread = "top"
    /\ thread' = CASE m_stopped                        -> "exited"
                   [] ~m_stopped /\ wake_time = Asap   -> "check"
                   [] ~m_stopped /\ wake_time # Asap   -> "asleep"
    /\ UNCHANGED <<now, m_stopped, m_callbacks, m_schedule, wake_time, entry,
                   pc, target>>

(* Mistake: the sleep has no time limit.                                   *)
WakesWhenTold == FALSE /\ UNCHANGED vars

WakesUp ==
    /\ thread = "asleep" /\ wake_time # Forever /\ now >= wake_time
    /\ thread' = "check"
    /\ UNCHANGED <<now, m_stopped, m_callbacks, m_schedule, wake_time, entry,
                   pc, target>>

SpuriousWakeup ==
    /\ thread = "asleep" /\ thread' = "check"
    /\ UNCHANGED <<now, m_stopped, m_callbacks, m_schedule, wake_time, entry,
                   pc, target>>

NotReady ==
    /\ thread = "check" /\ \A e \in m_schedule : now < e.time
    /\ thread' = "top"
    /\ wake_time' = IF m_schedule = {} THEN Forever ELSE Earliest(m_schedule)
    /\ UNCHANGED <<now, m_stopped, m_callbacks, m_schedule, entry, pc, target>>

Ready(e) ==
    /\ thread = "check" /\ e \in m_schedule
    /\ e.time <= now /\ e.time = Earliest(m_schedule)
    /\ thread' = "calling" /\ entry' = e.callback
    /\ UNCHANGED <<now, m_stopped, m_callbacks, m_schedule, wake_time, pc, target>>

CallbackReturns ==
    /\ thread = "calling" /\ thread' = "update"
    /\ UNCHANGED <<now, m_stopped, m_callbacks, m_schedule, wake_time, entry,
                   pc, target>>

(* Whatever a delay has set meanwhile is overwritten.                      *)
Updates ==
    /\ thread = "update"
    /\ update_unprotected(entry, m_callbacks[entry].period,
                          NextCall(m_callbacks[entry].period))
    /\ wake_time' = Asap /\ thread' = "unlock"
    /\ UNCHANGED <<now, m_stopped, entry, pc, target>>

Unlocks ==
    /\ thread = "unlock" /\ thread' = "top" /\ entry' = NoCallback
    /\ UNCHANGED <<now, m_stopped, m_callbacks, m_schedule, wake_time, pc,
                   target>>

Tick ==
    /\ now < MaxTime /\ now' = now + 1
    /\ UNCHANGED <<m_stopped, m_callbacks, m_schedule, thread, wake_time, entry,
                   pc, target>>

-----------------------------------------------------------------------------

ThreadBody ==
    \/ Sleeps \/ WakesUp \/ NotReady \/ (\E e \in m_schedule : Ready(e))
    \/ CallbackReturns \/ Updates \/ Unlocks

Caller(t) ==
    \/ \E c \in Callbacks, p \in Periods : AddNew(t, c, p) \/ AddAgain(t, c, p)
    \/ \E c \in Callbacks, by \in Periods \cup {0} : Delay(t, c, by)
    \/ \E c \in Callbacks : CallRemove(t, c)
    \/ Notify(t) \/ RemoveEnds(t) \/ Destroy(t) \/ DestroyEnds(t)

Next == ThreadBody \/ SpuriousWakeup \/ Tick \/ \E t \in Threads : Caller(t)

Spec == Init /\ [][Next]_vars

(***************************************************************************)
(* The thread runs and its callbacks return; a caller finishes its call;   *)
(* time passes.  The loop of remove spins while a callback runs and takes  *)
(* the lock in one of the pauses, of milliseconds, that follow a call.     *)
(***************************************************************************)
FairSpec ==
    /\ Spec
    /\ WF_vars(ThreadBody) /\ WF_vars(Tick)
    /\ \A t \in Threads :
         WF_vars(Notify(t)) /\ SF_vars(RemoveEnds(t)) /\ WF_vars(DestroyEnds(t))

-----------------------------------------------------------------------------

MapsTypeOK ==
    /\ DOMAIN m_callbacks \subseteq Callbacks
    /\ \A c \in DOMAIN m_callbacks :
         m_callbacks[c] \in [period : Periods, next : Nat]
    /\ m_schedule \subseteq [callback : Callbacks, time : Nat]

ControlTypeOK ==
    /\ now \in Nat /\ m_stopped \in BOOLEAN
    /\ thread \in {"top", "asleep", "check", "calling", "update", "unlock",
                   "exited"}
    /\ wake_time \in Nat \cup {Asap, Forever}
    /\ entry \in Callbacks \cup {NoCallback}
    /\ pc \in [Threads -> {"idle", "notify", "removing", "joining"}]
    /\ target \in [Threads -> Callbacks \cup {NoCallback}]

TypeOK == MapsTypeOK /\ ControlTypeOK

(* The two maps agree: every registered callback is scheduled once, where  *)
(* its iterator points, and nothing else is.                               *)
ScheduleMatchesCallbacks ==
    m_schedule = {Item(c, m_callbacks[c].next) : c \in DOMAIN m_callbacks}

(* The Entry that thread_body uses outside m_state_lock while it runs the  *)
(* callback is not removed meanwhile.                                      *)
EntryOutlivesCall ==
    thread \in {"calling", "update", "unlock"} => entry \in DOMAIN m_callbacks

(* A callback is due.  Only times that leave a full period before MaxTime  *)
(* are looked at, for beyond it the clock stands still.                    *)
Due(c) ==
    /\ c \in DOMAIN m_callbacks /\ ~m_stopped
    /\ m_callbacks[c].next <= now
    /\ \A p \in Periods : m_callbacks[c].next + p <= MaxTime

(* "Add a callback which will be called at the specified period": a due    *)
(* callback is called, unless the thread goes to sleep on an empty         *)
(* schedule just as the callback is added and nobody wakes it again.       *)
DueIsCalledUnlessIdle ==
    \A c \in Callbacks : Due(c) ~> ~Due(c) \/ wake_time = Forever

(* remove() "will block until it is done running", no longer, and the      *)
(* destructor stops the thread, wherever it is.                            *)
CallsReturn ==
    \A t \in Threads :
        /\ pc[t] = "removing" ~> pc[t] # "removing"
        /\ pc[t] = "joining" ~> pc[t] # "joining"
=============================================================================
