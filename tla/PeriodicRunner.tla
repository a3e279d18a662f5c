--------------------------- MODULE PeriodicRunner ---------------------------
(***************************************************************************)
(* PeriodicRunner: the thread that calls the events of a PeriodicScheduler *)
(* when they are due, and the calls that other threads make on it.         *)
(*                                                                         *)
(* The runner is a leaf of the tree of CancellableScope, whose lock is its *)
(* m_lock: the thread holds it from one sleep to the next, callbacks       *)
(* included.                                                               *)
(***************************************************************************)
EXTENDS CancellableScope, PeriodicScheduler

CONSTANTS runner, worker   \* the node, and the thread of thread_loop

ASSUME RunnerAssumption == runner \in Leaves /\ worker \in Threads

VARIABLES
    m_scheduler,
    m_pending_waits,
    place,             \* where thread_loop is
    notified,          \* it sleeps on m_cv, which has been notified
    event,             \* its local variables
    is_back_to_back

runnerVars == <<m_scheduler, m_pending_waits, place, notified, event,
                is_back_to_back>>

RunnerInit ==
    /\ m_scheduler = EmptyScheduler /\ m_pending_waits = 0
    /\ place = "none" /\ notified = FALSE
    /\ event = NoEvent /\ is_back_to_back = FALSE

RunnerMoves(from, to) == place = from /\ place' = to
NotifyAll == notified' = (place \in {"yield", "sleep"})

-----------------------------------------------------------------------------
(* The calls.  Each asks for the lock and has it in a later step.          *)

AskForLock ==
    /\ m_pending_waits' = m_pending_waits + 1
    /\ UNCHANGED <<m_scheduler, place, notified, event, is_back_to_back>>

(* Mistake: the thread that sleeps is not notified.                        *)
AddEventSilently(e, period) ==
    /\ lock[runner] = NoThread
    /\ m_pending_waits' = m_pending_waits - 1
    /\ place' = IF place = "none" THEN "start" ELSE place
    /\ m_scheduler' = AddEvent(m_scheduler, e, period)
    /\ UNCHANGED <<notified, event, is_back_to_back>>

(* With the lock: the thread is started by the first event.                *)
AddEventLocked(e, period) ==
    /\ lock[runner] = NoThread
    /\ m_pending_waits' = m_pending_waits - 1
    /\ place' = IF place = "none" THEN "start" ELSE place
    /\ m_scheduler' = AddEvent(m_scheduler, e, period)
    /\ NotifyAll
    /\ UNCHANGED <<event, is_back_to_back>>

(* Mistake: the event is removed while the thread may be in its callback.  *)
RemoveEventUnlocked(e) ==
    /\ m_pending_waits' = m_pending_waits - 1
    /\ m_scheduler' = RemoveEvent(m_scheduler, e)
    /\ NotifyAll
    /\ UNCHANGED <<place, event, is_back_to_back>>

RemoveEventLocked(e) ==
    /\ lock[runner] = NoThread
    /\ m_pending_waits' = m_pending_waits - 1
    /\ m_scheduler' = RemoveEvent(m_scheduler, e)
    /\ NotifyAll
    /\ UNCHANGED <<place, event, is_back_to_back>>

(* The override of cancel(), once it has the lock.                         *)
RunnerCancelled(t) ==
    /\ t # worker /\ TopIs(t, "held") /\ Top(t).node = runner
    /\ Leave(t)
    /\ NotifyAll
    /\ UNCHANGED <<m_scheduler, m_pending_waits, place, event, is_back_to_back>>

-----------------------------------------------------------------------------
(* thread_loop.                                                            *)

Start ==
    /\ RunnerMoves("start", "top") /\ Enter(worker, runner)
    /\ UNCHANGED <<m_scheduler, m_pending_waits, notified, event, is_back_to_back>>

(* The top of the loop, where run(event) has returned: stop, give way to   *)
(* whoever asks for the lock, or look for an event.                        *)
Stop ==
    /\ runner \in cancelled
    /\ place \in {"top", "none due"} /\ place' = "over"
    /\ Leave(worker)
    /\ UNCHANGED <<m_scheduler, m_pending_waits, notified, event, is_back_to_back>>

Yield ==
    /\ RunnerMoves("top", "yield")
    /\ runner \notin cancelled /\ m_pending_waits > 0
    /\ Leave(worker) /\ notified' = FALSE
    /\ UNCHANGED <<m_scheduler, m_pending_waits, event, is_back_to_back>>

DoNotYield ==
    /\ RunnerMoves("top", "request") /\ TopIs(worker, "held")
    /\ runner \notin cancelled /\ m_pending_waits = 0
    /\ UNCHANGED <<scopeVars, m_scheduler, m_pending_waits, notified, event,
                   is_back_to_back>>

(* It wakes up with the lock, and may have to sleep again.                 *)
YieldAgain ==
    /\ place = "yield" /\ notified /\ lock[runner] = NoThread
    /\ m_pending_waits > 0
    /\ notified' = FALSE
    /\ UNCHANGED <<scopeVars, m_scheduler, m_pending_waits, place, event,
                   is_back_to_back>>

YieldOver ==
    /\ RunnerMoves("yield", "request") /\ notified /\ m_pending_waits = 0
    /\ Enter(worker, runner) /\ notified' = FALSE
    /\ UNCHANGED <<m_scheduler, m_pending_waits, event, is_back_to_back>>

RequestEvent ==
    LET next == RequestNextEvent(m_scheduler)
    IN  /\ place = "request"
        /\ m_scheduler' = next.then /\ event' = next.event
        /\ IF next.event # NoEvent
           THEN place' = "run" /\ UNCHANGED is_back_to_back
           ELSE place' = "none due" /\ is_back_to_back' = FALSE
        /\ UNCHANGED <<scopeVars, m_pending_waits, notified>>

(* What run(event) leaves behind.                                          *)
HasRun ==
    /\ RunnerMoves("run", "top") /\ TopIs(worker, "held")
    /\ is_back_to_back' = TRUE /\ event' = NoEvent
    /\ UNCHANGED <<m_scheduler, m_pending_waits, notified>>

(* Between the look at the flag and the sleep the lock is still held.      *)
NotStopped ==
    /\ RunnerMoves("none due", "to sleep") /\ runner \notin cancelled
    /\ UNCHANGED <<scopeVars, m_scheduler, m_pending_waits, notified, event,
                   is_back_to_back>>

Sleep ==
    /\ RunnerMoves("to sleep", "sleep")
    /\ Leave(worker) /\ notified' = FALSE
    /\ UNCHANGED <<m_scheduler, m_pending_waits, event, is_back_to_back>>

WakeUp ==
    /\ RunnerMoves("sleep", "top")
    /\ notified \/ NextEventIsDue(m_scheduler)
    /\ Enter(worker, runner) /\ notified' = FALSE
    /\ UNCHANGED <<m_scheduler, m_pending_waits, event, is_back_to_back>>

RunnerStep ==
    \/ Start \/ Stop \/ Yield \/ DoNotYield \/ YieldAgain \/ YieldOver
    \/ RequestEvent \/ NotStopped \/ Sleep \/ WakeUp

(* The clock goes on while the thread does something else too.             *)
Tick ==
    /\ \E i \in 1..Len(m_scheduler.schedule) :
          m_scheduler.schedule[i].in > -MaxPeriod
    /\ m_scheduler' = TimePasses(m_scheduler)
    /\ UNCHANGED <<scopeVars, m_pending_waits, place, notified, event,
                   is_back_to_back>>
=============================================================================
