---------------------------- MODULE ProgramSession ----------------------------
(***************************************************************************)
(* ProgramSession with SingleSwitchProgramSession: a program is started    *)
(* and stopped by the user and by remote commands, and runs in a thread of *)
(* its own on the PABotBase that the BotBaseHandle had when it started.    *)
(*                                                                         *)
(* Each part of the code under the session's m_lock is one step.  The      *)
(* program is external: it goes on as long as it likes, and ends once its  *)
(* scope is cancelled (CommandSession, InferenceSession).                  *)
(***************************************************************************)
EXTENDS BotBaseHandle

CONSTANTS
    ui,          \* the caller that is the user interface
    Asked,       \* what is asked for: "start", "stop", "reset"
    MaxRuns      \* bound: the programs that are started

ASSUME ProgramAssumption ==
    ui \in Callers /\ MaxRuns \in Nat /\ Asked \subseteq {"start", "stop", "reset"}

VARIABLES
    m_state,
    runs,        \* the programs started so far
    run,         \* where the program's thread is
    sender,      \* the object its environment has
    m_scope,     \* the run whose scope it points to, or 0
    cancelled,   \* the scope of the run has been cancelled
    at,          \* per caller: where it is in stop_program
    found,       \* per caller: the scope it has loaded
    m_lock,      \* who has SingleSwitchProgramSession::m_lock
    ui_state     \* the state that the user interface goes by

programVars == <<m_state, runs, run, sender, m_scope, cancelled, at, found,
                 m_lock, ui_state>>
sessionVars == <<handleVars, programVars>>

ProgramInit ==
    /\ HandleInit
    /\ m_state = "STOPPED" /\ runs = 0 /\ run = "over" /\ sender = 0
    /\ m_scope = 0 /\ cancelled = FALSE
    /\ at = [t \in Callers |-> "idle"] /\ found = [t \in Callers |-> 0]
    /\ m_lock = NoCaller /\ ui_state = "STOPPED"

CallerMoves(t, from, to) == at[t] = from /\ at' = [at EXCEPT ![t] = to]
RunMoves(from, to) == run = from /\ run' = to

-----------------------------------------------------------------------------
(* The program's thread.                                                   *)

(* run_program loads the statistics, internal_run_program takes botbase(). *)
MakeEnvironment ==
    /\ RunMoves("start", "env") /\ sender' = m_botbase
    /\ UNCHANGED <<handleVars, m_state, runs, m_scope, cancelled, at, found, m_lock,
                   ui_state>>

(* run_program_instance throws unless the connection is ready, and when    *)
(* the program's options are not valid or the video's check fails.         *)
CheckReady ==
    /\ \/ h_state = "READY" /\ RunMoves("env", "ready")
       \/ RunMoves("env", "finish")
    /\ UNCHANGED <<handleVars, m_state, runs, sender, m_scope, cancelled, at, found,
                   m_lock, ui_state>>

StoreScope ==
    /\ RunMoves("ready", "program") /\ m_scope' = runs
    /\ UNCHANGED <<handleVars, m_state, runs, sender, cancelled, at, found, m_lock,
                   ui_state>>

(* The program returns or throws.                                          *)
ProgramEnds ==
    /\ RunMoves("program", "finish") /\ m_scope' = 0
    /\ UNCHANGED <<handleVars, m_state, runs, sender, cancelled, at, found, m_lock,
                   ui_state>>

(* The scope is destroyed, with what else internal_run_program has.        *)
ScopeGone ==
    /\ RunMoves("finish", "save") /\ cancelled' = FALSE
    /\ UNCHANGED <<handleVars, m_state, runs, sender, m_scope, at, found, m_lock,
                   ui_state>>

SaveStats ==
    /\ RunMoves("save", "over") /\ m_state' = "STOPPED"
    /\ UNCHANGED <<handleVars, runs, sender, m_scope, cancelled, at, found, m_lock,
                   ui_state>>

-----------------------------------------------------------------------------
(* start_program, stop_program.                                            *)

Idle(t) == at[t] = "idle" /\ At(t, "out")

StartProgram(t) ==
    /\ "start" \in Asked /\ Idle(t) /\ (t = ui => ui_state = "STOPPED")
    /\ m_state = "STOPPED" /\ runs < MaxRuns
    /\ run = "over"               \* join_program_thread
    /\ m_state' = "RUNNING" /\ run' = "start" /\ runs' = runs + 1
    /\ UNCHANGED <<handleVars, sender, m_scope, cancelled, at, found, m_lock, ui_state>>

(* Mistake: the state is looked at without the lock, before.               *)
StopProgramUnlocked(t) ==
    /\ "stop" \in Asked /\ Idle(t) /\ (t = ui => ui_state = "RUNNING")
    /\ runs > 0
    /\ CallerMoves(t, "idle", "stop")
    /\ m_state' = "STOPPING"
    /\ UNCHANGED <<handleVars, runs, run, sender, m_scope, cancelled, found, m_lock,
                   ui_state>>

StopProgram(t) ==
    /\ "stop" \in Asked /\ Idle(t) /\ (t = ui => ui_state = "RUNNING")
    /\ m_state = "RUNNING"
    /\ CallerMoves(t, "idle", "stop")
    /\ m_state' = "STOPPING"
    /\ UNCHANGED <<handleVars, runs, run, sender, m_scope, cancelled, found, m_lock,
                   ui_state>>

(* internal_stop_program, one at a time.                                   *)
InternalStop(t) ==
    /\ CallerMoves(t, "stop", "stop handle") /\ m_lock = NoCaller /\ m_lock' = t
    /\ UNCHANGED <<handleVars, m_state, runs, run, sender, m_scope, cancelled, found,
                   ui_state>>

(* A call of the handle, and its return.                                   *)
CallHandle(t, from, what, to) ==
    /\ CallerMoves(t, from, to) /\ EnterHandle(t, what)
    /\ UNCHANGED <<m_state, runs, run, sender, m_scope, cancelled, found, m_lock, ui_state>>

StopHandle(t) == CallHandle(t, "stop handle", "stop", "load")

LoadScope(t) ==
    /\ CallerMoves(t, "load", "cancel") /\ At(t, "out")
    /\ found' = [found EXCEPT ![t] = m_scope]
    /\ UNCHANGED <<handleVars, m_state, runs, run, sender, m_scope, cancelled, m_lock,
                   ui_state>>

(* The run whose scope has been loaded may be over.                        *)
CancelScope(t) ==
    /\ CallerMoves(t, "cancel", "spin")
    /\ cancelled' = (cancelled \/ (found[t] = runs /\ run \in {"program", "finish"}))
    /\ found' = [found EXCEPT ![t] = 0]
    /\ UNCHANGED <<handleVars, m_state, runs, run, sender, m_scope, m_lock, ui_state>>

Spin(t) ==
    /\ CallerMoves(t, "spin", "reset: stop") /\ m_scope = 0
    /\ UNCHANGED <<handleVars, m_state, runs, run, sender, m_scope, cancelled, found,
                   m_lock, ui_state>>

(* SerialPortSession::reset, one at a time too.                            *)
NobodyResets == \A t \in Callers : at[t] \notin {"reset", "done"}
ResetStops(t) == NobodyResets /\ CallHandle(t, "reset: stop", "stop", "reset")
ResetOpens(t) == At(t, "out") /\ CallHandle(t, "reset", "reset", "done")

Done(t) ==
    /\ CallerMoves(t, "done", "idle") /\ At(t, "out")
    /\ m_lock' = IF m_lock = t THEN NoCaller ELSE m_lock
    /\ UNCHANGED <<handleVars, m_state, runs, run, sender, m_scope, cancelled, found,
                   ui_state>>

-----------------------------------------------------------------------------
(* The user interface is told of each state, and lets the connection be    *)
(* reset, by itself and by remote commands, when it goes by STOPPED.       *)

UpdateUi ==
    /\ Idle(ui) /\ ui_state # m_state /\ ui_state' = m_state
    /\ UNCHANGED <<handleVars, m_state, runs, run, sender, m_scope, cancelled, at, found,
                   m_lock>>

ResetButton ==
    /\ "reset" \in Asked /\ Idle(ui) /\ ui_state = "STOPPED" /\ NobodyResets
    /\ CallHandle(ui, "idle", "stop", "reset")

RemoteReset(t) ==
    /\ "reset" \in Asked /\ Idle(t) /\ t # ui /\ TryReset(t, ui_state = "STOPPED")
    /\ UNCHANGED programVars

-----------------------------------------------------------------------------

Running == status # "crashed"

ProgramStep ==
    Running /\ (MakeEnvironment \/ CheckReady \/ StoreScope \/ ScopeGone \/ SaveStats)

CallerStep(t) ==
    /\ Running
    /\ \/ InternalStop(t) \/ StopHandle(t) \/ LoadScope(t) \/ CancelScope(t)
       \/ Spin(t) \/ ResetStops(t) \/ ResetOpens(t) \/ Done(t)
       \/ HandleStep(t) /\ UNCHANGED programVars

Requests(t) ==
    Running /\ (StartProgram(t) \/ StopProgram(t) \/ RemoteReset(t))

ProgramNext ==
    \/ ProgramStep
    \/ Running /\ (ProgramEnds \/ UpdateUi \/ ResetButton)
    \/ StatusStep /\ UNCHANGED programVars
    \/ \E t \in Callers : CallerStep(t) \/ Requests(t)

ProgramSpec == ProgramInit /\ [][ProgramNext]_sessionVars

(* Threads go on, and a program whose scope has been cancelled ends.  A    *)
(* caller that waits for a lock gets it however often others take it.      *)
Fairness ==
    /\ WF_sessionVars(ProgramStep) /\ WF_sessionVars(Running /\ cancelled /\ ProgramEnds)
    /\ WF_sessionVars(StatusStep /\ UNCHANGED programVars)
    /\ WF_sessionVars(WatchdogEnds /\ UNCHANGED programVars)
    /\ \A t \in Callers : SF_sessionVars(CallerStep(t))

FairProgramSpec == ProgramSpec /\ Fairness

-----------------------------------------------------------------------------
(* Properties.                                                             *)

(* The state says whether there is a program's thread, whoever starts and  *)
(* stops programs while they end by themselves (start_program,             *)
(* stop_program, run_program).                                             *)
StateMatchesThread == m_state = "STOPPED" <=> run = "over"

(* The object is not replaced while the status thread or the watchdog      *)
(* thread uses it (stop_unprotected, reset_unprotected).                   *)
ThreadsUseLive ==
    [][m_botbase' # m_botbase => status = "over" /\ watchdog # "poll"]_sessionVars

(* Whoever stops a program or resets the connection comes back: unless     *)
(* the status thread stores READY over SHUTDOWN, crashes, or waits for the *)
(* lock to store an error while the lock's holder waits for that thread,   *)
(* or unless the scope was stored after stop_program has looked for it     *)
(* (internal_stop_program, stop_unprotected, thread_body).                 *)
NotCancelled ==
    run = "program" /\ ~cancelled /\ \E t \in Callers : at[t] = "spin"

Embraced ==
    status = "error" /\ \E t \in Callers : h_at[t] \in {"stop: join", "reset: join"}

StopReturns ==
    \A t \in Callers :
        ~Idle(t) ~> Idle(t) \/ NotCancelled \/ overwrote \/ Embraced \/ status = "crashed"

(* "Not thread-safe with stop() or reset().  The returned pointer will     *)
(* only be valid until the next call to stop()/reset()."                   *)
(* (BotBaseHandle.h): a program's thread does not use it any longer.       *)
SenderIsValid == run = "program" => sender = m_botbase
=============================================================================
