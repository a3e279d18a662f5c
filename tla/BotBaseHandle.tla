---------------------------- MODULE BotBaseHandle ----------------------------
(***************************************************************************)
(* BotBaseHandle: the owner of the PABotBase, which it stops and replaces, *)
(* and whose status it polls.                                              *)
(*                                                                         *)
(* m_state is shared by whoever stops or resets the handle, under m_lock,  *)
(* by the status thread, which mostly does without, and by the watchdog    *)
(* thread that the status thread starts.  Each sleep of the two ends by    *)
(* itself after SERIAL_REFRESH_RATE, and is left out.  The PABotBase is    *)
(* external: it is stopped or not, and a call on it fails once it is.      *)
(***************************************************************************)
EXTENDS Integers

CONSTANTS
    Callers, NoCaller,
    Objects            \* bound: the PABotBase objects there are, 1..Objects

ASSUME HandleAssumption == NoCaller \notin Callers /\ Objects \in Nat

VARIABLES
    h_state,     \* m_state
    h_lock,      \* who has m_lock
    h_at,        \* per caller: where it is in the handle
    m_botbase,   \* the object, numbered in the order they were made
    up,          \* it has not been stopped
    status,      \* where the status thread is
    watchdog,    \* where its watchdog thread is
    overwrote    \* READY was stored over SHUTDOWN (nothing reads it)

handleVars == <<h_state, h_lock, h_at, m_botbase, up, status, watchdog,
                overwrote>>

(* The constructor has connected, or not.                                  *)
HandleInit ==
    /\ h_lock = NoCaller /\ h_at = [t \in Callers |-> "out"]
    /\ m_botbase = 1 /\ up = TRUE /\ watchdog = "none"
    /\ overwrote = FALSE
    /\ h_state = "CONNECTING" /\ status = "connect"

At(t, place) == h_at[t] = place
Goes(t, from, to) == At(t, from) /\ h_at' = [h_at EXCEPT ![t] = to]

-----------------------------------------------------------------------------
(* stop(), reset() and try_reset().                                        *)

(* what: "stop", "reset"; it blocks until it has the lock.                 *)
EnterHandle(t, what) ==
    /\ h_lock = NoCaller /\ h_lock' = t
    /\ Goes(t, "out", what)
    /\ UNCHANGED <<h_state, m_botbase, up, status, watchdog, overwrote>>

TryReset(t, allowed) ==
    /\ h_lock = NoCaller /\ h_state = "READY" /\ allowed
    /\ EnterHandle(t, "reset")

(* stop_unprotected.                                                       *)
NothingToStop(t) ==
    /\ h_state = "NOT_CONNECTED"
    /\ \/ Goes(t, "stop", "leave") \/ Goes(t, "reset", "open")
    /\ UNCHANGED <<h_state, h_lock, m_botbase, up, status, watchdog, overwrote>>

(* Mistake: whoever polls is not told.                                     *)
StopSilently(t) ==
    /\ Goes(t, "stop", "stop: botbase") \/ Goes(t, "reset", "reset: botbase")
    /\ h_state \notin {"NOT_CONNECTED", "SHUTDOWN"}
    /\ UNCHANGED <<h_state, h_lock, m_botbase, up, status, watchdog, overwrote>>

StopUnprotected(t) ==
    /\ Goes(t, "stop", "stop: botbase") \/ Goes(t, "reset", "reset: botbase")
    /\ h_state \notin {"NOT_CONNECTED", "SHUTDOWN"}
    /\ h_state' = "SHUTDOWN"
    /\ UNCHANGED <<h_lock, m_botbase, up, status, watchdog, overwrote>>

StopBotBase(t) ==
    /\ \/ Goes(t, "stop: botbase", "stop: join")
       \/ Goes(t, "reset: botbase", "reset: join")
    /\ up' = FALSE
    /\ UNCHANGED <<h_state, h_lock, m_botbase, status, watchdog, overwrote>>

(* Mistake: the thread is left to end when it does.                        *)
JoinNothing(t) ==
    /\ Goes(t, "stop: join", "leave") \/ Goes(t, "reset: join", "open")
    /\ h_state' = "NOT_CONNECTED"
    /\ UNCHANGED <<h_lock, m_botbase, up, status, watchdog, overwrote>>

JoinStatusThread(t) ==
    /\ status = "over"
    /\ Goes(t, "stop: join", "leave") \/ Goes(t, "reset: join", "open")
    /\ h_state' = "NOT_CONNECTED"
    /\ UNCHANGED <<h_lock, m_botbase, up, status, watchdog, overwrote>>

(* The rest of reset_unprotected: the port can be opened, or not, and then *)
(* the object that is there stays.                                         *)
Open(t) ==
    /\ Goes(t, "open", "leave")
    /\ m_botbase < Objects
    /\ m_botbase' = m_botbase + 1 /\ up' = TRUE
    /\ h_state' = "CONNECTING" /\ status' = "connect"
    /\ UNCHANGED <<h_lock, watchdog, overwrote>>

CannotOpen(t) ==
    /\ Goes(t, "open", "leave")
    /\ UNCHANGED <<h_state, h_lock, m_botbase, up, status, watchdog, overwrote>>

LeaveHandle(t) ==
    /\ Goes(t, "leave", "out") /\ h_lock' = NoCaller
    /\ UNCHANGED <<h_state, m_botbase, up, status, watchdog, overwrote>>

HandleStep(t) ==
    \/ NothingToStop(t) \/ StopUnprotected(t) \/ StopBotBase(t)
    \/ JoinStatusThread(t) \/ Open(t) \/ CannotOpen(t) \/ LeaveHandle(t)

-----------------------------------------------------------------------------
(* thread_body, and the watchdog thread.                                   *)

StatusMoves(from, to) == status = from /\ status' = to
NothingElse == UNCHANGED <<h_lock, h_at, m_botbase, overwrote>>

Connect ==
    /\ \/ up /\ StatusMoves("connect", "verify") /\ UNCHANGED up
       \/ StatusMoves("connect", "over") /\ up' = FALSE
    /\ NothingElse /\ UNCHANGED <<h_state, watchdog>>

(* The three queries that verify the device.                               *)
Verify ==
    /\ \/ up /\ StatusMoves("verify", "ready") /\ UNCHANGED h_state
       \/ ~up /\ StatusMoves("verify", "over") /\ UNCHANGED h_state
       \/ StatusMoves("verify", "not verified") /\ h_state' = "STOPPED"
    /\ NothingElse /\ UNCHANGED <<up, watchdog>>

NotVerified ==
    /\ StatusMoves("not verified", "over") /\ up' = FALSE
    /\ NothingElse /\ UNCHANGED <<h_state, watchdog>>

StoreReady ==
    /\ StatusMoves("ready", "stop commands") /\ h_state' = "READY"
    /\ overwrote' = (h_state = "SHUTDOWN")
    /\ UNCHANGED <<h_lock, h_at, m_botbase, up, watchdog>>

(* Nothing catches what stop_all_commands throws when up is FALSE, or when *)
(* the connection has failed, and the application is terminated.           *)
StopCommands ==
    /\ \/ up /\ StatusMoves("stop commands", "poll") /\ watchdog' = "poll"
       \/ StatusMoves("stop commands", "crashed") /\ UNCHANGED watchdog
    /\ NothingElse /\ UNCHANGED <<h_state, up>>

(* The loop, once: it ends when the state is no longer READY or when the   *)
(* connection is down, and with an error of the connection.                *)
Poll ==
    /\ \/ h_state = "READY" /\ up /\ StatusMoves("poll", "poll")
       \/ (h_state # "READY" \/ ~up) /\ StatusMoves("poll", "join")
       \/ h_state = "READY" /\ StatusMoves("poll", "error")
    /\ NothingElse /\ UNCHANGED <<h_state, up, watchdog>>

(* It takes m_lock for this.                                               *)
Errored ==
    /\ StatusMoves("error", "join") /\ h_lock = NoCaller
    /\ h_state' = IF h_state = "READY" THEN "ERRORED" ELSE h_state
    /\ NothingElse /\ UNCHANGED <<up, watchdog>>

WatchdogEnds ==
    /\ watchdog = "poll" /\ h_state # "READY" /\ watchdog' = "over"
    /\ NothingElse /\ UNCHANGED <<h_state, up, status>>

JoinWatchdog ==
    /\ StatusMoves("join", "over") /\ watchdog = "over" /\ watchdog' = "none"
    /\ NothingElse /\ UNCHANGED <<h_state, up>>

StatusStep ==
    \/ Connect \/ Verify \/ NotVerified \/ StoreReady \/ StopCommands \/ Poll
    \/ Errored \/ WatchdogEnds \/ JoinWatchdog
=============================================================================
