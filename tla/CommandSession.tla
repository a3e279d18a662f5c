---------------------------- MODULE CommandSession ----------------------------
(***************************************************************************)
(* AsyncCommandSession: a program hands commands to a thread that runs     *)
(* them one after the other, and replaces or stops them while they run.    *)
(*                                                                         *)
(* A command set is two scopes, the set's own in the program's and the     *)
(* BotBaseContext of its commands in that.  The session is a leaf of the   *)
(* tree, whose lock is m_lock, and its cancel() cancels the context of the *)
(* set that is current.  The connection and the commands are external: a   *)
(* command takes as long as it likes, may throw, and ends once it has been *)
(* cancelled and the device was told to stop, or the connection is down.   *)
(***************************************************************************)
EXTENDS CancellableScope

CONSTANTS
    root, session,
    user, stopper, commander,  \* the program, who stops it, thread_loop
    Sets, NoSet,               \* the command sets there is memory for
    MaxCalls                   \* bound: the calls that the program makes

ScopeOf(c) == <<"scope", c>>
ContextOf(c) == <<"context", c>>

ASSUME CommandAssumption ==
    /\ {root} \cup {ScopeOf(c) : c \in Sets} \cup {ContextOf(c) : c \in Sets}
       \subseteq Scopes
    /\ session \in Leaves /\ NoSet \notin Sets /\ MaxCalls \in Nat
    /\ {user, stopper, commander} \subseteq Threads
    /\ user # stopper /\ commander \notin {user, stopper}
    /\ <<root, session>> \in Below
    /\ \A c \in Sets : {<<root, ScopeOf(c)>>, <<ScopeOf(c), ContextOf(c)>>,
                         <<session, ContextOf(c)>>} \subseteq Below

VARIABLES
    op,          \* the program's call
    at,          \* where it is
    pending,     \* its local variable
    m_current,
    current,     \* thread_loop's local variable
    thread,      \* where thread_loop is
    failed,      \* it ended with an exception of a command
    asleep,      \* the threads that sleep on m_cv
    told,        \* the session's cancel() has told the current set
    stopped,     \* the sets whose commands the device was told to stop
    serial_up,
    done_calls

sessionVars == <<op, at, pending, m_current, current, thread, failed, asleep,
                 told, stopped, serial_up, done_calls>>
vars == <<scopeVars, sessionVars>>

Init ==
    /\ alive = {root} /\ ScopeInit
    /\ op = "none" /\ at = "none" /\ pending = NoSet
    /\ m_current = NoSet /\ current = NoSet /\ thread = "none"
    /\ failed = FALSE /\ asleep = {} /\ told = FALSE /\ stopped = {}
    /\ serial_up = TRUE /\ done_calls = 0

UserMoves(from, to) == at = from /\ at' = to
ThreadMoves(from, to) == thread = from /\ thread' = to

(* A part of the code that holds m_lock and calls nothing else.            *)
HasLock == lock[session] = NoThread /\ UNCHANGED scopeVars

(* ~CommandSet: the context and then the scope, each of which detaches     *)
(* before it is gone.                                                      *)
Gone(c) == {ContextOf(c), ScopeOf(c)} \cap alive = {}

DropSet(t, c) ==
    \/ Detach(t, ContextOf(c))
    \/ Destroyed(ContextOf(c))
    \/ ContextOf(c) \notin alive /\ (Detach(t, ScopeOf(c)) \/ Destroyed(ScopeOf(c)))

-----------------------------------------------------------------------------
(* The program.                                                            *)

Construct ==
    /\ UserMoves("none", "idle") /\ Attach(user, session, root)
    /\ thread' = "look"
    /\ UNCHANGED <<op, pending, m_current, current, failed, asleep, told, stopped,
                   serial_up, done_calls>>

ConstructThrows ==
    /\ UserMoves("none", "over") /\ AttachThrows(user, root)
    /\ UNCHANGED <<scopeVars, op, pending, m_current, current, thread, failed, asleep,
                   told, stopped, serial_up, done_calls>>

Calls(o) == op' = o /\ done_calls < MaxCalls /\ done_calls' = done_calls + 1

(* dispatch: the set is built outside the lock.                            *)
Dispatch ==
    /\ UserMoves("idle", "build") /\ Calls("dispatch")
    /\ \E c \in Sets :
          /\ c # current /\ Gone(c) /\ Attach(user, ScopeOf(c), root)
          /\ pending' = c /\ stopped' = stopped \ {c}
    /\ UNCHANGED <<m_current, current, thread, failed, asleep, told, serial_up>>

DispatchThrows ==
    /\ UserMoves("idle", "destroy") /\ Calls("dispatch")
    /\ AttachThrows(user, root)
    /\ UNCHANGED <<scopeVars, pending, m_current, current, thread, failed, asleep, told,
                   stopped, serial_up>>

BuildContext ==
    /\ UserMoves("build", "lock")
    /\ Attach(user, ContextOf(pending), ScopeOf(pending))
    /\ UNCHANGED <<op, pending, m_current, current, thread, failed, asleep, told, stopped,
                   serial_up, done_calls>>

BuildContextThrows ==
    /\ UserMoves("build", "drop") /\ AttachThrows(user, ScopeOf(pending))
    /\ op' = "throw"
    /\ UNCHANGED <<scopeVars, pending, m_current, current, thread, failed, asleep, told,
                   stopped, serial_up, done_calls>>

StopCommand ==
    /\ UserMoves("idle", "lock") /\ Calls("stop_command")
    /\ UNCHANGED <<scopeVars, pending, m_current, current, thread, failed, asleep, told,
                   stopped, serial_up>>

(* With the lock: the current set is cancelled, and waited for.            *)
CancelCommand ==
    /\ at = "lock" /\ session \notin cancelled /\ m_current # NoSet
    /\ at' = "locked" /\ Enter(user, session)
    /\ UNCHANGED <<op, pending, m_current, current, thread, failed, asleep, told, stopped,
                   serial_up, done_calls>>

CancelContext ==
    /\ UserMoves("locked", "interrupt")
    /\ CallCancel(user, ContextOf(m_current), NoException)
    /\ UNCHANGED <<op, pending, m_current, current, thread, failed, asleep, told, stopped,
                   serial_up, done_calls>>

(* cancel_now and cancel_lazy go on to the device, and throw when the      *)
(* connection is down; otherwise m_cv.wait looks at its condition.         *)
Interrupt ==
    /\ at = "interrupt" /\ TopIs(user, "held") /\ Leave(user)
    /\ IF serial_up
       THEN /\ stopped' = stopped \cup {m_current}
            /\ asleep' = IF session \in cancelled THEN asleep ELSE asleep \cup {user}
            /\ at' = "asleep" /\ UNCHANGED op
       ELSE /\ at' = "drop" /\ op' = "throw" /\ UNCHANGED <<stopped, asleep>>
    /\ UNCHANGED <<pending, m_current, current, thread, failed, told, serial_up,
                   done_calls>>

Awake(t) == t \notin asleep

SleepAgain ==
    /\ at = "asleep" /\ Awake(user) /\ HasLock
    /\ m_current # NoSet /\ (op = "wait" \/ session \notin cancelled)
    /\ asleep' = asleep \cup {user}
    /\ UNCHANGED <<op, at, pending, m_current, current, thread, failed, told, stopped,
                   serial_up, done_calls>>

(* Mistake: nobody is notified of the new set.                             *)
StoreSilently ==
    /\ m_current' = pending /\ pending' = NoSet
    /\ UNCHANGED asleep

Store ==
    /\ m_current' = pending /\ pending' = NoSet
    /\ asleep' = {}

(* Mistake: the set that is current is replaced at once.                   *)
MayGoOnAtOnce == at = "lock" \/ (at = "asleep" /\ Awake(user))

(* Nothing is current, or the session has been cancelled.                  *)
MayGoOn ==
    /\ at = "lock" \/ (at = "asleep" /\ Awake(user))
    /\ m_current = NoSet \/ session \in cancelled

GoOn ==
    /\ op # "wait" /\ MayGoOn /\ HasLock
    /\ IF op = "dispatch" /\ session \notin cancelled
       THEN Store
       ELSE UNCHANGED <<m_current, pending, asleep>>
    /\ at' = "drop"
    /\ UNCHANGED <<op, current, thread, failed, told, stopped, serial_up,
                   done_calls>>

(* A set that has not been stored goes as the call returns or throws.      *)
DropPending ==
    /\ at = "drop" /\ pending # NoSet /\ DropSet(user, pending)
    /\ UNCHANGED sessionVars

CallOver ==
    /\ at = "drop" /\ (pending # NoSet => Gone(pending))
    /\ at' = IF op = "throw" THEN "destroy" ELSE "idle"
    /\ op' = "none" /\ pending' = NoSet
    /\ UNCHANGED <<scopeVars, m_current, current, thread, failed, asleep, told, stopped,
                   serial_up, done_calls>>

(* wait() looks at m_current only.                                         *)
Wait ==
    /\ UserMoves("idle", "asleep") /\ Calls("wait") /\ HasLock
    /\ UNCHANGED <<pending, m_current, current, thread, failed, asleep, told, stopped,
                   serial_up>>

WaitOver ==
    /\ at = "asleep" /\ op = "wait" /\ Awake(user) /\ HasLock
    /\ m_current = NoSet
    /\ at' = "drop"
    /\ UNCHANGED <<op, pending, m_current, current, thread, failed, asleep, told, stopped,
                   serial_up, done_calls>>

(* stop_session_and_rethrow.                                               *)
StopSession ==
    /\ UserMoves("idle", "stop") /\ CallCancel(user, session, NoException)
    /\ UNCHANGED <<op, pending, m_current, current, thread, failed, asleep, told, stopped,
                   serial_up, done_calls>>

SessionStopped ==
    /\ UserMoves("stop", "destroy")
    /\ calls[user] = <<>> /\ thread = "over"
    /\ UNCHANGED <<scopeVars, op, pending, m_current, current, thread, failed, asleep,
                   told, stopped, serial_up, done_calls>>

(* ~AsyncCommandSession, with or without it.                               *)
DetachSession ==
    /\ at \in {"idle", "destroy"} /\ at' = "cancel" /\ Detach(user, session)
    /\ UNCHANGED <<op, pending, m_current, current, thread, failed, asleep, told, stopped,
                   serial_up, done_calls>>

CancelSession ==
    /\ UserMoves("cancel", "join") /\ CallCancel(user, session, NoException)
    /\ UNCHANGED <<op, pending, m_current, current, thread, failed, asleep, told, stopped,
                   serial_up, done_calls>>

Joined == at = "join" /\ calls[user] = <<>> /\ thread = "over"

DropCurrent ==
    /\ Joined /\ m_current # NoSet /\ DropSet(user, m_current)
    /\ UNCHANGED sessionVars

SessionGone ==
    /\ Joined /\ (m_current # NoSet => Gone(m_current))
    /\ Destroyed(session)
    /\ at' = "over" /\ m_current' = NoSet
    /\ UNCHANGED <<op, pending, current, thread, failed, asleep, told, stopped,
                   serial_up, done_calls>>

-----------------------------------------------------------------------------
(* cancel() of the session, of a context and of the program.               *)

InCancel(t) ==
    /\ TopIs(t, "held") /\ Top(t).node = session
    /\ t = stopper \/ (t = user /\ at \in {"stop", "join"})

(* Mistake: the set that is current is left to finish.                     *)
TellNobody(t) ==
    /\ InCancel(t) /\ ~told /\ told' = TRUE
    /\ UNCHANGED <<scopeVars, op, at, pending, m_current, current, thread, failed,
                   asleep, stopped, serial_up, done_calls>>

TellCurrent(t) ==
    /\ InCancel(t) /\ ~told /\ told' = TRUE
    /\ IF m_current # NoSet
       THEN CallCancel(t, ContextOf(m_current), Top(t).exc)
       ELSE UNCHANGED scopeVars
    /\ UNCHANGED <<op, at, pending, m_current, current, thread, failed, asleep, stopped,
                   serial_up, done_calls>>

(* Mistake: those who sleep on m_cv are not notified.                      *)
SessionCancelledSilently(t) ==
    /\ InCancel(t) /\ told /\ Leave(t)
    /\ UNCHANGED sessionVars

SessionCancelled(t) ==
    /\ InCancel(t) /\ told /\ Leave(t)
    /\ asleep' = {}
    /\ UNCHANGED <<op, at, pending, m_current, current, thread, failed, told, stopped,
                   serial_up, done_calls>>

(* The override of a context tells the device; Interrupt does it for the   *)
(* calls that do not come through it.                                      *)
CancelReturns(t) ==
    /\ Return(t)
    /\ stopped' = stopped \cup {c \in Sets :
          Top(t).node = ContextOf(c) /\ ~(t = user /\ at = "interrupt")}
    /\ UNCHANGED <<op, at, pending, m_current, current, thread, failed, asleep, told,
                   serial_up, done_calls>>

CancelStep(t) ==
    \/ /\ SetFlag(t) \/ TakeLock(t) \/ CancelChild(t) \/ ScopeDone(t)
       /\ UNCHANGED sessionVars
    \/ TellCurrent(t) \/ SessionCancelled(t) \/ CancelReturns(t)

(* stop_program takes the connection down first, a callback does not.      *)
SerialStops ==
    /\ calls[stopper] = <<>> /\ root \notin cancelled /\ serial_up /\ serial_up' = FALSE
    /\ UNCHANGED <<scopeVars, op, at, pending, m_current, current, thread, failed, asleep,
                   told, stopped, done_calls>>

CancelProgram ==
    /\ calls[stopper] = <<>> /\ root \notin cancelled
    /\ \E e \in Exceptions : CallCancel(stopper, root, e)
    /\ UNCHANGED sessionVars

-----------------------------------------------------------------------------
(* thread_loop.                                                            *)

TakeCommand ==
    /\ thread = "look" /\ Awake(commander) /\ HasLock
    /\ \/ session \in cancelled /\ thread' = "over" /\ UNCHANGED <<current, asleep>>
       \/ /\ session \notin cancelled /\ m_current # NoSet
          /\ thread' = "run" /\ current' = m_current /\ UNCHANGED asleep
       \/ /\ session \notin cancelled /\ m_current = NoSet
          /\ asleep' = asleep \cup {commander} /\ UNCHANGED <<thread, current>>
    /\ UNCHANGED <<op, at, pending, m_current, failed, told, stopped, serial_up,
                   done_calls>>

(* The commands return or throw an OperationCancelledException ...         *)
CommandEnds ==
    /\ ThreadMoves("run", "ran")
    /\ UNCHANGED <<scopeVars, op, at, pending, m_current, current, failed, asleep, told,
                   stopped, serial_up, done_calls>>

(* ... or anything else: what the scope was cancelled with, that the       *)
(* connection is down, an exception of their own.  The thread ends.        *)
CommandThrows ==
    /\ ThreadMoves("run", "over") /\ failed' = TRUE
    /\ UNCHANGED <<scopeVars, op, at, pending, m_current, current, asleep, told, stopped,
                   serial_up, done_calls>>

(* Mistake: done is moved out without the lock.                            *)
MoveUnlocked ==
    /\ ThreadMoves("ran", "done") /\ UNCHANGED scopeVars
    /\ m_current' = NoSet /\ asleep' = {}
    /\ UNCHANGED <<op, at, pending, current, failed, told, stopped, serial_up,
                   done_calls>>

MoveDone ==
    /\ ThreadMoves("ran", "done") /\ HasLock
    /\ m_current' = NoSet /\ asleep' = {}
    /\ UNCHANGED <<op, at, pending, current, failed, told, stopped, serial_up,
                   done_calls>>

DropDone ==
    /\ thread = "done" /\ DropSet(commander, current)
    /\ UNCHANGED sessionVars

DoneGone ==
    /\ ThreadMoves("done", "look") /\ Gone(current) /\ current' = NoSet
    /\ UNCHANGED <<scopeVars, op, at, pending, m_current, failed, asleep, told, stopped,
                   serial_up, done_calls>>

-----------------------------------------------------------------------------

CallStep ==
    \/ BuildContext \/ BuildContextThrows \/ CancelCommand \/ CancelContext
    \/ Interrupt \/ SleepAgain \/ GoOn \/ DropPending \/ CallOver \/ WaitOver
    \/ SessionStopped \/ (at # "idle" /\ DetachSession) \/ CancelSession
    \/ DropCurrent \/ SessionGone

CommandStep == CommandEnds \/ CommandThrows
ThreadStep == TakeCommand \/ MoveDone \/ DropDone \/ DoneGone

Next ==
    \/ Construct \/ ConstructThrows \/ Dispatch \/ DispatchThrows
    \/ StopCommand \/ Wait \/ StopSession \/ DetachSession
    \/ CallStep \/ ThreadStep \/ CommandStep \/ SerialStops \/ CancelProgram
    \/ \E t \in {user, stopper} : CancelStep(t)

Spec == Init /\ [][Next]_vars

(* Every thread goes on.  The program has to make no call, and a command   *)
(* to end only when its context is cancelled and it is stopped.            *)
MustEnd ==
    ContextOf(current) \in cancelled /\ (current \in stopped \/ ~serial_up)

Fairness ==
    /\ WF_vars(CallStep) /\ WF_vars(ThreadStep)
    /\ WF_vars(CommandStep /\ MustEnd)
    /\ \A t \in {user, stopper} : WF_vars(CancelStep(t))

FairSpec == Spec /\ Fairness

-----------------------------------------------------------------------------
(* Properties.                                                             *)

(* The session keeps to what the tree of scopes asks of its users: no set  *)
(* is built or destroyed under the lock, which a cancel from above would   *)
(* wait for, and none while somebody cancels it (dispatch, thread_loop).   *)
KeepsToScopes == ScopeSpec

(* The set whose commands run without the lock stays the current one, and  *)
(* alive, however it is replaced or stopped meanwhile (thread_loop).       *)
CommandOutlivesRun ==
    thread = "run" => m_current = current /\ ContextOf(current) \in alive

(* When the session's cancel() is over, no command runs on that has not    *)
(* been cancelled and stopped too (cancel, dispatch, thread_loop).         *)
CancelReachesCommand ==
    session \in cancelled /\ thread = "run" =>
        \/ ContextOf(current) \in cancelled
        \/ \E t \in Threads : \E i \in 1..Depth(t) : calls[t][i].node = session

(* Somebody is in the session's cancel() and has yet to notify.            *)
Telling ==
    \E t \in Threads : \E i \in 1..Depth(t) :
        /\ calls[t][i].node = session /\ calls[t][i].at \in {"lock", "held"}
        /\ t = user => at \in {"stop", "join"}

(* Nobody sleeps on m_cv once what it waits for is there: a set that the   *)
(* thread is to run, or that no set is current any more.  Nor does anybody *)
(* but wait() sleep through the session's cancel(), which sets the flag    *)
(* before it takes the lock (cancel, dispatch, thread_loop).               *)
NobodyOversleeps ==
    \A t \in asleep :
       /\ t = commander => m_current = NoSet
       /\ t = user => m_current # NoSet
       /\ session \in cancelled => Telling \/ (t = user /\ op = "wait")

(* A set that has been dispatched is run, unless the session is over       *)
(* (dispatch, thread_loop).                                                *)
DispatchedIsRun ==
    \A c \in Sets : m_current = c ~> current = c \/ thread = "over"

(* dispatch() and stop_command() return when the command ends, and when    *)
(* the session is cancelled; not when the thread has ended because of an   *)
(* exception, until it is (m_cv.wait).  A program that is stopped comes to *)
(* its end, unless it is in wait().                                        *)
CallsReturn ==
    /\ at = "asleep" /\ op # "wait" ~>
           at # "asleep" \/ (failed /\ session \notin cancelled)
    /\ root \in cancelled ~> at \in {"none", "idle", "over"} \/ op = "wait"
=============================================================================
