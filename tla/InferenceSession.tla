-------------------------- MODULE InferenceSession --------------------------
(***************************************************************************)
(* wait_until and run_until: a program's thread waits, or sends commands,  *)
(* in a scope of its own, until a callback that looks at the video stops   *)
(* it, while the user may stop the program.                                *)
(*                                                                         *)
(* The composition of the tree of scopes, the PeriodicRunner, the          *)
(* VisualInferencePivot that is one, the InferenceSession that adds its    *)
(* callbacks, and the two routines.  The connection is external: a command *)
(* takes as long as it likes, and ends when stop_all_commands is done.     *)
(***************************************************************************)
EXTENDS PeriodicRunner

CONSTANTS
    root, sub,        \* the program's scope, and the one of the routine
    user, stopper,    \* the program's thread, and the one that cancels it
    Programs,         \* which routine with which callbacks, called
                      \* more than once or not, stopped or not
    MaxStale          \* bound: the entries of events that are gone

ASSUME SessionAssumption ==
    /\ {root, sub} \subseteq Scopes /\ {user, stopper} \subseteq Threads
    /\ user # stopper /\ worker \notin {user, stopper}
    /\ {<<root, sub>>, <<root, runner>>, <<runner, sub>>} \subseteq Below
    /\ Programs \subseteq [routine : {"wait_until", "run_until"},
                            callbacks : SUBSET Events, again : BOOLEAN,
                            stops : BOOLEAN]

VARIABLES
    program,         \* the one of Programs that runs
    at,              \* where it is
    threw,           \* an exception leaves it
    to_add,          \* the callbacks that it has not added yet
    m_map,           \* the callbacks of the pivot
    m_triggered,
    stopped,         \* stop_all_commands has been done for the routine
    up_to_date,      \* the callbacks whose last_seqnum is m_seqnum
    shown,           \* those that have been shown m_last (nothing reads it)
    has_slept,       \* since the last frame was taken (nothing reads it)
    overtaken        \* who ran since who was due (nothing reads it)

sessionVars == <<program, at, threw, to_add, m_map, m_triggered, stopped>>
pivotVars == <<up_to_date, shown, has_slept, overtaken>>
vars == <<scopeVars, runnerVars, sessionVars, pivotVars>>

(* The program's scope is there, and nothing else.                         *)
Init ==
    /\ RunnerInit
    /\ alive = {root} /\ ScopeInit
    /\ program \in Programs /\ at = "new" /\ threw = FALSE /\ to_add = {}
    /\ m_map = {} /\ m_triggered = NoEvent /\ stopped = FALSE
    /\ up_to_date = {} /\ shown = {} /\ has_slept = FALSE /\ overtaken = {}

UserMoves(from, to) == at = from /\ at' = to

-----------------------------------------------------------------------------
(* The routine, in the program's thread.                                   *)

(* The pivot attaches to the program's scope, or throws.                   *)
ConstructPivot ==
    /\ UserMoves("new", "idle") /\ Attach(user, runner, root)
    /\ UNCHANGED <<runnerVars, program, threw, to_add, m_map, m_triggered, stopped,
                   pivotVars>>

ConstructPivotThrows ==
    /\ UserMoves("new", "over") /\ AttachThrows(user, root)
    /\ UNCHANGED <<scopeVars, runnerVars, program, threw, to_add, m_map, m_triggered,
                   stopped, pivotVars>>

Begin ==
    /\ at = "idle"
    /\ Len(m_scheduler.schedule) <= MaxStale
    /\ at' = "add" /\ to_add' = program.callbacks
    /\ Attach(user, sub, root)
    /\ UNCHANGED <<runnerVars, program, threw, m_map, m_triggered, stopped,
                   pivotVars>>

(* The scope cannot be attached: the program's scope has been cancelled.   *)
BeginThrows ==
    /\ UserMoves("idle", "end") /\ AttachThrows(user, root)
    /\ UNCHANGED <<scopeVars, runnerVars, program, threw, to_add, m_map, m_triggered,
                   stopped, pivotVars>>

(* add_callback; PeriodicRunner::add_event looks at the flag first.        *)
AddCallback ==
    /\ UserMoves("add", "adding") /\ to_add # {} /\ runner \notin cancelled
    /\ AskForLock
    /\ UNCHANGED <<scopeVars, program, threw, to_add, m_map, m_triggered,
                   stopped, pivotVars>>

AddCallbackThrows ==
    /\ UserMoves("add", "clear") /\ to_add # {} /\ runner \in cancelled
    /\ threw' = TRUE
    /\ UNCHANGED <<scopeVars, runnerVars, program, to_add, m_map, m_triggered,
                   stopped, pivotVars>>

(* Its last_seqnum is zero, which is no frame's.                           *)
CallbackAdded ==
    /\ UserMoves("adding", "add")
    /\ \E e \in to_add, p \in Periods :
          /\ AddEventLocked(e, p)
          /\ m_map' = m_map \cup {e} /\ to_add' = to_add \ {e}
    /\ UNCHANGED <<scopeVars, program, threw, m_triggered, stopped, pivotVars>>

AllAdded ==
    /\ UserMoves("add", IF program.routine = "wait_until" THEN "wait" ELSE "command")
    /\ to_add = {}
    /\ UNCHANGED <<scopeVars, runnerVars, program, threw, to_add, m_map, m_triggered,
                   stopped, pivotVars>>

Wait ==
    /\ UserMoves("wait", "waiting") /\ WaitIn(user, sub)
    /\ UNCHANGED <<runnerVars, program, threw, to_add, m_map, m_triggered,
                   stopped, pivotVars>>

(* The deadline comes.                                                     *)
TimedOut ==
    /\ at = "waiting" /\ WaitEnds(user)
    /\ UNCHANGED <<runnerVars, sessionVars, pivotVars>>

(* wait_until returns, or throws the OperationCancelledException that is   *)
(* caught.                                                                 *)
Waited ==
    /\ \/ UserMoves("wait", "rethrow") /\ sub \in cancelled
       \/ UserMoves("waiting", "rethrow") /\ waiting[user] = NoScope
    /\ lock[sub] = NoThread
    /\ UNCHANGED <<scopeVars, runnerVars, program, threw, to_add, m_map, m_triggered,
                   stopped, pivotVars>>

(* The commands end by themselves, or with an exception of their own.      *)
CommandEnds ==
    /\ at = "command"
    /\ \/ at' = "rethrow" /\ UNCHANGED threw
       \/ at' = "clear" /\ threw' = TRUE
    /\ UNCHANGED <<scopeVars, runnerVars, program, to_add, m_map, m_triggered,
                   stopped, pivotVars>>

CommandCancelled ==
    /\ UserMoves("command", "rethrow") /\ sub \in cancelled /\ stopped
    /\ UNCHANGED <<scopeVars, runnerVars, program, threw, to_add, m_map, m_triggered,
                   stopped, pivotVars>>

Rethrow ==
    /\ at = "rethrow"
    /\ threw' = \/ sub \in cancelled /\ exception[sub] # NoException
                \/ root \in cancelled
    /\ at' = IF threw' THEN "clear" ELSE "result"
    /\ UNCHANGED <<scopeVars, runnerVars, program, to_add, m_map, m_triggered,
                   stopped, pivotVars>>

TriggeredIndex ==
    /\ UserMoves("result", "clear")
    /\ UNCHANGED <<scopeVars, runnerVars, program, threw, to_add, m_map, m_triggered,
                   stopped, pivotVars>>

(* ~InferenceSession: remove_callback for each of its callbacks.           *)
RemoveCallback ==
    /\ UserMoves("clear", "clearing") /\ m_map # {}
    /\ AskForLock
    /\ UNCHANGED <<scopeVars, program, threw, to_add, m_map, m_triggered,
                   stopped, pivotVars>>

CallbackRemoved ==
    /\ UserMoves("clearing", "clear")
    /\ \E e \in m_map :
          /\ RemoveEventLocked(e)
          /\ m_map' = m_map \ {e}
          /\ overtaken' = {o \in overtaken : e \notin {o[1], o[2]}}
          /\ up_to_date' = up_to_date \ {e} /\ shown' = shown \ {e}
    /\ UNCHANGED <<scopeVars, program, threw, to_add, m_triggered, stopped,
                   has_slept>>

(* The scope of the routine goes.                                          *)
LeaveScope ==
    /\ UserMoves("clear", "leave") /\ m_map = {} /\ Detach(user, sub)
    /\ UNCHANGED <<runnerVars, program, threw, to_add, m_map, m_triggered,
                   stopped, pivotVars>>

EndRoutine ==
    /\ UserMoves("leave", IF program.again THEN "idle" ELSE "end")
    /\ Destroyed(sub)
    /\ threw' = FALSE /\ m_triggered' = NoEvent /\ stopped' = FALSE
    /\ to_add' = {}
    /\ UNCHANGED <<runnerVars, program, m_map, pivotVars>>

-----------------------------------------------------------------------------
(* The program ends: ~VisualInferencePivot.                                *)

EndProgram ==
    /\ UserMoves("idle", "end")
    /\ UNCHANGED <<scopeVars, runnerVars, program, threw, to_add, m_map, m_triggered,
                   stopped, pivotVars>>

DetachPivot ==
    /\ UserMoves("end", "stop thread") /\ Detach(user, runner)
    /\ UNCHANGED <<runnerVars, program, threw, to_add, m_map, m_triggered,
                   stopped, pivotVars>>

StopThread ==
    /\ UserMoves("stop thread", "join")
    /\ CallCancel(user, runner, NoException)
    /\ UNCHANGED <<runnerVars, program, threw, to_add, m_map, m_triggered,
                   stopped, pivotVars>>

Joined ==
    /\ UserMoves("join", "over") /\ calls[user] = <<>>
    /\ place \in {"none", "over"} /\ Destroyed(runner)
    /\ UNCHANGED <<runnerVars, program, threw, to_add, m_map, m_triggered,
                   stopped, pivotVars>>

-----------------------------------------------------------------------------
(* VisualInferencePivot::run, in the runner's thread.                      *)

(* Mistake: a frame is taken only when the event before was not close.     *)
NewFrameUnlessClose(e) == ~is_back_to_back

NewFrame(e) == ~is_back_to_back \/ e \in up_to_date

(* Those of some callbacks that the frame which e looks at leaves in.      *)
Kept(callbacks, e) == IF NewFrame(e) THEN {} ELSE callbacks

(* The callback has looked at a frame: nothing, it stops the routine, or   *)
(* it throws, and then its last_seqnum stays as it was.                    *)
LookAtFrame ==
    /\ HasRun
    /\ shown' = {event} \cup Kept(shown, event)
    /\ has_slept' = (has_slept /\ ~NewFrame(event))
    /\ \/ /\ up_to_date' = {event} \cup Kept(up_to_date, event)
          /\ UNCHANGED <<scopeVars, m_triggered>>
       \/ /\ up_to_date' = {event} \cup Kept(up_to_date, event)
          /\ m_triggered' = IF m_triggered = NoEvent THEN event ELSE m_triggered
          /\ CallCancel(worker, sub, NoException)
       \/ /\ up_to_date' = Kept(up_to_date, event)
          /\ UNCHANGED m_triggered
          /\ \E e \in Exceptions : CallCancel(worker, sub, e)
    /\ UNCHANGED <<program, at, threw, to_add, m_map, stopped, overtaken>>

(* thread_loop, and what it does to what only the properties look at.      *)
IsDue(e) ==
    \E i \in 1..Len(m_scheduler.schedule) :
        LET x == m_scheduler.schedule[i]
        IN  x.event = e /\ x.in <= 0 /\ Current(m_scheduler, x)

Overtakes(a) == {<<a, e>> : e \in {x \in Events \ {a} : IsDue(x)}}

ThreadLoop ==
    /\ RunnerStep
    /\ has_slept' = (has_slept \/ place' = "sleep")
    /\ overtaken' = IF place = "request" /\ place' = "run"
                    THEN {o \in overtaken : o[2] # event'} \cup Overtakes(event')
                    ELSE overtaken
    /\ UNCHANGED <<sessionVars, up_to_date, shown>>

-----------------------------------------------------------------------------
(* Cancels, whoever makes them.                                            *)

(* BotBaseContext::cancel stops the commands once the scope is cancelled.  *)
CancelReturns(t) ==
    /\ Return(t)
    /\ stopped' = (stopped \/ (Top(t).node = sub /\ program.routine = "run_until"))
    /\ UNCHANGED <<runnerVars, at, program, threw, to_add, m_map, m_triggered,
                   pivotVars>>

CancelStep(t) ==
    \/ /\ SetFlag(t) \/ TakeLock(t) \/ CancelChild(t) \/ ScopeDone(t)
       /\ UNCHANGED <<runnerVars, sessionVars, pivotVars>>
    \/ RunnerCancelled(t) /\ UNCHANGED <<sessionVars, pivotVars>>
    \/ CancelReturns(t)

(* The user stops the program.                                             *)
StopProgram ==
    /\ program.stops /\ calls[stopper] = <<>> /\ root \notin cancelled
    /\ \E e \in Exceptions : CallCancel(stopper, root, e)
    /\ UNCHANGED <<runnerVars, sessionVars, pivotVars>>

UserStep ==
    \/ ConstructPivot \/ ConstructPivotThrows \/ Begin \/ BeginThrows
    \/ AddCallback \/ AddCallbackThrows \/ CallbackAdded \/ AllAdded
    \/ Wait \/ TimedOut \/ Waited \/ CommandEnds \/ CommandCancelled
    \/ Rethrow \/ TriggeredIndex \/ RemoveCallback \/ CallbackRemoved
    \/ LeaveScope \/ EndRoutine
    \/ EndProgram \/ DetachPivot \/ StopThread \/ Joined

Next ==
    \/ UserStep \/ ThreadLoop \/ LookAtFrame \/ StopProgram
    \/ \E t \in Threads : CancelStep(t)
    \/ Tick /\ UNCHANGED <<sessionVars, pivotVars>>

Spec == Init /\ [][Next]_vars

(* Every thread goes on and callbacks return; nobody has to call anything, *)
(* and neither a deadline nor the end of a command is relied on.           *)
Fairness ==
    /\ WF_vars(ThreadLoop) /\ WF_vars(LookAtFrame)
    /\ \A t \in Threads : WF_vars(CancelStep(t))
    /\ WF_vars(UserStep /\ at \notin {"new", "idle", "command"} /\ ~TimedOut)
    /\ WF_vars(CommandCancelled) /\ WF_vars(BeginThrows)
    /\ WF_vars(Tick /\ UNCHANGED <<sessionVars, pivotVars>>)

FairSpec == Spec /\ Fairness

-----------------------------------------------------------------------------
(* Properties.                                                             *)

(* The routines keep to what the tree of scopes asks of its users: a scope *)
(* is destroyed when no callback can still be cancelling it, and no lock   *)
(* is taken against the order of the tree.                                 *)
KeepsToScopes == ScopeSpec

(* The runner calls a callback only while it is in the pivot's map and its *)
(* scope is alive, whenever it is removed (remove_callback).               *)
CallbackIsLive == place = "run" => event \in m_map /\ sub \in alive

(* A callback is never shown a snapshot that was taken before the runner   *)
(* slept until its next event, and the same snapshot again only when it    *)
(* threw at it, and then its routine has been cancelled for good (run).    *)
FrameIsNew ==
    [][LookAtFrame /\ ~NewFrame(event) =>
          ~has_slept /\ (event \in shown => sub \in cancelled)]_vars

(* While an event is due no other is run twice before it, however far the  *)
(* runner is behind (request_next_event).                                  *)
NoneOvertakenTwice ==
    [][place = "request" /\ place' = "run" =>
          Overtakes(event') \cap overtaken = {}]_vars

(* The schedule has exactly one entry that fires an event, for as long as  *)
(* the event is there (add_event, remove_event, request_next_event).       *)
OneEntryPerEvent == OneEntryEach(m_scheduler)

(* An event that is due is run, unless it is removed or the runner is      *)
(* cancelled (thread_loop).                                                *)
DueEventIsRun ==
    \A e \in Events :
        IsDue(e) ~> event = e \/ ~HasEvent(m_scheduler, e) \/ runner \in cancelled

(* A routine whose scope is cancelled, by a callback or from above, comes  *)
(* back, and the pivot's destructor gets its thread back (wait_until,      *)
(* run_until, cancel, stop_thread).                                        *)
RoutinesReturn ==
    /\ sub \in cancelled /\ sub \in alive ~> sub \notin alive
    /\ at = "end" ~> at = "over"
=============================================================================
