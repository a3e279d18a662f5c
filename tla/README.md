# A verification development for PokeAut-Arduino-Source

The program automates a games console: a desktop application talks over a serial
line to a microcontroller that presses the buttons.  This directory holds TLA+
modules of its concurrent core, the TLC configurations that check them on small
instances, and proofs that TLAPS checks for every value of the constants.  File
names below are relative to the repository's root; `PROJECT.json` gives, for every
definition that models code, the lines it stands for.

Contents: 1 inventory · 2 what is modelled and how · 3 what is checked ·
4 what is proved · 5 disagreements found · 6 what is left out · 7 plan

## 1. Inventory

### The parts that carry the core logic

| Component (source) | State | Operations | What is hard | What makes it correct |
|---|---|---|---|---|
| `PABotBase` (ClientSource/Connection/PABotBase.cpp) | the next sequence number `m_send_seq`, two maps of pending messages by sequence number, `m_state`, `m_error`, two locks, one condition variable | issue a request or command (try, blocking, blocking until answered), wait for all, stop and interrupt commands, `connect`, `stop`; receiver handlers; retransmit thread | any number of caller threads, a receiver and a retransmit thread under two locks; messages lost, late, repeated; a number that wraps; a device that restarts | exactly-once in-order processing of commands; acks find their entry; waiters find theirs; nobody sleeps for good; the device's queue never overflows |
| `BotBase`, `BotBaseContext` (BotBase.cpp) | a cancellable scope, the connection | forward calls with the scope; `cancel_now`, `cancel_lazy` | cancel races with the calls of the context | a cancelled thread comes back |
| `PABotBaseConnection` (same directory) | receive buffer | frame, checksum, `send_message`, `on_recv` | corrupted bytes | a bad message is dropped, never misread |
| `SerialConnection` (POSIX, WinAPI) | descriptor, thread | send, receive loop | partial writes | – |
| The device (Common/Microcontroller/MessageProtocol.h) | expected number, command queue | the ten rules of the header | power loss | external |
| `CancellableScope` (Common/Cpp) | children, `m_exception`, flags | attach, detach, cancel, timed wait | cancel races with attach, detach and the destructor; a lock held while children are cancelled | every child that is attached is cancelled; cancel happens once |
| `AsyncDispatcher`, `FireForgetDispatcher`, `ParallelTaskRunner` (Common/Cpp/Concurrency) | queue, threads, busy count | dispatch, run in parallel, destructor | nested dispatch; thread creation that fails; exceptions in tasks | every task runs; queue never longer than the free threads |
| `PeriodicScheduler`/`PeriodicRunner` | schedule, events with ids | add, remove, next event; runner thread | stale ids; callbacks under the lock | no callback after `remove_event` returned |
| `ScheduledTaskRunner`, `Watchdog` | schedule, thread | add, delay, remove | wake-up time computed under one lock and slept on under another | callbacks are called when due, never after `remove` |
| Inference pivots and sessions (SerialPrograms/.../InferenceInfra) | callbacks, last frame | add, remove, run | a callback that cancels its scope | a callback looks at a frame once, and at none from before a pause |
| `BotBaseHandle` (.../Tools) | `m_state`, the connection, the status thread | reset, stop, try_* | joins a thread that wants its lock; READY over SHUTDOWN | stop terminates; state shown is the connection's |
| `InterruptableCommands`, `SuperControlSession` (.../Tools) | current command, thread | dispatch, stop, wait | blocking cancel under a lock | the last command dispatched is the one that runs |
| `ProgramSession`, `SingleSwitchProgramSession`, `SerialPortSession` | STOPPED/RUNNING/STOPPING, thread, scope | start, stop, run; reset the connection | a stop before the scope is there | a stop stops; the state matches the thread |
| `VirtualController` (NintendoSwitch/Framework) | pressed buttons, thread | press, release | change without notify | the state sent last is the state pressed |
| `DiscordWebhook`, `FileWindowLogger` | queue, thread | push, send, stop | rate limit, shutdown | everything queued is sent, in order |
| MaxLair `StateTracker` | four consoles' states | push, synchronize | time-outs of some members of a group | all members of a group leave with the same view |

### How they interact

    ProgramSession ──starts──> a program's thread
        program ──BotBaseContext──> PABotBase ──SerialConnection──> device
            │        (scope)            ▲  retransmit thread, receiver thread
            │                           └── BotBaseHandle creates, stops, replaces it
            ├──inference session──> PeriodicRunner (a thread of AsyncDispatcher)
            │                         └─ a detection cancels the session's scope
            └──InterruptableCommands──> runs one command, cancels it for the next
    CancellableScope: a tree; cancelling a node cancels the BotBaseContext below it,
        which sends a stop through PABotBase.
    Watchdog, ScheduledTaskRunner: call back into the windows and the video feed.

Shared state is guarded by mutexes and spin locks, waiting is on condition
variables, and cancellation is a flag plus a wakeup.  The recurring hazard of the
whole program is in that last pair: a flag or a map is changed under one lock and the
wakeup is given under another.  `PROJECT.json` lists the hazards line by line.

### Not core

Options, panels and widgets (Qt), image, audio and OCR inference, the game programs
(sequential scripts over the components above), the firmware programs and the hex
generator, third-party code.

## 2. What is modelled, and how

Four groups of components, from the line upwards: the link (`PABotBase`, the calls that
`BotBaseContext` makes into it, the serial line and the device); the `Watchdog` and the thread
pools `AsyncDispatcher` and `ParallelTaskRunner`; the tree of `CancellableScope`s with two of the
components that live in it, the inference session over `PeriodicRunner` and
`AsyncCommandSession`; and the owner of the connection, `BotBaseHandle`, under
`ProgramSession`.

| Module | Models |
|---|---|
| `SeqnumInference` | the arithmetic of 64-bit numbers that travel as 32 bits: `infer_full_seqnum`, `MAX_SEQNUM_GAP` |
| `SerialLine` | the two directions of the line, as bounded sequences that lose what does not fit and what noise destroys |
| `PABotBase` | the class: every call, the receiver's handlers, the retransmit thread, `stop()` |
| `PABotBaseDevice` | the device, **external**: MessageProtocol.h's rules for a receiver, as the client relies on them |
| `BotBaseLink` | the composition, fairness, and all properties but the refinement |
| `ReliableStream` | the abstract specification: commands are processed in the order issued, each once |
| `CommandStream` | `BotBaseLink` with a history variable, the commands issued, for `ReliableStream` |
| `Watchdog` | the class: its calls and `thread_body`, with the clock |
| `TaskPool` | the abstract specification of a pool: tasks begin in the order queued, each once, and each is signalled when it is over or abandoned |
| `WorkerThreads` | what the pools share: `AsyncTask`, the queue, `thread_loop` |
| `AsyncDispatcher` | the first pool, with callers, tasks that call it, and the handles they hold |
| `ParallelTaskRunner` | the second pool, with its limit on threads |
| `CancellableScope` | the tree: attach, detach, `cancel()`, the waits; and `ScopeSpec`, what its users may do with it |
| `PeriodicScheduler` | the events and their schedule, as operators on a value |
| `PeriodicRunner` | its calls and `thread_loop`, as a leaf of the tree |
| `InferenceSession` | the composition of these with `VisualInferencePivot`, `InferenceSession`, `wait_until` and `run_until` |
| `CommandSession` | `AsyncCommandSession` and its command sets, on the tree |
| `BotBaseHandle` | its calls, the status thread and the watchdog thread that one starts |
| `ProgramSession` | `ProgramSession`, `SingleSwitchProgramSession` and `SerialPortSession`, on the handle |
| `MC...` | the instances of the compositions for TLC |
| `BotBaseLinkProofs` | lemmas and theorems on the link: on the client by itself, then on what client and device are to each other |
| `OwnedThreadProofs` | on the two owners of threads that keep what they have looked up: the watchdog, and the session of programs with its connection |
| `WorkerThreadsProofs`, `AsyncDispatcherProofs`, `ParallelTaskRunnerProofs` | on the pools |
| `CancellableScopeProofs`, `CommandSessionProofs`, `InferenceSessionProofs` | on the tree, and on the session of commands and the inference routines in it |

### The link

**State.** The variables carry the names of the fields.  `m_pending_requests` and
`m_pending_commands` are functions from full sequence numbers to records with the
fields of `PendingRequest` and `PendingCommand` that a decision depends on.
`m_cv` is the set of threads asleep on the condition variable.  `pc`, `op` and
`handle` are each calling thread's place, call, and sequence number; `receiver` says
whether the receiver thread still has to notify, `retransmitter` where its thread is.

**Steps.** An action is the code between two places where another thread can get in.
The code uses two locks: `m_state_lock` (a spin lock, around the maps) and
`m_sleep_lock` (a mutex, around the condition variable).  Where it holds
only the first and notifies later under the second, these are two actions:
`process_ack_request` changes the entry and `ReceiverNotifies` notifies; a blocking
issue looks for room in `IssueThrottled` and goes to sleep in `IssueWaits`.  Where
it holds both, as in `process_command_finished`, they are one.  A message is sent
inside the action that reserves its number, since `try_issue_request` sends under
`m_state_lock`.

**Calls.** The nine ways of issuing a message differ in five respects only, and these
are operators on the call's name: the map it goes into and the limits it obeys
(`CommandOps`), whether it returns when there is no room (`TryOps`), whether it waits
for the answer (`SilentRemove`), whether it clears commands afterwards (`ClearOps`),
whether it is made in a context that can be cancelled (`IsCancelled`).

**Messages.** A message is its type, its truncated number and `id`, the identity of
the call, which the device does not look at; it serves `processed`, a history
variable.  Payloads are left out.

### The Watchdog

`m_callbacks` and `m_schedule` are the two maps: a function from callbacks to their
period and the time their iterator points to, and a set of (callback, time) entries.  `thread` is
where `thread_body` is, `wake_time` and `entry` its local variables; `pc` and `target` belong
to the calling threads.  An action is one critical section of `m_state_lock` or of
`m_sleep_lock`: nobody holds both, so `AddNew` changes the maps and `Notify` wakes the
thread; `NotReady` computes `wake_time` and `Sleeps` goes to sleep on it.  The lock
inside an `Entry` is held from `Ready` to `Unlocks` and written `Locked(c)`; the spin loop of `remove`
is one action, enabled when that lock is free.  The clock is a counter with a
`Tick`; what time a callback takes is how often `Tick` happens before
`CallbackReturns`.  Callbacks do not call `remove` on themselves: that would spin for
good, and no user in the repository does it.

### The thread pools

`WorkerThreads` holds the state of the tasks (`made`, `m_finished`, `m_exception`,
`m_stopped_with_error`), of the pool (`m_queue`, `m_busy_count`, `m_stopping`) and, for
every worker, where its `thread_loop` is and its two local variables.  One turn of the loop
up to the next release of `m_lock` is one action (`Takes`, `Sleeps`, `Exits`); running the
task (`Ends`) and signalling its handle (`Signals`) are others, for they happen outside the
lock.  `notify_one` wakes a sleeper of the system's choice; a notification with nobody
asleep is lost.  A thread is created where the code creates it, by a worker
that has not been used yet.

In `AsyncDispatcher` the users are the callers and, with `Nested`, the tasks themselves.
`holds` are the handles a user has, `awaits` those it waits for (all of
`run_in_parallel`'s at once, then none), `gone` the destroyed tasks: the queue has plain
pointers, so that a task outlives its use is a property and not a given.  The
destructor is two actions, the stop before the threads are joined and what is done to
the queue after.  It is called when no task still holds a handle of another (that task would wait
for good) while callers may hold handles of tasks that nobody has taken.

In `ParallelTaskRunner`, `doing` and `arg` are the call a caller is in and its task, and
`m_dispatch_cv` the callers asleep on that condition variable, where both `dispatch`
and `wait_for_everything` wait.

To their users both are a `TaskPool` (`KeepsPromise`): `m_queue` are the tasks that have not begun,
`Running` those at a worker until their signal, `m_finished` those nobody waits for any more, and
`m_stopping` says that the pool is closed.  The threads, the busy count, the handles and everyone's
sleep are the implementation's.

### The tree of scopes

`CancellableScope` has per node the fields of the classes (`cancelled`, `exception`, `m_scope`,
`children`) and whether it is constructed and attached.  `lock` is a node's
lock: `CancellableScopeData::lock` for a scope, and `m_lock` for a leaf, which is a class that
overrides `cancel()` and takes its own lock there.  `calls` is each thread's stack of
frames; a frame is a `cancel()` that is about to set the flag, to lock, goes through the children, or
has unlocked, or a method of a leaf that holds its lock.  So one `cancel()` is as many actions as
the code has places where another thread gets in, on every level of the tree: `SetFlag`,
`TakeLock`, `CancelChild` (which pushes the child's frame), `ScopeDone`, `Return`.

What a class that lives in the tree must see to is written down in `ScopeSpec`: it holds no
lock but of leaves above what it cancels (`Below` is that order), it destroys a node
only when its own calls on it are over and nothing is attached to it (`Released`), and it
cancels only what is alive.  A cancel from above is not its
business: whether that can still reach a node being destroyed is the code's, and a property
(`CancelsLiveOnly`).  The session of commands is proved to implement `ScopeSpec`, the session of
inference is checked to; what is proved of `ScopeSpec` then holds of them.

### Inference

`PeriodicScheduler` is a value with the two containers of the class.  Times are kept relative to
now, so `TimePasses` lowers them by one and no horizon is needed; an overdue time is kept down
to `-MaxPeriod`, beyond which the code's `max(..., timestamp)` makes no difference.
`m_callback_id` only has to differ from the ids still in use.  `PeriodicRunner` is `thread_loop` between its
sleeps, and the three calls.  `place` is where the thread is, `notified` whether a sleep has been
notified; `m_pending_waits` is counted before the lock is asked for, as in the code.
In `InferenceSession`, `at` is where the program's thread is in a routine; `LookAtFrame`
is the pivot's `run`, with its three outcomes.  What is on a frame does not matter, only whether a
callback has seen it: `up_to_date` are the callbacks with `last_seqnum == m_seqnum`, which a
callback that throws does not become (98-101).  The history variable `shown` has those too.

### Commands

In `CommandSession` a command set `c` is two scopes, `ScopeOf(c)` and `ContextOf(c)`, built and
destroyed one after the other as in `CommandSet`.  `op` and `at` are the program's call and
its place in it, `thread` and `current` thread_loop's; `m_cv` is the set `asleep`.
`cancel_now` and `cancel_lazy`, the cancel that throws when the connection is down, are
`CancelContext` and `Interrupt`; the override that swallows it is `CancelReturns`.  The commands
end when they like, also with an exception that `thread_loop` does not catch.

### The connection and the program

`BotBaseHandle` has `m_state`, `m_lock`, a number for the `PABotBase` that is owned and
whether it is `up`.  What is on the line is not in this module: a call on the
`PABotBase` works while it is up, fails in a way of its own at any time, and throws
`InvalidConnectionStateException` once it is not.  An exception that nobody catches ends
in the place "crashed", after which nothing moves.  `ProgramSession` has the program's thread
(`run`), each caller's place in `stop_program` (`at`), and what it has loaded from `m_scope`.
The user interface is told of each state later (`UpdateUi`), and allows a reset by what it was
told.

**Definitions headed "Mistake".** Beside some definitions stands a second one with a
plausible error (a notify dropped, a comparison inverted).  No action uses them;
substituted for the right ones they show that each property can fail, as
`PROJECT.json` ("mutants") lists.

## 3. What is checked

The runs check the properties; that the variables have their types is proved for the modules with
theorems (section 4).  The properties excluding behaviour that the code does show (`...Unless...`,
`NotCancelled`, `overwrote`) say what still holds; what is excluded is in section 5.

### The link

All runs of the link use two threads: every wait in the code is for the receiver or for one other
thread, two are enough for a wakeup that goes to the wrong one, and a third
adds only repetitions of the same interleavings.  `MAX_PENDING_REQUESTS` and
`DEVICE_QUEUE_SIZE` are 1 or 2 in place of 4, so that the limits are met within the
two or three messages that `MaxSeq` allows.  `MaxLine` 2 makes the line overflow under
retransmission, which is how messages are lost even with `MaxLosses` 0, any number of
times.  `SeqMod` is 16 in place of 2^32, or 32 where the number is not to wrap around; as there, a
quarter of it (`MAX_SEQNUM_GAP`) limits what is outstanding.  `FirstSeq` 2 starts
after the reset that took number 1; `FirstSeq` 14 stands for a session
that has run until then with nothing outstanding.

| Run | Question | Properties |
|---|---|---|
| `LinkTraffic` | queries, commands, stops and interrupts race on a line that overflows, while the number wraps around | `WaiterOwnsEntry`, `NoAckSleptThrough`, `LiveSeqnumsResolve`, `NoCommandDropped`, `EntriesLeaveWhenDone`, `CommandsOnceInOrder` |
| `LinkConnect` | connecting to a device in any state that may restart; the calls that do not block | `InterruptionMeansReboot` |
| `LinkLive` | everything is answered, by a device with a shorter queue than the client assumes too (MessageProtocol.h says this has no effect on correctness) | `ExpectedStillComes`, `PendingDrains`, `QueryReturns` |
| `LinkReturns` | calls return: when all is done, when cancelled, and on `stop()` | `StopTerminates`, `WaitsReturn` |

What they show together: over a line that loses, delays and repeats, the device
processes each command once and in order (a refinement of `ReliableStream`); an
answer is never credited to another entry, across restarts of the numbering in 32
bits; the client's own limit keeps the device's queue from overflowing even when
stops, late finishes and retransmissions cross; a thread that waits for an answer
keeps its entry and is woken; `stop()` always brings everyone back.

**No deadlock check.** Callers need not call again and a run's numbers are bounded, so
all runs stop legitimately; that nobody is left asleep is what the liveness
properties say.

**Fairness.** Weak fairness of each thread's own steps, of the receiver, of the
retransmit thread, and of the device's receiving, finishing and resending: each is a
thread the operating system schedules, or a device that is powered.  A lock is never
held across an action, so weak fairness does not assume anything about locks.  There
is none on starting a call, on loss, on spurious wakeups, or on restarts.

**`Timely`.** In the liveness runs a message is resent only when the line has
delivered what it held: `PABB_RETRANSMIT_DELAY_MILLIS` is 80 and the few messages that can be
outstanding take less than 10 ms at 115200 baud.  Without that, a bounded line might lose each
retransmission to the previous one for ever.  Safety runs do not assume it
(`Timely = FALSE`); there a retransmission may race with anything.

### The Watchdog

| Run | Question | Properties |
|---|---|---|
| `WatchdogCalls` | add, delay, remove and destroy race with callbacks | `ScheduleMatchesCallbacks`, `EntryOutlivesCall`, `DueIsCalledUnlessIdle`, `CallsReturn` |

Two callbacks and two threads make every pair of calls meet on the same and on different
callbacks; delays by 0 and by a period put either callback first.  `MaxTime` 3 is three periods:
the maps hold one time per callback, so later times repeat earlier ones shifted.  `Due`
looks only at times a full period before `MaxTime`, since where the clock stops nothing is due
any more for a reason that is the bound's.  `DueIsCalledUnlessIdle` excepts the one
sleep from which no clock wakes the thread, the sleep on an empty schedule (section 5).

*Fairness.*  The thread runs, its callbacks return, time passes and a caller goes on with
its call (weak).  `RemoveEnds` has strong fairness: the loop of `remove` tries a lock that is
taken and given back, and the pauses in which it is free last milliseconds against a
spin of microseconds.

### The thread pools

| Run | Question | Properties |
|---|---|---|
| `Dispatch` | every call of two callers and of tasks on their own dispatcher, in any interleaving, with tasks that throw, and the destructor under running and queued tasks | `NoTaskStranded`, `TasksOutliveUse`, `SomebodyWorks`, `KeepsPromise`, `CallsReturn` |
| `RunnerCalls` | callers dispatch, wait for a task or for everything, and destroy | `WithinMaxThreads`, `EverythingIsDone`, `CallsReturn` |

In `Dispatch` two tasks are enough for one that runs and waits while the other is
queued, for two that are queued at once, and for one that runs and one that is queued when
the destructor comes; one of three workers is there from the start, so a batch of two finds one asleep
and needs one more.  More workers than tasks is no restriction: a thread is only created when
queued and busy tasks outnumber the threads.  `RunnerCalls` has one task more than
`m_max_threads`, so that a caller waits for room while the other waits for everything, and a
third worker that only a runner over its limit would start.  Two restrictions on the
users are those of the code's users: nobody destroys a pool under a call of their own or while
tasks may still call it, and the tasks of `ParallelTaskRunner` (OCR_TrainingTools.cpp is its only
user) do not call it.

*Fairness.*  The threads go on with `thread_loop`, the tasks end, their users wait in turn for
the handles they hold, callers go on with the call they are in, and the destructor goes on.
That a task is taken does not hang on the ends of other tasks is `NoTaskStranded`: a
worker is awake for each queued task, whatever the running ones do.  `SomebodyWorks` is what the
liveness rests on and what no fairness could make up for: tasks that queue others and wait for them
are never all waiting.

### Inference

| Run | Question | Properties |
|---|---|---|
| `Inference` | a program calls `wait_until` or `run_until`; callbacks stop the routine or throw while it adds and removes them, its deadline comes, its commands end, and the user stops the program | `CallbackIsLive`, `OneEntryPerEvent`, `KeepsToScopes`, `FrameIsNew`, `NoneOvertakenTwice`, `DueEventIsRun`, `RoutinesReturn` |

`Programs` picks four combinations instead of all: two callbacks in `wait_until` (who is run before
whom, who is shown which frame, a second exception), one callback twice in `run_until` (an event that is removed and added
again while its old entry is in the schedule), and one callback in each with the user's
stop (cancels from above and from the side at once).  All three threads of the code are there.
`MaxStale` 1 keeps the routine from being called again while more than one entry of an event that is gone is left; one is enough
for the ABA that the ids are there for.  One period suffices: with relative
times, all orders of two events come from the order they are added in and from when
the thread gets to them, early or late by `MaxPeriod`.  `shown`, `has_slept` and `overtaken` are history variables; no
action reads them.  `FrameIsNew` is about snapshots: that two of them may hold the same picture when
the camera has no newer one is the camera's.

*Fairness.*  Every thread goes on, callbacks return, time passes.  Neither a deadline nor
the end of commands by themselves is relied on: that a routine comes back is due to the
callback or the user that cancelled it.  A cancelled command ends once the device was told to
stop, which is what `PABotBase` gives (`WaitsReturn` of the link).

### Commands

| Run | Question | Properties |
|---|---|---|
| `Session` | a program dispatches, replaces, stops and waits for commands and ends the session, while it is stopped, with the connection taken down before or not, and commands throw | `TreeIsSafe`, `CommandOutlivesRun`, `CancelReachesCommand`, `KeepsToScopes`, `DispatchedIsRun`, `CallsReturn` |

Two sets are one that runs and one that is to replace it; `MaxCalls` 2 gives every pair of
calls, and the end of the session after any of them.  A third call finds the session in a state in which the
second may find it.

*Fairness.*  The calls and the thread go on; a command has to end only when its
context is cancelled and it was stopped, or the connection is down.  The program need make no call.

### The connection and the program

| Run | Question | Properties |
|---|---|---|
| `Program` | the user and a remote command start and stop programs and reset the connection, while programs end by themselves and the device fails at any point | `StateMatchesThread`, `ThreadsUseLive`, `StopReturns` |

Two callers are the user interface, which goes by the state it was told, and a remote command,
which does not ask.  Two objects and two programs: one that is replaced by, and one that starts
after, the other.

*Fairness.*  The threads go on, and a program whose scope was cancelled ends (`Inference` and `Session` say so of what
it is made of).  The callers have strong fairness, for what they wait for is a mutex that others
take and give back.  Nothing is assumed of users.

## 4. What is proved

### The link

The theorems hold for any finite set of threads, any queue sizes, any modulus, any
bound on losses and the line.  Those on the client by itself assume the named
assumptions of the modules (`SeqModAssumption`, `LineAssumption`, `ClientAssumption`,
`DeviceAssumption`) and nothing else; those on both ends have hypotheses, for which the second
half of this section gives the reasons.

- `TypeCorrect`: `Spec => []TypeOK`.  Inductive as it stands; one lemma per group of
  actions, and per conjunct that an action touches.  It includes that the pending maps
  stay finite, which `Min` and `Max` over their keys rest on.
- `WaitersOwnTheirEntries`, `AcksAreNotSleptThrough`: from the invariant `WaitInv ==
  TypeOK /\ IssuedBelowNext /\ WaiterOwnsEntry /\ NoAckSleptThrough`.
  `IssuedBelowNext` is the strengthening: a new number is larger than all live
  ones, so a new waiter's entry collides with none.  The other half of the argument is that an
  entry that is not `silent_remove` is erased by its own waiter alone, and that
  the receiver holds `receiver = "notify"` from the change of an entry
  until it has notified.
- `AcksFindTheirEntries`: the 32 bits in an ack lead back to their entry.  The
  invariant is `SeqnumInv == TypeOK /\ IssuedBelowNext /\ LiveWindow`; `LiveWindow`
  bounds the distance of any live number from the next by a quarter of the range, which
  the issuing calls' test keeps (`StepIssues`: a step issues one number within the
  gap, or adds none).  The rest is arithmetic:
- `InferFullSeqnumExact`, `InferFullSeqnumNoAlias`: in a window shorter than the range,
  `infer_full_seqnum` recovers the number it was given the low bits of, and never takes one that
  has left the window for one inside.  Its first lemmas are what `Min` and `Max` of finite
  sets of numbers are.

The other theorems are about the client, the line and the device together:

- `ExactlyOnce`: `HistorySpec => CommandsOnceInOrder`, the refinement of `ReliableStream`: every step is a step of
  the abstract stream or a stutter, however often messages are lost and sent again.  `HistorySpec` is `Spec` with
  the set of commands issued; its steps are those of `Spec`.
- `EntriesLeave`: no late, repeated or foreign answer takes an entry out of the maps.
- `AlarmIsTrue`: "Serial connection has been interrupted" is said of a device that has restarted only.
- `ExpectedIsPending`: what the device waits for is still pending, and so is sent again.
- `QueueNeverOverflows`: the client never makes the device drop a command.

*Hypotheses.*  All five assume `Session`:

- `ShortSession`: fewer than half as many messages as `seqnum_t` has values, 2^31.  The device tells
  an old number from one that is to come by which half of the range it is in (rule 9 of
  MessageProtocol.h), and a line that may keep a message for any time needs the bound.
- `DeviceInStep`: where a run starts in the middle of a session (`FirstSeq` other than 1), the device
  waits for that number.  From the start (`FirstSeq` 1) it may wait for any: the reset sees to it.
- `ConnectedBeforeStop`: a run from the start has no `stop()`; one that starts in the middle may.
  `stop()` sends its request without reserving the number, so that before `connect()` has returned the
  device may take it for the reset, or the number after it, and never see the one in between.

`ExactlyOnce`, `EntriesLeave`, `ExpectedIsPending` and `QueueNeverOverflows` are about a device that keeps
its power (`MaxReboots = 0`): one that restarts has lost what it had, and the protocol promises no more than
to say so.  `AlarmIsTrue` allows restarts and assumes that the numbers do not come round (`MaxSeq <= SeqMod`):
after that an ordinary loss looks like a restart (section 5).  `ExpectedIsPending` assumes a session
without stops and interrupts, for these drop entries that the device waits for (section 5).
`QueueNeverOverflows` assumes `MAX_PENDING_REQUESTS <= DEVICE_QUEUE_SIZE`; in the code both are 4.  The runs' instances
satisfy the hypotheses of the properties they check.

*The invariants.*  None of the five properties is inductive, for each relates the two ends, and what they know of each
other is on the line.  `Sent` is the number after the last one on the wire, `Expected` the one after
the last processed.

- `StreamInv` says, as long as the device has not restarted: the processed numbers are those from
  `FirstSeq` up to `Expected`, which is at most `Sent` (`InOrder`); each message on the line carries the
  low bits of a number that has been sent (`LineNumbered`); the device's counter is that of `Expected`
  (`ExpectsNext`), or it has not seen the reset yet, and until that is answered nothing else is on the
  line (`ResetsFirst`); an ack on the line, or noted in an entry, is of something processed
  (`AcksProcessed`).  With `ClientInv` (numbers grow, one `stop()`, nothing before the reset) this
  puts every number on the line less than half a range from `Expected`, so that comparing 32 bits is
  comparing the numbers.
- `QueueInv`: what is in the device's queue was processed, once, and what is reported as finished is
  not in it any more.  So a finish is of a command that has ended (`EntriesLeave`).
- `AlarmInv`: no missed-request error on the line stands for a restart.
- `KeptInv`: all numbers from `Expected` on are live.
- `LimitInv`: of the commands before a command `c` that is still to come, those that are active and that no
  stop in between will clear, `Ahead(c)`, are fewer than `MAX_PENDING_REQUESTS` (`Limit`); a command
  that the client has forgotten will be cleared by a stop that is still coming (`Erased`), and so will
  those that it is about to forget (`Clearing`).  The client's limit is on what it remembers when it
  issues; `Ahead` carries that over to the time the command gets there.

The proof of `QueueNeverOverflows` showed a fault in `PABotBaseDevice`: two guards of a `CASE` held at once, where
TLA+ leaves open which value is meant (TLC takes the first).  They are disjoint now.

### The Watchdog

`WatchdogTypeCorrect`, `MapsAgree` and `EntriesOutliveCalls`, for any callbacks, threads,
periods and horizon.  The inductive invariant is `Inv == Maps /\ ControlTypeOK /\
EntryOutlivesCall`.  `EntryOutlivesCall` is needed by the others: `Updates` looks up a callback it chose before
it let go of the lock, and only the lock of the `Entry` keeps `RemoveEnds` from it.

### The thread pools

`WorkerThreadsProofs` has one lemma per step of `thread_loop`, which both pools cite.

- `ThreadForEveryTask`, `NothingIsStranded`, `RunnerStrandsNothing`: from the
  invariant `Counts`.  It says that `m_busy_count` is the number of workers with
  `busy` set, that this flag follows the place in the loop, that queued and busy tasks do not
  outnumber the threads, and that every queued task has a worker awake.  The last is inductive only with the
  others: a task that is enqueued notifies one sleeper or creates one thread, and if neither is possible
  then idle threads are awake, which is where the cardinalities come in.
- `EveryTaskOnce`, `TasksAreAlive`: from `Once`, that a dispatched task is at exactly one
  place, in the queue, at one worker or finished; with the handles, that a task is destroyed
  only once finished.
- `HandlesTellExceptions`: a task that threw has `m_stopped_with_error` set, which
  `rethrow_exceptions` asks for; `ParallelTaskRunner` has no such theorem (section 5).
- `RunnerStaysWithinMaxThreads`, `EverythingMeansEverything`: the same invariants, with
  each caller in `dispatch` having a task of its own.

- `SomebodyAlwaysWorks`: as long as anybody waits, a thread is on its way to a queued task, or has a task
  that waits for nothing, or the destructor goes on.  A queued task has a worker awake (`Counts`), and a task that is waited for
  is queued or running until its signal (`Once`).  What remains is a set of running tasks that wait for each
  other.  There is none, for a handle of a new task goes to a task that runs already: in any set of tasks one
  holds no handle of any in it (`Descends`), which is the one that goes on.
- `RunnerWakesItsCallers`: `NobodyOversleeps` needs to know that what callers sleep on, `InUse`, is lowered only by a
  worker that was busy, in the step in which it notifies all of them, and that the destructor comes when nobody is in a call
  (`SleepersOK`).
- `DispatcherKeepsPromise`, `RunnerKeepsPromise`: the refinement of `TaskPool`.  `Enqueue` is `Submit`, `Takes` is
  `Begin`, `Signals` is `End`, `StopWorkers` is `Close`, `SignalTheRest` is `Abandon`, and every other step is a
  stutter.  `Submit` asks for new tasks that all differ, `End` that the task is at no other worker: these are `Once`;
  `Abandon` asks that nothing runs, which holds as all threads have been joined.  `Dispatch` and `RunInParallel` differ
  in how many tasks they submit.

They assume `WorkersAssumption` (a finite set of workers) and `RunnerAssumption` (a
positive limit).

### The tree of scopes

`ScopeTypeCorrect` and `TreeStaysSafe`, for any finite or infinite sets of threads and nodes, any
order `Below` that is a strict partial order (`ScopeAssumption`), and any behaviour that `ScopeSpec`
allows.  `TreeIsSafe` has four parts: locks are taken downwards only (so cancels never wait
for each other in a circle), every child attached to a cancelled scope is cancelled or about to be,
nobody sleeps through the cancellation of the scope slept in, and no `cancel()` is under way in a
destroyed node.  The inductive invariant adds

- `StacksOK`: what a frame says of its node (a held lock is the thread's, what has passed the flag is
  cancelled), that a frame which has made a call still holds its lock, and that the frames of a thread
  go down the tree;
- `LocksOK`: every lock is held by a frame; `OneCascade`: only the first `cancel()` of a node goes
  through its children;
- `TreeOK`: who is attached has a live scope and is one of its children until that is
  cancelled.

`CancelsGoOn` is about what `LocksDescend` is for: threads that cancel parts of one tree are not all waiting for
locks that the others have.  It assumes finitely many threads (`IsFiniteSet(Threads)`), as a program has:
with infinitely many, each could wait for the next below it.  Of the nodes that blocked threads wait for, one has no
other of them below it, for `Below` is a strict order and the set finite (`FiniteHasLast`).  Its lock is held by a
thread that has a call, by `LocksOK`, and that thread waits, if at all, for a node further down.
`SessionGoesOn` and `RoutinesGoOn` are the same of the two sessions, with `m_lock` of the session of commands and of the
runner among the locks; there it is the refinement that carries it over.

The argument for a child that attaches late is in `OneCascade` and `TreeOK`: while the
scope is not cancelled the child gets into `children`, and the one `cancel()` that has set the flag and not yet the lock
will find it there; once the flag is set, `Attach` is turned away.  For a node being
destroyed it is that `Detach` needs the lock of the scope, which the cancel that is about to
go down into it holds.

`KeepsToScopes` of the runs `Inference` and `Session` checks that the two sessions implement `ScopeSpec`
(their variables of the tree are those of `CancellableScope`, so the refinement mapping is
the identity).  Both are proved as well, so that `TreeIsSafe` is proved of either session.

### Commands

`SessionKeepsToScopes`, `SessionTreeSafe`, `CommandsOutliveRuns` and `CancelsReachCommands`, for any number of
command sets and calls of the program.  They assume `CommandAssumption`: the program, whoever stops it
and `thread_loop` are three threads (the second is a window's or a callback's), and the program's
scope, the session and the scopes of a set stand in `Below` as the code attaches and cancels them.
There is no other hypothesis.

One obligation of the refinement is not a matter of form: what is destroyed must be `Released`,
and a set is destroyed in three places by two threads.  The inductive invariant is that of the
tree, `Inv`, which every step keeps because it is a step of `ScopeSpec`, together with `SessionInv`:

- `SetsOK`: `pending`, `m_current` and thread_loop's `current` are different sets, except that the one
  that runs is the current one;
- `NodesOK`: the scopes of the current set are there until the destructor has joined the thread, those of
  the set to be stored until it is stored; and only what the code attaches is attached, where it does
  (`PlacedOK`), so that nothing is called below a context and no leaf but the session is in any stack;
- `CallersOK`: the program calls only the session, whoever stops it only the root, and the session only
  the context of the current set.  So a set that is not current is not being cancelled from the
  session, and `MoveDone`, which needs the lock, finds nobody there;
- `ProgramOK`: at which places the program is in a call at all;
- `ToldOK`, for `CancelReachesCommand`: from the flag until the current set is told somebody is in the
  session's `cancel()` (`Telling`), and then the set that runs is cancelled or is being cancelled from there
  (`Reaching`).  It needs that `dispatch` stores no set in a cancelled session and `thread_loop` takes none.

`SessionWakesSleepers` says that no wakeup on `m_cv` is lost, with three to sleep there for different things and a flag that is
set before the lock is taken.  Its invariant, `SleepersOK`, is `NobodyOversleeps` with: who is asleep is at the
place where the code sleeps, and while the program holds the lock to cancel the current set, that set
stays.  For the flag it is `Telling` that lasts: whoever has set it either still is to take the
lock, which nobody can hold on to while asleep, or has it and will notify before giving it back.

### Inference

`RoutinesKeepToScopes`, `RoutineTreeSafe`, `CallbacksAreLive`, `OneEntryFires`, `FramesAreNew` and
`NobodyOvertakesTwice`, for any callbacks and periods, any number of routines and of entries left over
(`MaxStale`), and any delay of the runner.  They assume the named assumptions of the modules; of these
`SessionAssumption` says that the program, whoever stops it and `thread_loop` are three threads, and that
the program's scope, the runner and the routine's scope stand in `Below` in this order, which is the
one the code takes their locks in.

First the operators of `PeriodicScheduler`, each with a lemma of its own (`EmplaceSorted`, `CallbackIdIsNew`,
`AddEventKeeps`, `RemoveEventKeeps`, `TimeKeeps`, `RequestKeeps`): a scheduler that is `SchedulerOK`, sorted and
with one entry for each event's present id, stays so, and two events keep their order unless one of them
is run.  `OneEntryPerEvent` is not inductive by itself: it needs that a new id is not among
those of the entries left over (`CallbackIdIsNew`).  `RequestKeeps` says more: the event that is run comes
before every other in the schedule, and behind all that are due when it is put back.

The inductive invariant is the tree's `Inv` with `RoutineInv`:

- `SchedulerOK`, and `OvertakenOK`: whoever ran while another was due stands after it in the schedule, with
  its present entry.  `NoneOvertakenTwice` says so of one step and is no invariant; this is what
  lasts from the first overtaking to the next request;
- `NodesOK`, `CallersOK`: which scopes are there at which place of the routine, that the program's thread
  calls only the runner's `cancel()`, at its end, and whoever stops the program only the root's, and that under
  the runner's lock only its own thread calls, and only the routine's scope;
- `WorkerOK`: the thread has the runner's lock from one sleep to the next, and as long as a callback
  is still cancelling the routine, the pivot's map is not empty.  `remove_callback` needs the lock, and
  `~InferenceSession` removes all callbacks before the routine's scope goes, so nobody is in it then;
- `CallbacksOK`: the pivot's map and the scheduler's have the same events, and the event that is being run
  is one of them;
- `FramesOK`: after a sleep the next event is not back to back.

`FramesAreNew` has a part of its own, `ShownOK`: whoever has been shown the present snapshot is still in the pivot's map,
and is up to date unless it threw, and then the routine is cancelled or is just being so by the runner's thread.

A place in the schedule is the least of a set of indices (`FirstOf`), of which `LeastOf` says what the
proofs need, by the library's theorems on well-founded orders.

### The connection and the program

`ProgramTypeCorrect`, `StateIsThreads` and `PolledObjectStays`, for any callers, any number of objects and programs, and
anything that is asked for.  They assume `HandleAssumption` and `ProgramAssumption`: the user interface is one of
the callers, and the bounds are natural numbers.  The inductive invariant is `ProgramInv == ProgramTypeOK /\ HandleInv /\ StateMatchesThread`.

- `StateMatchesThread` is inductive with the types: `start_program` leaves STOPPED only with the thread joined and starts one in
  the same critical section, `stop_program` goes to STOPPING from RUNNING only, and the thread's last step stores STOPPED,
  over a STOPPING too.
- `PolledObjectStays` is the action property `ThreadsUseLive`, and needs `HandleInv`: a caller that is about to open the port
  has joined the status thread before (`ThreadsOver`), whichever way it came there, the watchdog thread is there only
  while the status thread is in its loop or joins it, and one caller at a time is in the handle, the one that
  has its lock.

### What stays with TLC

Only model-checked: the liveness properties (`QueryReturns`, `PendingDrains`, `StopTerminates`, `WaitsReturn`,
`DueIsCalledUnlessIdle`, `DueEventIsRun`, `RoutinesReturn`, `StopReturns`, `DispatchedIsRun` and the four `CallsReturn`), which need
fairness and so are out of the provers' reach.  Every other property of a passing run is a theorem.

Some theorems state formulas that are in no run: `EnoughThreads` and `TasksRunOnce`, which are parts of what
`SomebodyWorks` and `KeepsPromise` rest on, `ExceptionsAreTold`, `SomebodyGoesOn`, and `NobodyOversleeps` of the runner and of the
session of commands, the safety half of their `CallsReturn`; and `KeepsPromise` of the runner.
All of them hold on the instances of the runs too.

## 5. Disagreements found

Two have runs of their own that end in the counterexample.

- `IssueLostWakeup`: a throttled `issue_command` (or `issue_request`) looks for room
  under `m_state_lock`, then sleeps under `m_sleep_lock` without looking again.  When
  the last outstanding finish falls in between, the notification is lost, and with
  nothing else outstanding none follows.  In practice any later ack of a request wakes it.
- `ProgramSender`: a program's thread takes `botbase()` (NintendoSwitch_SingleSwitchProgramSession.cpp:110)
  before it stores its scope (66).  A `stop_program` in between finds no scope, cancels nothing, waits
  for nobody, and resets the connection, which replaces the `PABotBase`; if that is
  ready when the thread asks (60), the program runs, not cancelled, on the old pointer.

These show when a property's exception is taken away or a bound is changed:

- *Link.*  A stop erases older commands from the map although they were never acknowledged (PABotBase.cpp:232).
  If the command was lost on the way it is never sent again, though MessageProtocol.h:72-73 asks for that,
  and the device goes on waiting for its number (`ExpectedStillComes` with `"stop"` among the `Ops` of `LinkLive`).
- *Link.*  With `MaxReboots` 1, cancelling a thread in `wait_for_all_requests` of an interrupted connection
  does not wake it: that loop ignores `m_error`, and the stop that would have notified throws
  first.  `stop()` does release it.
- *Link.*  A missed-request error for number 1 means "restarted" to the client; after a
  wrap-around it may be an ordinary loss.  That takes 2^32 messages.
- *Link.*  MessageProtocol.h:101-103 guarantees exactly-once in-order processing for commands, and says that requests "are not
  guaranteed to process in order and may execute more than once"; its rules 8 and 9 (75-80) have a receiver
  drop early and repeated messages of both kinds.  `PABotBaseDevice` follows the rules, for both kinds;
  `CommandsOnceInOrder` claims the guarantee, and nothing of requests.
- *Watchdog.*  `thread_body` computes the time to wake up under one lock and sleeps on it
  under the other (150); the notification of an `add` in between is lost.  If nothing else
  was registered the thread sleeps until the next call, and the callback is not called
  (`DueIsCalledUnlessIdle` without its exception).
- *ParallelTaskRunner* stores a task's exception (112) but never sets `m_stopped_with_error`, without which the
  handle's `rethrow_exceptions` finds nothing; `AsyncDispatcher` does set it.
- *PeriodicRunner.*  PeriodicScheduler.h:80-81 says that `is_back_to_back` means no wait between two events,
  but the wait for `m_pending_waits` (158-160) does not reset it, so a frame may be as old as that wait.
- *Inference.*  A callback that throws skips `last_seqnum = m_seqnum` (VisualInferencePivot.cpp:101).  If it is overdue and run
  back to back before `remove_callback` gets the lock, it is shown the same snapshot again (91).  Its routine
  is cancelled by then, so nothing comes of what it finds; `FrameIsNew` allows this and nothing else.
- *Inference.*  A callback's exception that comes after the routine's last look at its scope (40-41, 70-71) is not
  rethrown by anybody.
- *AsyncCommandSession.*  `wait()` (InterruptableCommands.h:54, "Wait for currently running command to finish.")
  does not look at the cancellation.  `thread_loop` leaves on a cancel with the set still current when it was not
  taken yet, and on any exception but `OperationCancelledException`; `wait()` then never returns, and after such an
  exception neither do `dispatch` and `stop_command` until the session is cancelled (the exceptions in `CallsReturn`).
- *BotBaseHandle.*  `thread_body` stores `READY` (310) over the `SHUTDOWN` of a `stop()` that came during the
  queries; the watchdog thread and a `stop()` then depend on a state that nobody sets any more.  An error
  takes `m_lock` (375) while `stop()` holds it and joins that thread: both wait for good.
  `stop_all_commands` (324) may throw, when a `stop()` comes just before or the connection has failed, and
  nothing catches it.  These are three exceptions in `StopReturns`; an error stored while nobody joins the thread
  is none.
- *SingleSwitchProgramSession.*  `stop_program` loads `m_scope` (81) and cancels it (83) in two steps; the program may have
  ended, and its scope be gone, in between.
- *BotBaseHandle::try_reset* is allowed as long as the user interface has not been told that a program was
  started, and then replaces the connection under it.

## 6. What is left out

Of the link: the byte-level parser and the checksum (a message arrives whole or not at
all), message logging and sniffers, the version and protocol queries that
`BotBaseHandle` makes, opening and configuring the port, the Windows port class, the
time stamps of pending messages (replaced by the choice of a `cutoff`: any
prefix of the numbers may be old enough to be sent again).  The device is modelled only as far as
the protocol's rules go; its restart empties its side of the protocol and leaves the
wire as it is.  Constructing a second `PABotBase` on the same line is not modelled there; in
`BotBaseHandle` it is a new object.

Of the pools: a thread that cannot be created, the callback that each new thread runs
first, names and priorities of threads, and the rethrowing itself.  Of the Watchdog: the order among
entries of equal time (left open) and what a callback does.  The same failure is left out of `start_program`:
it stores RUNNING before it creates the thread (ProgramSession.cpp:174-175), and if there is none to be had, the
state stays RUNNING, or STOPPING after a stop, with no thread that would store STOPPED.

Of the inference components: the audio pivot (the same code over another feed), `run_until_with_time_limit`
(InferenceRoutines.cpp:78-112, `run_until` with a deadline more), what a frame shows, a `snapshot()` that throws (of
the cameras' none does but for want of memory), statistics and
overlays, a `bad_alloc` between the two containers in `add_event`, wake-ups of the runner's sleep
without a cause.  Of the sessions: labels, signals and listeners, NOT_READY, the destructors of
`BotBaseHandle` and `SingleSwitchProgramSession`, the sessions for several consoles.

Not modelled:

- `FireForgetDispatcher`: `WorkerThreads` without handles.  `ScheduledTaskRunner`: one thread and one map;
  an exception in a callback ends it (85), whatever the others do.
- `VirtualController`: its thread sleeps without a condition (187, 264), so a key that is pressed between
  the look at the history (192) and a long sleep is sent with the next key, and a program that ends
  (`on_state_changed`) wakes nobody.  Its behaviour is a matter of times, with debouncing in milliseconds.
- `DiscordWebhook`: sending over a network; its throttle compares with a time taken before the wait
  (121), and so always waits the whole time.  `FileWindowLogger`: a queue and a writer.
- `SuperControlSession`: sequential, over `AsyncCommandSession`.  MaxLair `StateTracker`: the state of one game program.
- Options, panels and widgets; image, audio and OCR inference; game programs; firmware programs and hex
  generation; third-party code: see section 1.

## 7. Plan

1. (done) The link, with the refinement of `ReliableStream`; the `Watchdog`; the pools.
2. (done) `CancellableScope` with its specification for users, proved safe for any tree; `PeriodicScheduler`,
   `PeriodicRunner` and the inference session; `AsyncCommandSession`; `BotBaseHandle` with `ProgramSession`.
3. Proofs: (done) the refinement of `ReliableStream` and `NoCommandDropped`, by invariants over the line's
   contents; `KeepsToScopes` for any number of command sets and of callbacks; the schedule; the refinement of `TaskPool`;
   that locks and tasks never wait in a circle, and that no wakeup is lost in the runner and the session of commands;
   `StateMatchesThread` and `ThreadsUseLive`.  (open) That no wakeup is lost in the Watchdog and `PeriodicRunner`, apart from the
   one in section 5.
4. `StateTracker` and `VirtualController`, as far as their times can be abstracted.
