----------------------------- MODULE PABotBase ------------------------------
(***************************************************************************)
(* The client half of the PABotBase protocol: the threads that call into   *)
(* the class, its retransmit thread, and the receiver thread that          *)
(* SerialConnection runs on_recv_message on.                               *)
(*                                                                         *)
(* One action is one stretch of code between two points where another      *)
(* thread can get in: a critical section of m_state_lock, or of            *)
(* m_sleep_lock, or of both.  m_cv is the set of threads asleep on the     *)
(* condition variable; such a thread resumes at its pc.                    *)
(***************************************************************************)
EXTENDS SeqnumInference, SerialLine, FiniteSets, FiniteSetsExt, Functions

CONSTANTS
    Threads,               \* the threads that call into the class
    Ops,                   \* which of AllOps they call
    MAX_PENDING_REQUESTS,  \* PABB_DEVICE_QUEUE_SIZE in the code
    FirstSeq,              \* m_send_seq at the start: 1, or that of a session
                           \* with no message outstanding
    MaxSeq                 \* bound: the last sequence number handed out

RequestOps == {"request", "try_request", "query", "connect"}
CommandOps == {"command", "try_command"}
ClearOps   == {"stop", "try_stop", "interrupt", "try_interrupt"}
TryOps     == {"try_request", "try_command", "try_stop", "try_interrupt"}
IssueOps   == RequestOps \cup CommandOps \cup ClearOps
AllOps     == IssueOps \cup {"wait_all", "shutdown", "cancel"}

ASSUME ClientAssumption ==
    /\ IsFiniteSet(Threads) /\ Ops \subseteq AllOps
    /\ MAX_PENDING_REQUESTS \in Nat \ {0}
    /\ FirstSeq \in Nat \ {0} /\ MaxSeq \in Nat

VARIABLES m_send_seq, m_pending_requests, m_pending_commands,
          m_state, m_error, m_cv,
          pc, op, handle,    \* per thread: where, in which call, its seqnum
          cancelled,         \* threads whose CancellableScope is cancelled
          ready,             \* connect() has returned normally
          receiver, retransmitter

clientVars == <<m_send_seq, m_pending_requests, m_pending_commands, m_state,
                m_error, m_cv, pc, op, handle, cancelled, ready, receiver,
                retransmitter>>

ClientInit ==
    /\ m_send_seq = FirstSeq
    /\ m_pending_requests = <<>> /\ m_pending_commands = <<>>
    /\ m_state = "RUNNING" /\ m_error = FALSE /\ m_cv = {}
    /\ pc = [t \in Threads |-> "idle"]
    /\ op = [t \in Threads |-> "none"]
    /\ handle = [t \in Threads |-> 0]
    /\ cancelled = {} /\ ready = (FirstSeq # 1)
    /\ receiver = "read" /\ retransmitter = "wait"

-----------------------------------------------------------------------------
(* Helpers of the class.                                                   *)

MessageType(o) ==
    CASE o = "connect"                    -> "reset"
      [] o \in RequestOps \ {"connect"}   -> "request"
      [] o \in CommandOps                 -> "command"
      [] o \in {"stop", "try_stop"}       -> "stop"
      [] OTHER                            -> "interrupt"

(* silent_remove: the receiver drops the entry, nobody waits for it.       *)
SilentRemove(o) == o \notin {"query", "connect"}

(* A message for the device: its type, the truncated sequence number, and  *)
(* in id the identity of the call it carries.                              *)
(* Mistake: a retransmission under the next sequence number.               *)
MessageRenumbered(type, seq) ==
    [type |-> type, seqnum |-> Truncate(m_send_seq), id |-> seq]

Message(type, seq) == [type |-> type, seqnum |-> Truncate(seq), id |-> seq]

With(map, key, value) ==
    [k \in DOMAIN map \cup {key} |-> IF k = key THEN value ELSE map[k]]
Without(map, key) == Restrict(map, DOMAIN map \ {key})

(* Mistake: the comparison with NOT_ACKED inverted.                        *)
NotAckedInverted(map) == {s \in DOMAIN map : map[s].state # "NOT_ACKED"}

NotAcked(map) == {s \in DOMAIN map : map[s].state = "NOT_ACKED"}

inflight_requests ==
    Cardinality(DOMAIN m_pending_requests)
        + Cardinality(NotAcked(m_pending_commands))

LiveSeqnums == DOMAIN m_pending_requests \cup DOMAIN m_pending_commands

oldest_live_seqnum == Min(LiveSeqnums \cup {m_send_seq})

(* The entry an answer refers to: infer_full_seqnum, then map.find.        *)
(* Mistake: every answer is taken to be for the oldest entry.              *)
InferredOldest(map, seqnum) == Min(DOMAIN map)

Inferred(map, seqnum) ==
    InferFullSeqnum(Min(DOMAIN map), Max(DOMAIN map), seqnum)

Known(map, seqnum) == DOMAIN map # {} /\ Inferred(map, seqnum) \in DOMAIN map

(* Mistakes: notify_one in place of notify_all, and none at all.           *)
NotifyOne == IF m_cv = {} THEN UNCHANGED m_cv
             ELSE \E t \in m_cv : m_cv' = m_cv \ {t}
NotifyNobody == UNCHANGED m_cv

(* m_cv.notify_all(): everyone asleep resumes.                             *)
NotifyAll == m_cv' = {}

Awake(t, at) == pc[t] = at /\ t \notin m_cv
Goto(t, at) == pc' = [pc EXCEPT ![t] = at] /\ UNCHANGED <<op, handle>>
Return(t) ==
    /\ pc' = [pc EXCEPT ![t] = "idle"]
    /\ op' = [op EXCEPT ![t] = "none"]
    /\ handle' = [handle EXCEPT ![t] = 0]
Sleep(t) == m_cv' = m_cv \cup {t}

-----------------------------------------------------------------------------
(* Calls.                                                                  *)

(* Bound: every call on its way to a sequence number finds one <= MaxSeq.  *)
SeqnumLeft ==
    m_send_seq + Cardinality({t \in Threads : pc[t] \in {"issue", "enter_wait"}})
        <= MaxSeq

Enter(t, o, at) ==
    /\ pc' = [pc EXCEPT ![t] = at]
    /\ op' = [op EXCEPT ![t] = o]
    /\ UNCHANGED <<handle, m_send_seq, m_pending_requests, m_pending_commands,
                   m_error, m_cv, ready, receiver, retransmitter, lineVars>>

(* BotBaseHandle calls connect() on a new PABotBase and hands the object   *)
(* out when it has returned.                                               *)
CallIssue(t, o) ==
    /\ pc[t] = "idle" /\ o \in Ops \cap IssueOps
    /\ SeqnumLeft
    /\ (o = "connect") = ~ready
    /\ o = "connect" => \A u \in Threads : op[u] # "connect"
    /\ Enter(t, o, "issue")
    /\ UNCHANGED <<m_state, cancelled>>

CallWaitForAllRequests(t) ==
    /\ pc[t] = "idle" /\ "wait_all" \in Ops /\ ready
    /\ Enter(t, "wait_all", "wait_all")
    /\ UNCHANGED <<m_state, cancelled>>

(* stop(): the compare-and-swap lets one thread in, once.                  *)
CallStop(t) ==
    /\ pc[t] = "idle" /\ "shutdown" \in Ops /\ m_state = "RUNNING"
    /\ m_state' = "STOPPING"
    /\ Enter(t, "shutdown", "stop_wake")
    /\ UNCHANGED cancelled

(* BotBaseContext::cancel of the context thread u works in: the scope is   *)
(* marked, then stop_all_commands; a second cancel returns at once.        *)
(* cancel_lazy ends in next_command_interrupt instead.                     *)
Cancel(t, u, o) ==
    /\ pc[t] = "idle" /\ "cancel" \in Ops /\ ready
    /\ u \notin cancelled /\ u # t
    /\ SeqnumLeft
    /\ cancelled' = cancelled \cup {u}
    /\ o \in Ops \cap {"stop", "interrupt"}
    /\ Enter(t, o, "issue")
    /\ UNCHANGED m_state

-----------------------------------------------------------------------------
(* try_issue_request and try_issue_command.                                *)

(* The context a call is made in; stop_all_commands and its like pass none.*)
IsCancelled(t) == t \in cancelled /\ op[t] \notin ClearOps \cup {"connect"}

IssueRefused(t) == IsCancelled(t) \/ m_state # "RUNNING" \/ m_error

(* Mistake: no limit on the commands that are acknowledged and running.    *)
ThrottledByInflight(o) ==
    \/ inflight_requests >= MAX_PENDING_REQUESTS
    \/ m_send_seq - oldest_live_seqnum > MAX_SEQNUM_GAP

Throttled(o) ==
    \/ o \in CommandOps
         /\ Cardinality(DOMAIN m_pending_commands) >= MAX_PENDING_REQUESTS
    \/ inflight_requests >= MAX_PENDING_REQUESTS
    \/ m_send_seq - oldest_live_seqnum > MAX_SEQNUM_GAP

IssueThrows(t) ==
    /\ Awake(t, "issue") /\ IssueRefused(t)
    /\ Return(t)
    /\ UNCHANGED <<m_send_seq, m_pending_requests, m_pending_commands, m_state,
                   m_error, m_cv, cancelled, ready, receiver, retransmitter,
                   lineVars>>

IssueThrottled(t) ==
    /\ Awake(t, "issue") /\ ~IssueRefused(t) /\ Throttled(op[t])
    /\ IF op[t] \in TryOps THEN Return(t) ELSE Goto(t, "enter_wait")
    /\ UNCHANGED <<m_send_seq, m_pending_requests, m_pending_commands, m_state,
                   m_error, m_cv, cancelled, ready, receiver, retransmitter,
                   lineVars>>

(* What the issuing call does with its sequence number.                    *)
AfterIssue(t) ==
    CASE op[t] \in ClearOps ->
           pc' = [pc EXCEPT ![t] = "clear"] /\ UNCHANGED op
             /\ handle' = [handle EXCEPT ![t] = m_send_seq]
      [] ~SilentRemove(op[t]) ->
           pc' = [pc EXCEPT ![t] = "await"] /\ UNCHANGED op
             /\ handle' = [handle EXCEPT ![t] = m_send_seq]
      [] OTHER -> Return(t)

IssueRequest(t) ==
    /\ Awake(t, "issue") /\ ~IssueRefused(t) /\ ~Throttled(op[t])
    /\ op[t] \notin CommandOps
    /\ m_pending_requests' =
         With(m_pending_requests, m_send_seq,
              [state |-> "NOT_ACKED", silent_remove |-> SilentRemove(op[t]),
               type |-> MessageType(op[t])])
    /\ m_send_seq' = m_send_seq + 1
    /\ toDevice' = Send(toDevice, <<Message(MessageType(op[t]), m_send_seq)>>)
    /\ AfterIssue(t)
    /\ UNCHANGED <<m_pending_commands, m_state, m_error, m_cv, cancelled, ready,
                   receiver, retransmitter, toClient, losses>>

(* Commands always come with silent_remove set, so FINISHED means erased.  *)
IssueCommand(t) ==
    /\ Awake(t, "issue") /\ ~IssueRefused(t) /\ ~Throttled(op[t])
    /\ op[t] \in CommandOps
    /\ m_pending_commands' =
         With(m_pending_commands, m_send_seq, [state |-> "NOT_ACKED"])
    /\ m_send_seq' = m_send_seq + 1
    /\ toDevice' = Send(toDevice, <<Message("command", m_send_seq)>>)
    /\ AfterIssue(t)
    /\ UNCHANGED <<m_pending_requests, m_state, m_error, m_cv, cancelled, ready,
                   receiver, retransmitter, toClient, losses>>

(* issue_request and issue_command after a refused try: the second half of *)
(* the loop, under m_sleep_lock.  Whether there is room by now is not      *)
(* looked at again.                                                        *)
IssueWaits(t) ==
    /\ Awake(t, "enter_wait")
    /\ IF IssueRefused(t)
         THEN Return(t) /\ UNCHANGED m_cv
         ELSE Goto(t, "issue") /\ Sleep(t)
    /\ UNCHANGED <<m_send_seq, m_pending_requests, m_pending_commands, m_state,
                   m_error, cancelled, ready, receiver, retransmitter, lineVars>>

-----------------------------------------------------------------------------
(* The calls that wait, and clear_all_active_commands.                     *)

(* wait_for_request: the answer is there, or there will be none.  The      *)
(* context's cancellation is not looked at.                                *)
AwaitEnds(t) ==
    LET s == handle[t]
        known == s \in DOMAIN m_pending_requests
        failed == m_state # "RUNNING" \/ m_error
        acked == known /\ m_pending_requests[s].state = "ACKED"
    IN  /\ Awake(t, "await") /\ (~known \/ failed \/ acked)
        /\ m_pending_requests' = Without(m_pending_requests, s)
        /\ IF known THEN NotifyAll ELSE UNCHANGED m_cv
        /\ ready' = (ready \/ (op[t] = "connect" /\ acked /\ ~failed))
        /\ Return(t)
        /\ UNCHANGED <<m_send_seq, m_pending_commands, m_state, m_error,
                       cancelled, receiver, retransmitter, lineVars>>

AwaitSleeps(t) ==
    /\ Awake(t, "await")
    /\ handle[t] \in DOMAIN m_pending_requests
    /\ m_pending_requests[handle[t]].state # "ACKED"
    /\ m_state = "RUNNING" /\ ~m_error
    /\ Sleep(t)
    /\ UNCHANGED <<m_send_seq, m_pending_requests, m_pending_commands, m_state,
                   m_error, pc, op, handle, cancelled, ready, receiver,
                   retransmitter, lineVars>>

(* wait_for_all_requests.  m_error is not looked at.                       *)
NothingPending == LiveSeqnums = {}

WaitAllEnds(t) ==
    /\ Awake(t, "wait_all")
    /\ t \in cancelled \/ m_state # "RUNNING" \/ NothingPending
    /\ Return(t)
    /\ UNCHANGED <<m_send_seq, m_pending_requests, m_pending_commands, m_state,
                   m_error, m_cv, cancelled, ready, receiver, retransmitter,
                   lineVars>>

WaitAllSleeps(t) ==
    /\ Awake(t, "wait_all")
    /\ t \notin cancelled /\ m_state = "RUNNING" /\ ~NothingPending
    /\ Sleep(t)
    /\ UNCHANGED <<m_send_seq, m_pending_requests, m_pending_commands, m_state,
                   m_error, pc, op, handle, cancelled, ready, receiver,
                   retransmitter, lineVars>>

clear_all_active_commands(t) ==
    /\ Awake(t, "clear")
    /\ m_pending_commands' =
         Restrict(m_pending_commands,
                  {s \in DOMAIN m_pending_commands : s > handle[t]})
    /\ NotifyAll
    /\ Return(t)
    /\ UNCHANGED <<m_send_seq, m_pending_requests, m_state, m_error, cancelled,
                   ready, receiver, retransmitter, lineVars>>

(* A condition variable may wake a thread for no reason.                   *)
SpuriousWakeup(t) ==
    /\ t \in m_cv
    /\ m_cv' = m_cv \ {t}
    /\ UNCHANGED <<m_send_seq, m_pending_requests, m_pending_commands, m_state,
                   m_error, pc, op, handle, cancelled, ready, receiver,
                   retransmitter, lineVars>>

-----------------------------------------------------------------------------
(* stop().                                                                 *)

(* Mistake: stop() waits for the retransmit thread and wakes nobody.       *)
StopWakesNobody(t) ==
    /\ Awake(t, "stop_wake")
    /\ Goto(t, "stop_join")
    /\ UNCHANGED <<m_send_seq, m_pending_requests, m_pending_commands, m_state,
                   m_error, m_cv, cancelled, ready, receiver, retransmitter,
                   lineVars>>

StopWakesEveryone(t) ==
    /\ Awake(t, "stop_wake")
    /\ NotifyAll
    /\ Goto(t, "stop_join")
    /\ UNCHANGED <<m_send_seq, m_pending_requests, m_pending_commands, m_state,
                   m_error, cancelled, ready, receiver, retransmitter, lineVars>>

(* The retransmit thread is joined; the stop request takes the next number *)
(* without reserving it, and is not kept for retransmission.               *)
StopSends(t) ==
    /\ Awake(t, "stop_join") /\ retransmitter = "exited"
    /\ toDevice' = Send(toDevice, <<Message("stop", m_send_seq)>>)
    /\ Goto(t, "stop_close")
    /\ UNCHANGED <<m_send_seq, m_pending_requests, m_pending_commands, m_state,
                   m_error, m_cv, cancelled, ready, receiver, retransmitter,
                   toClient, losses>>

(* safely_stop() joins the receiver thread.                                *)
StopCloses(t) ==
    /\ Awake(t, "stop_close") /\ receiver = "read"
    /\ m_state' = "STOPPED"
    /\ Return(t)
    /\ UNCHANGED <<m_send_seq, m_pending_requests, m_pending_commands, m_error,
                   m_cv, cancelled, ready, receiver, retransmitter, lineVars>>

-----------------------------------------------------------------------------
(* The receiver thread: on_recv_message.                                   *)

Receives(type) ==
    /\ receiver = "read" /\ m_state # "STOPPED"
    /\ toClient # <<>> /\ Head(toClient).type = type
    /\ toClient' = Tail(toClient)
    /\ UNCHANGED <<losses, m_send_seq, m_state, pc, op, handle, cancelled,
                   ready, retransmitter>>

(* What an ack does to the entry it is for.                                *)
(* Mistake: the entry is dropped although somebody waits for it.           *)
AckEntryDropped(map, s) == Without(map, s)

AckEntry(map, s) ==
    IF map[s].silent_remove THEN Without(map, s)
    ELSE [map EXCEPT ![s].state = "ACKED"]

(* process_ack_request: the map is changed under m_state_lock, the waiting *)
(* threads are notified after it has been released.                        *)
process_ack_request ==
    LET seqnum == Head(toClient).seqnum
        s == Inferred(m_pending_requests, seqnum)
        fresh == /\ Known(m_pending_requests, seqnum)
                 /\ m_pending_requests[s].state = "NOT_ACKED"
    IN  /\ Receives("ack_request")
        /\ m_pending_requests' =
             IF fresh THEN AckEntry(m_pending_requests, s)
             ELSE m_pending_requests
        /\ receiver' = IF fresh THEN "notify" ELSE "read"
        /\ UNCHANGED <<m_pending_commands, m_error, m_cv, toDevice>>

(* process_ack_command notifies nobody.                                    *)
process_ack_command ==
    LET seqnum == Head(toClient).seqnum
        s == Inferred(m_pending_commands, seqnum)
    IN  /\ Receives("ack_command")
        /\ m_pending_commands' =
             IF Known(m_pending_commands, seqnum)
             THEN [m_pending_commands EXCEPT ![s].state = "ACKED"]
             ELSE m_pending_commands
        /\ UNCHANGED <<m_pending_requests, m_error, m_cv, receiver, toDevice>>

(* process_command_finished: acknowledged first, known or not; all of it   *)
(* under both locks.                                                       *)
process_command_finished ==
    LET message == Head(toClient)
        known == Known(m_pending_commands, message.command)
    IN  /\ Receives("finished")
        /\ toDevice' = Send(toDevice, <<[type |-> "finish_ack",
                                         seqnum |-> message.seqnum, id |-> 0]>>)
        /\ m_pending_commands' =
             IF known
             THEN Without(m_pending_commands,
                          Inferred(m_pending_commands, message.command))
             ELSE m_pending_commands
        /\ IF known THEN NotifyAll ELSE UNCHANGED m_cv
        /\ UNCHANGED <<m_pending_requests, m_error, receiver>>

(* Mistake: every missed request is taken for a restart.                   *)
MeansRestartAlways(seqnum) == TRUE

MeansRestart(seqnum) == seqnum = 1

(* PABB_MSG_ERROR_MISSED_REQUEST: a device that waits for number 1 has     *)
(* been restarted.                                                         *)
process_missed_request ==
    LET restarted == MeansRestart(Head(toClient).seqnum)
    IN  /\ Receives("missed")
        /\ m_error' = (m_error \/ restarted)
        /\ receiver' = IF restarted THEN "notify" ELSE "read"
        /\ UNCHANGED <<m_pending_requests, m_pending_commands, m_cv, toDevice>>

(* Any other message type falls through the switch.                        *)
process_other ==
    /\ Receives("dropped")
    /\ UNCHANGED <<m_pending_requests, m_pending_commands, m_error, m_cv,
                   receiver, toDevice>>

ReceiverNotifies ==
    /\ receiver = "notify"
    /\ NotifyAll
    /\ receiver' = "read"
    /\ UNCHANGED <<m_send_seq, m_pending_requests, m_pending_commands, m_state,
                   m_error, pc, op, handle, cancelled, ready, retransmitter,
                   lineVars>>

Receiver ==
    \/ process_ack_request \/ process_ack_command \/ process_command_finished
    \/ process_missed_request \/ process_other \/ ReceiverNotifies

-----------------------------------------------------------------------------
(* retransmit_thread.                                                      *)

(* Between two passes it always goes through the wait, which is where it   *)
(* sees m_error.                                                           *)
RetransmitDue ==
    /\ retransmitter = "wait" /\ m_state = "RUNNING" /\ ~m_error
    /\ retransmitter' = "resend"
    /\ UNCHANGED <<m_send_seq, m_pending_requests, m_pending_commands, m_state,
                   m_error, m_cv, pc, op, handle, cancelled, ready, receiver,
                   lineVars>>

RetransmitExits ==
    /\ retransmitter = "wait" /\ (m_state # "RUNNING" \/ m_error)
    /\ retransmitter' = "exited"
    /\ UNCHANGED <<m_send_seq, m_pending_requests, m_pending_commands, m_state,
                   m_error, m_cv, pc, op, handle, cancelled, ready, receiver,
                   lineVars>>

(* The elements of a finite set of numbers in increasing order.            *)
Increasing(S) ==
    {q \in [1..Cardinality(S) -> S] :
        \A i, j \in 1..Cardinality(S) : i < j => q[i] < q[j]}

(* One pass: the requests older than the retransmit delay in order, then   *)
(* the commands.  cutoff is the youngest message that is old enough; a     *)
(* pass that finds none so old changes nothing and is not told apart from  *)
(* the wait.                                                               *)
RetransmitPass ==
    LET Old(map, cutoff) == {s \in NotAcked(map) : s <= cutoff}
        waiting == NotAcked(m_pending_requests) \cup NotAcked(m_pending_commands)
    IN  /\ retransmitter = "resend" /\ Drained(toDevice)
        /\ \E cutoff \in (IF waiting = {} THEN {0} ELSE waiting) :
           \E rs \in Increasing(Old(m_pending_requests, cutoff)),
              cs \in Increasing(Old(m_pending_commands, cutoff)) :
             toDevice' =
               Send(toDevice,
                    [i \in DOMAIN rs |->
                       Message(m_pending_requests[rs[i]].type, rs[i])]
                    \o [i \in DOMAIN cs |-> Message("command", cs[i])])
        /\ retransmitter' = "wait"
        /\ UNCHANGED <<m_send_seq, m_pending_requests, m_pending_commands,
                       m_state, m_error, m_cv, pc, op, handle, cancelled, ready,
                       receiver, toClient, losses>>

Retransmitter == RetransmitDue \/ RetransmitExits \/ RetransmitPass

-----------------------------------------------------------------------------

Calls(t) ==
    \/ \E o \in IssueOps : CallIssue(t, o)
    \/ CallWaitForAllRequests(t)
    \/ CallStop(t)
    \/ \E u \in Threads, o \in {"stop", "interrupt"} : Cancel(t, u, o)

(* The steps a thread takes by itself once it is in a call.                *)
ThreadStep(t) ==
    \/ IssueThrows(t) \/ IssueThrottled(t) \/ IssueRequest(t) \/ IssueCommand(t)
    \/ IssueWaits(t) \/ AwaitEnds(t) \/ AwaitSleeps(t)
    \/ WaitAllEnds(t) \/ WaitAllSleeps(t) \/ clear_all_active_commands(t)
    \/ StopWakesEveryone(t) \/ StopSends(t) \/ StopCloses(t)

ClientNext ==
    \/ \E t \in Threads : Calls(t) \/ ThreadStep(t) \/ SpuriousWakeup(t)
    \/ Receiver \/ Retransmitter
=============================================================================
