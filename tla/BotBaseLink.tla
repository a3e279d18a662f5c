---------------------------- MODULE BotBaseLink -----------------------------
(***************************************************************************)
(* PABotBase, the serial line and the device together, and what the whole  *)
(* must guarantee.                                                         *)
(***************************************************************************)
EXTENDS PABotBase, PABotBaseDevice

vars == <<lineVars, clientVars, deviceVars>>

Init == LineInit /\ ClientInit /\ DeviceInit

Next ==
    \/ ClientNext /\ UNCHANGED deviceVars
    \/ DeviceNext /\ UNCHANGED clientVars
    \/ LineNext /\ UNCHANGED <<clientVars, deviceVars>>

Spec == Init /\ [][Next]_vars

(***************************************************************************)
(* Every thread that can run does run; so do the receiver, the retransmit  *)
(* thread (its wait is a timed one) and the device.  Nothing obliges a     *)
(* caller to make a call, the line to lose a message, a condition variable *)
(* to wake a sleeper or the device to lose its power.                      *)
(***************************************************************************)
Fairness ==
    /\ \A t \in Threads : WF_vars(ThreadStep(t) /\ UNCHANGED deviceVars)
    /\ WF_vars(Receiver /\ UNCHANGED deviceVars)
    /\ WF_vars(Retransmitter /\ UNCHANGED deviceVars)
    /\ WF_vars(DeviceReceives /\ UNCHANGED clientVars)
    /\ WF_vars(DeviceFinishes /\ UNCHANGED clientVars)
    /\ WF_vars((\E seqnum \in dev_finished : DeviceResendsFinish(seqnum))
                 /\ UNCHANGED clientVars)

FairSpec == Spec /\ Fairness

-----------------------------------------------------------------------------
(* Types.                                                                  *)

RequestTypes == {"request", "reset", "stop", "interrupt"}

DeviceMessage ==
    [type : RequestTypes \cup {"command", "finish_ack"}, seqnum : Nat, id : Nat]
ClientMessage ==
    [type : {"ack_request", "ack_command", "finished", "missed", "dropped"},
     seqnum : Nat, command : Nat]

AckState == {"NOT_ACKED", "ACKED"}
PendingRequest ==
    [state : AckState, silent_remove : BOOLEAN, type : RequestTypes]
PendingCommand == [state : AckState]

LineTypeOK ==
    /\ toDevice \in Seq(DeviceMessage)
    /\ toClient \in Seq(ClientMessage)
    /\ losses \in Nat

PendingTypeOK ==
    /\ m_send_seq \in Nat
    /\ DOMAIN m_pending_requests \subseteq Nat
    /\ \A s \in DOMAIN m_pending_requests :
         m_pending_requests[s] \in PendingRequest
    /\ DOMAIN m_pending_commands \subseteq Nat
    /\ \A s \in DOMAIN m_pending_commands :
         m_pending_commands[s] \in PendingCommand

PendingFinite ==
    IsFiniteSet(DOMAIN m_pending_requests) /\ IsFiniteSet(DOMAIN m_pending_commands)

ControlTypeOK ==
    /\ pc \in [Threads -> {"idle", "issue", "enter_wait", "clear", "await",
                           "wait_all", "stop_wake", "stop_join", "stop_close"}]
    /\ op \in [Threads -> AllOps \cup {"none"}]
    /\ handle \in [Threads -> Nat]

FlagTypeOK ==
    /\ m_state \in {"RUNNING", "STOPPING", "STOPPED"}
    /\ m_error \in BOOLEAN
    /\ m_cv \subseteq Threads
    /\ cancelled \subseteq Threads
    /\ ready \in BOOLEAN
    /\ receiver \in {"read", "notify"}
    /\ retransmitter \in {"wait", "resend", "exited"}

DeviceTypeOK ==
    /\ dev_expected \in Nat /\ dev_queue \in Seq(Nat)
    /\ dev_finished \subseteq Nat /\ dev_interrupt \in BOOLEAN
    /\ reboots \in Nat /\ processed \in Seq(Nat)

TypeOK ==
    /\ LineTypeOK /\ PendingTypeOK /\ PendingFinite
    /\ ControlTypeOK /\ FlagTypeOK /\ DeviceTypeOK

-----------------------------------------------------------------------------
(* Safety.                                                                 *)

(* The client never makes the device drop a command: its own limit on      *)
(* pending commands (try_issue_command) keeps the device's queue from      *)
(* overflowing, across stops, interrupts and late finish messages.         *)
NoCommandDropped ==
    \A i \in DOMAIN toClient : toClient[i].type # "dropped"

(* A pending request leaves the map only when the device has processed it, *)
(* or when its waiter gives up on a dead connection, and a pending command *)
(* only when the device has finished it, or when a later stop or interrupt *)
(* clears it: no late or duplicate ack is taken for another's.             *)
EntriesLeaveWhenDone ==
    [][/\ \A s \in DOMAIN m_pending_requests \ DOMAIN m_pending_requests' :
            s \in Range(processed) \/ m_error \/ m_state # "RUNNING"
       /\ \A s \in DOMAIN m_pending_commands \ DOMAIN m_pending_commands' :
            \/ s \in Range(processed) /\ Truncate(s) \notin Range(dev_queue)
            \/ \E t \in Threads : pc[t] = "clear" /\ handle[t] > s]_vars

(* wait_for_request finds its entry until it takes it: nobody else erases  *)
(* the entry of a request someone waits for, and no two threads wait for   *)
(* the same one.                                                           *)
WaiterOwnsEntry ==
    \A t \in Threads : pc[t] = "await" =>
        /\ handle[t] \in DOMAIN m_pending_requests
        /\ ~m_pending_requests[handle[t]].silent_remove
        /\ \A u \in Threads \ {t} : pc[u] = "await" => handle[u] # handle[t]

(* No ack is slept through: process_ack_request changes the entry outside  *)
(* m_sleep_lock and notifies afterwards, so while a thread sleeps on an    *)
(* answered request the receiver is about to notify.                       *)
NoAckSleptThrough ==
    \A t \in m_cv :
        /\ pc[t] = "await"
        /\ handle[t] \in DOMAIN m_pending_requests
        /\ m_pending_requests[handle[t]].state = "ACKED"
        => receiver = "notify"

(* Every live entry bears a number that has been handed out.               *)
IssuedBelowNext == \A s \in LiveSeqnums : s < m_send_seq

(* Of every live request and command, the 32 bits in an ack lead back to   *)
(* the entry itself (infer_full_seqnum), wrap-around included.             *)
LiveSeqnumsResolve ==
    /\ \A s \in DOMAIN m_pending_requests :
         Inferred(m_pending_requests, Truncate(s)) = s
    /\ \A s \in DOMAIN m_pending_commands :
         Inferred(m_pending_commands, Truncate(s)) = s

(* "Serial connection has been interrupted" is said only of a device that  *)
(* has restarted.                                                          *)
InterruptionMeansReboot == m_error => reboots > 0

(* The message the device waits for is still to come: it is on the line,   *)
(* or pending and therefore retransmitted, or not issued yet (rule 7).     *)
ExpectedStillComes ==
    m_state = "RUNNING" /\ ~m_error /\ ready /\ reboots = 0 =>
        \/ dev_expected = Truncate(m_send_seq)
        \/ \E s \in NotAcked(m_pending_requests) \cup NotAcked(m_pending_commands) :
             Truncate(s) = dev_expected
        \/ \E i \in DOMAIN toDevice :
             toDevice[i].type # "finish_ack" /\ toDevice[i].seqnum = dev_expected

-----------------------------------------------------------------------------
(* Liveness.                                                               *)

(* Every request and command is answered and leaves its map.               *)
PendingDrains ==
    \A s \in FirstSeq..MaxSeq :
        s \in LiveSeqnums ~> s \notin LiveSeqnums

(* issue_request_and_wait returns once the request is issued.              *)
QueryReturns ==
    \A t \in Threads : pc[t] = "await" ~> pc[t] # "await"

(* issue_request and issue_command: "If it cannot be issued (because we're *)
(* over the limits), this function will wait until it can be issued."      *)
IssueReturns ==
    \A t \in Threads :
        pc[t] = "enter_wait" ~> pc[t] \notin {"enter_wait", "issue"}

(* stop() closes the connection, and every call that is under way or made  *)
(* later returns: nobody is left asleep on m_cv.                           *)
StopTerminates ==
    /\ m_state = "STOPPING" ~> m_state = "STOPPED"
    /\ \A t \in Threads : m_state # "RUNNING" ~> pc[t] = "idle"

(* BotBaseContext: "A wrapper for BotBase that allows for asynchronous     *)
(* cancelling."  A cancelled context does not stay in a call that looks    *)
(* for the cancellation, and wait_for_all_requests returns when all is     *)
(* done: both unless the device restarts.                                  *)
Cancelled(t) ==
    /\ t \in cancelled /\ op[t] \notin ClearOps
    /\ pc[t] \in {"wait_all", "issue", "enter_wait"}
WaitsReturn ==
    \A t \in Threads :
        /\ Cancelled(t) ~> ~Cancelled(t) \/ reboots > 0
        /\ pc[t] = "wait_all" ~> pc[t] # "wait_all" \/ reboots > 0
=============================================================================
