-------------------------- MODULE PABotBaseDevice ---------------------------
(***************************************************************************)
(* The device at the other end of the line.  Its firmware is not part of   *)
(* the repository: this is what MessageProtocol.h asks of a receiver and   *)
(* what PABotBase relies on.                                               *)
(***************************************************************************)
EXTENDS SeqnumInference, SerialLine, Functions

CONSTANTS DEVICE_QUEUE_SIZE,  \* PABB_DEVICE_QUEUE_SIZE
          DeviceStart,        \* sequence numbers it may wait for at the start
          MaxReboots          \* bound

ASSUME DeviceAssumption ==
    /\ DEVICE_QUEUE_SIZE \in Nat \ {0} /\ MaxReboots \in Nat
    /\ DeviceStart \subseteq Nat

VARIABLES dev_expected,   \* the sequence number it waits for
          dev_queue,      \* commands accepted and not finished, running first
          dev_finished,   \* finished commands whose finish is not acknowledged
          dev_interrupt,  \* the next command replaces the queue
          reboots,
          processed       \* history: the ids of the messages it has processed

deviceVars ==
    <<dev_expected, dev_queue, dev_finished, dev_interrupt, reboots, processed>>

DeviceInit ==
    /\ dev_expected \in {Truncate(s) : s \in DeviceStart}
    /\ dev_queue = <<>> /\ dev_finished = {} /\ dev_interrupt = FALSE
    /\ reboots = 0 /\ processed = <<>>

(* A message for the client; command is the number of the finished command.*)
Reply(type, seqnum) == [type |-> type, seqnum |-> seqnum, command |-> 0]
FinishMessage(seqnum) ==
    [type |-> "finished", seqnum |-> seqnum, command |-> seqnum]
AckOf(message) ==
    Reply(IF message.type = "command" THEN "ack_command" ELSE "ack_request",
          message.seqnum)

(* Rule 9: a number from the half range behind the expected one is old.    *)
IsOld(seqnum) == Truncate(dev_expected - seqnum) \in 1..(SeqMod \div 2)

DeviceTakes(message) ==
    /\ toDevice # <<>> /\ message = Head(toDevice)
    /\ toDevice' = Tail(toDevice) /\ UNCHANGED <<losses, reboots>>

Accept(message) ==
    /\ dev_expected' = Truncate(message.seqnum + 1)
    /\ processed' = Append(processed, message.id)
    /\ toClient' = Send(toClient, <<AckOf(message)>>)

(* The next message in order (rules 5, 6).                                 *)
DeviceAccepts(message) ==
    /\ message.type \notin {"finish_ack", "reset"}
    /\ message.seqnum = dev_expected
    /\ message.type = "command" =>
         dev_interrupt \/ Len(dev_queue) < DEVICE_QUEUE_SIZE
    /\ DeviceTakes(message) /\ Accept(message)
    /\ dev_queue' =
         CASE message.type = "command" /\ dev_interrupt  -> <<message.seqnum>>
           [] message.type = "command" /\ ~dev_interrupt ->
                Append(dev_queue, message.seqnum)
           [] message.type = "stop" -> <<>>
           [] OTHER                 -> dev_queue
    /\ dev_interrupt' =
         CASE message.type \in {"command", "stop"} -> FALSE
           [] message.type = "interrupt"           -> TRUE
           [] OTHER                                -> dev_interrupt
    /\ UNCHANGED dev_finished

(* A command that meets a full queue is dropped, and said to be.           *)
DeviceDrops(message) ==
    /\ message.type = "command" /\ message.seqnum = dev_expected
    /\ ~dev_interrupt /\ Len(dev_queue) >= DEVICE_QUEUE_SIZE
    /\ DeviceTakes(message)
    /\ toClient' = Send(toClient, <<Reply("dropped", message.seqnum)>>)
    /\ UNCHANGED <<dev_expected, dev_queue, dev_finished, dev_interrupt,
                   processed>>

(* PABB_MSG_SEQNUM_RESET sets the number whatever was expected before.     *)
DeviceResets(message) ==
    /\ message.type = "reset"
    /\ DeviceTakes(message)
    /\ dev_expected' = Truncate(message.seqnum + 1)
    /\ processed' = IF message.id \in Range(processed) THEN processed
                    ELSE Append(processed, message.id)
    /\ toClient' = Send(toClient, <<AckOf(message)>>)
    /\ UNCHANGED <<dev_queue, dev_finished, dev_interrupt>>

(* Rule 9: acknowledged again, not processed again.                        *)
DeviceAcksAgain(message) ==
    /\ message.type \notin {"finish_ack", "reset"} /\ IsOld(message.seqnum)
    /\ DeviceTakes(message)
    /\ toClient' = Send(toClient, <<AckOf(message)>>)
    /\ UNCHANGED <<dev_expected, dev_queue, dev_finished, dev_interrupt,
                   processed>>

(* Rule 8: a message ahead of the expected one is not processed.           *)
DeviceMissed(message) ==
    /\ message.type \notin {"finish_ack", "reset"}
    /\ message.seqnum # dev_expected /\ ~IsOld(message.seqnum)
    /\ DeviceTakes(message)
    /\ toClient' = Send(toClient, <<Reply("missed", dev_expected)>>)
    /\ UNCHANGED <<dev_expected, dev_queue, dev_finished, dev_interrupt,
                   processed>>

DeviceFinishAcked(message) ==
    /\ message.type = "finish_ack"
    /\ DeviceTakes(message)
    /\ dev_finished' = dev_finished \ {message.seqnum}
    /\ UNCHANGED <<dev_expected, dev_queue, dev_interrupt, processed, toClient>>

DeviceReceives ==
    \E message \in Range(toDevice) :
        \/ DeviceAccepts(message) \/ DeviceDrops(message)
        \/ DeviceResets(message) \/ DeviceAcksAgain(message)
        \/ DeviceMissed(message) \/ DeviceFinishAcked(message)

(* Rule 6: the running command ends, and the finish is reported until the  *)
(* client acknowledges it.                                                 *)
DeviceFinishes ==
    /\ dev_queue # <<>>
    /\ dev_queue' = Tail(dev_queue)
    /\ dev_finished' = dev_finished \cup {Head(dev_queue)}
    /\ toClient' = Send(toClient, <<FinishMessage(Head(dev_queue))>>)
    /\ UNCHANGED <<dev_expected, dev_interrupt, reboots, processed, toDevice,
                   losses>>

DeviceResendsFinish(seqnum) ==
    /\ seqnum \in dev_finished /\ Drained(toClient)
    /\ toClient' = Send(toClient, <<FinishMessage(seqnum)>>)
    /\ UNCHANGED <<deviceVars, toDevice, losses>>

(* Power loss: everything but the wire starts over.                        *)
DeviceReboots ==
    /\ reboots < MaxReboots /\ reboots' = reboots + 1
    /\ dev_expected' = 1 /\ dev_queue' = <<>> /\ dev_finished' = {}
    /\ dev_interrupt' = FALSE
    /\ UNCHANGED <<processed, lineVars>>

DeviceNext ==
    \/ DeviceReceives \/ DeviceFinishes \/ DeviceReboots
    \/ \E seqnum \in dev_finished : DeviceResendsFinish(seqnum)
=============================================================================
