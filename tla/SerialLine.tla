----------------------------- MODULE SerialLine -----------------------------
(***************************************************************************)
(* The two directions of the serial line between PABotBase and the device. *)
(* A message arrives whole or not at all: the parser in on_recv drops what *)
(* fails its length or checksum test, and write() on a descriptor opened   *)
(* with O_NDELAY may refuse bytes, a result that send() ignores.           *)
(***************************************************************************)
EXTENDS Integers, Sequences

CONSTANTS MaxLine,    \* messages a direction can hold before it loses some
          MaxLosses,  \* bound: messages that noise destroys
          Timely      \* whether a direction drains within a retransmit delay

ASSUME LineAssumption ==
    MaxLine \in Nat \ {0} /\ MaxLosses \in Nat /\ Timely \in BOOLEAN

VARIABLES toDevice, toClient, losses

lineVars == <<toDevice, toClient, losses>>

LineInit == toDevice = <<>> /\ toClient = <<>> /\ losses = 0

(* The messages ms written behind those of the line; what does not fit is  *)
(* lost.                                                                   *)
Send(line, ms) ==
    LET all == line \o ms
    IN  SubSeq(all, 1, IF Len(all) < MaxLine THEN Len(all) ELSE MaxLine)

(* PABB_RETRANSMIT_DELAY_MILLIS is 80; the few messages of 18 bytes that   *)
(* can be outstanding take 115200 baud under 10 ms.  Where Timely holds, a *)
(* message is sent again only on a line that has delivered what it held.   *)
Drained(line) == Timely => line = <<>>

(* Noise corrupts the oldest message in flight; its checksum fails.        *)
LoseToDevice ==
    /\ toDevice # <<>> /\ losses < MaxLosses
    /\ toDevice' = Tail(toDevice) /\ losses' = losses + 1
    /\ UNCHANGED toClient

LoseToClient ==
    /\ toClient # <<>> /\ losses < MaxLosses
    /\ toClient' = Tail(toClient) /\ losses' = losses + 1
    /\ UNCHANGED toDevice

LineNext == LoseToDevice \/ LoseToClient
=============================================================================
