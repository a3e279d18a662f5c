---------------------------- MODULE CommandStream ----------------------------
(***************************************************************************)
(* BotBaseLink with a history variable, the calls issued as commands, and  *)
(* what the protocol promises of them.                                     *)
(***************************************************************************)
EXTENDS BotBaseLink

VARIABLE commands   \* nothing reads it

(* A command is among the pending ones in the step that issues it.         *)
HistoryInit == Init /\ commands = {}
HistoryNext == Next /\ commands' = commands \cup DOMAIN m_pending_commands'

HistorySpec == HistoryInit /\ [][HistoryNext]_<<vars, commands>>

(* MessageProtocol.h: "The current protocol guarantees that all commands   *)
(* are processed in order exactly once. Requests are not guaranteed to     *)
(* process in order and may execute more than once so they should be       *)
(* idempotent."  Over lost, repeated and reordered messages, no command is *)
(* processed twice, none before an earlier one and none skipped; nothing   *)
(* is said of requests.                                                    *)
Stream == INSTANCE ReliableStream
CommandsOnceInOrder == Stream!Spec
=============================================================================
