--------------------------- MODULE ReliableStream ---------------------------
(***************************************************************************)
(* What the protocol promises: whatever the serial line does, the device   *)
(* processes the commands of the client in the order they were issued,     *)
(* each exactly once.  It processes other messages between them, of which  *)
(* nothing is promised.                                                    *)
(***************************************************************************)
EXTENDS Integers, Sequences, Functions

VARIABLES commands,   \* the numbers of the commands issued
          processed   \* those of the messages that the device has processed

Init == commands = {} /\ processed = <<>>

Issue ==
    /\ \E c \in commands' :
          /\ commands' = commands \cup {c}
          /\ \A d \in commands \cup Range(processed) : d < c
    /\ UNCHANGED processed

Awaited == commands \ Range(processed)

Process ==
    /\ \E m \in Range(processed') :
          /\ processed' = Append(processed, m)
          /\ m \in commands => m \in Awaited /\ \A c \in Awaited : m <= c
    /\ UNCHANGED commands

Next == Issue \/ Process

Spec == Init /\ [][Next]_<<commands, processed>>
=============================================================================
