------------------------------ MODULE TaskPool ------------------------------
(***************************************************************************)
(* What a pool of threads promises for the tasks that are given to it:     *)
(* they begin in the order they were queued in, each once, and each is     *)
(* signalled when it is over; those that have not begun when the pool is   *)
(* closed are signalled when all that have begun are over.                 *)
(***************************************************************************)
EXTENDS Integers, Sequences

CONSTANT Tasks

VARIABLES queued,      \* the tasks that have not begun, in order
          running,     \* those that have
          signalled,   \* those that nobody waits for any more
          closed

Init == queued = <<>> /\ running = {} /\ signalled = {} /\ closed = FALSE

(* Tasks are new when they are queued, and all of them differ.             *)
Submit ==
    /\ ~closed /\ Len(queued') >= Len(queued)
    /\ \A i \in 1..Len(queued) : queued'[i] = queued[i]
    /\ \A i \in Len(queued) + 1..Len(queued') :
         /\ queued'[i] \in Tasks \ (running \cup signalled)
         /\ \A j \in 1..i - 1 : queued'[j] # queued'[i]
    /\ UNCHANGED <<running, signalled, closed>>

Begin ==
    /\ ~closed /\ queued # <<>>
    /\ running' = running \cup {Head(queued)} /\ queued' = Tail(queued)
    /\ UNCHANGED <<signalled, closed>>

End ==
    /\ \E k \in running : running' = running \ {k} /\ signalled' = signalled \cup {k}
    /\ UNCHANGED <<queued, closed>>

Close == ~closed /\ closed' = TRUE /\ UNCHANGED <<queued, running, signalled>>

Abandon ==
    /\ closed /\ running = {} /\ queued' = <<>>
    /\ signalled' = signalled \cup {queued[i] : i \in 1..Len(queued)}
    /\ UNCHANGED <<running, closed>>

Next == Submit \/ Begin \/ End \/ Close \/ Abandon

Spec == Init /\ [][Next]_<<queued, running, signalled, closed>>
=============================================================================
