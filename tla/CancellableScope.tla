-------------------------- MODULE CancellableScope --------------------------
(***************************************************************************)
(* The tree of Cancellables that every program runs under.                 *)
(*                                                                         *)
(* cancel() takes the locks of a branch from the top down while other      *)
(* threads attach to it, detach from it, sleep in it and cancel parts of   *)
(* it.  A scope has children and a lock over them; a leaf (PeriodicRunner, *)
(* AsyncCommandSession) overrides cancel() and has an m_lock of its own,   *)
(* which its other methods take too and under which some of them cancel    *)
(* something else.                                                         *)
(*                                                                         *)
(* ScopeSpec is what the users of the tree may do; Inference and           *)
(* CommandSession, which are such users, are checked to keep to it.        *)
(***************************************************************************)
EXTENDS Integers, Sequences, FiniteSets

CONSTANTS
    Threads, NoThread,
    Scopes, NoScope, Leaves,
    Below,      \* pairs: what may be cancelled under whose lock
    Exceptions, NoException

Nodes == Scopes \cup Leaves

ASSUME ScopeAssumption ==
    /\ NoThread \notin Threads /\ NoScope \notin Nodes
    /\ Scopes \cap Leaves = {} /\ NoException \notin Exceptions
    /\ Below \subseteq Nodes \X Nodes
    /\ \A n \in Nodes : <<n, n>> \notin Below
    /\ \A k, m, n \in Nodes :
          <<k, m>> \in Below /\ <<m, n>> \in Below => <<k, n>> \in Below

VARIABLES
    alive,       \* the nodes that have been constructed and not destroyed
    attached,    \* those between attach() and detach()
    cancelled,   \* those whose flag is set
    exception,   \* per node: the exception it was cancelled with
    m_scope,     \* per node: the scope it attached to
    children,    \* per scope: who is in data.children
    lock,        \* per node: the thread that has its lock
    calls,       \* per thread: the locks and cancel() calls it is in
    waiting      \* per thread: the scope whose condition it sleeps on

scopeVars == <<alive, attached, cancelled, exception, m_scope, children, lock,
               calls, waiting>>

-----------------------------------------------------------------------------
(* A frame is a cancel() that is about to set the flag, to lock, is going  *)
(* through the children, or has unlocked; or a method of a leaf that has   *)
(* its lock.                                                               *)

Frame(n, at, e) == [node |-> n, at |-> at, todo |-> {}, exc |-> e]
Frames == [node : Nodes, at : {"flag", "lock", "children", "held", "after"},
           todo : SUBSET Nodes, exc : Exceptions \cup {NoException}]

Push(s, f) == Append(s, f)
Depth(t) == Len(calls[t])
Top(t) == calls[t][Depth(t)]
Idle(t) == calls[t] = <<>> /\ waiting[t] = NoScope
TopIs(t, at) == calls[t] # <<>> /\ Top(t).at = at

(* A cancel() of the thread itself or of one of its leaves, and not of the *)
(* scope above.                                                            *)
Direct(t, i) == i = 1 \/ calls[t][i - 1].node \in Leaves

(* The call on top returns: a scope that made it goes on to its next       *)
(* child.                                                                  *)
Returned(t) ==
    LET d == Depth(t)
    IN  [i \in 1..d - 1 |->
            IF i = d - 1 THEN [calls[t][i] EXCEPT !.todo = @ \ {Top(t).node}]
                         ELSE calls[t][i]]

(* Scopes that attach to nothing may be there already.                     *)
ScopeInit ==
    /\ alive \in SUBSET Scopes /\ attached = {} /\ cancelled = {}
    /\ exception = [n \in Nodes |-> NoException]
    /\ m_scope = [n \in Nodes |-> NoScope]
    /\ children = [s \in Scopes |-> {}]
    /\ lock = [n \in Nodes |-> NoThread]
    /\ calls = [t \in Threads |-> <<>>]
    /\ waiting = [t \in Threads |-> NoScope]

-----------------------------------------------------------------------------
(* Construction and destruction.                                           *)

Constructed(n) ==
    /\ n \notin alive
    /\ alive' = alive \cup {n}
    /\ cancelled' = cancelled \ {n}
    /\ exception' = [exception EXCEPT ![n] = NoException]

(* A node without a scope above it.                                        *)
ConstructRoot(s) ==
    /\ Constructed(s)
    /\ m_scope' = [m_scope EXCEPT ![s] = NoScope]
    /\ UNCHANGED <<attached, children, lock, calls, waiting>>

(* Mistake: the scope is not asked whether it has been cancelled.          *)
AttachUnasked(t, n, s) ==
    /\ Idle(t) /\ s \in alive /\ lock[s] = NoThread
    /\ Constructed(n)
    /\ attached' = attached \cup {n}
    /\ m_scope' = [m_scope EXCEPT ![n] = s]
    /\ children' = [children EXCEPT ![s] = @ \cup {n}]
    /\ UNCHANGED <<lock, calls, waiting>>

(* The constructor of n ends with attach(s).                               *)
Attach(t, n, s) ==
    /\ Idle(t) /\ s \in alive /\ lock[s] = NoThread
    /\ s \notin cancelled
    /\ Constructed(n)
    /\ attached' = attached \cup {n}
    /\ m_scope' = [m_scope EXCEPT ![n] = s]
    /\ children' = [children EXCEPT ![s] = @ \cup {n}]
    /\ UNCHANGED <<lock, calls, waiting>>

(* It throws, and the constructor is undone.                               *)
AttachThrows(t, s) ==
    Idle(t) /\ s \in alive /\ lock[s] = NoThread /\ s \in cancelled

Detach(t, n) ==
    /\ Idle(t) /\ n \in attached /\ lock[m_scope[n]] = NoThread
    /\ attached' = attached \ {n}
    /\ children' = [children EXCEPT ![m_scope[n]] = @ \ {n}]
    /\ UNCHANGED <<alive, cancelled, exception, m_scope, lock, calls, waiting>>

(* Nothing is left of it but what others may still point to.               *)
Destroyed(n) ==
    /\ n \in alive \ attached
    /\ alive' = alive \ {n}
    /\ cancelled' = cancelled \ {n}
    /\ exception' = [exception EXCEPT ![n] = NoException]
    /\ m_scope' = [m_scope EXCEPT ![n] = NoScope]
    /\ UNCHANGED <<attached, children, lock, calls, waiting>>

(* What the program must see to.  Whatever cancels a node knows it to be   *)
(* alive, and holds no lock but of leaves that stand above it.  Before it  *)
(* destroys one, its own calls on it are over and what is attached to it   *)
(* is gone.                                                                *)
MayCancel(t, n) ==
    n \in alive /\ (calls[t] # <<>> => <<Top(t).node, n>> \in Below)

Released(n) ==
    /\ \A t \in Threads :
          /\ waiting[t] # n
          /\ \A i \in 1..Depth(t) :
                calls[t][i].node = n => ~Direct(t, i)
    /\ \A m \in attached : m_scope[m] # n

-----------------------------------------------------------------------------
(* cancel().                                                               *)

(* A thread, or a method of a leaf that has its lock, calls n.cancel(e).   *)
CallCancel(t, n, e) ==
    /\ Idle(t) \/ TopIs(t, "held")
    /\ calls' = [calls EXCEPT ![t] = Push(@, Frame(n, "flag", e))]
    /\ UNCHANGED <<alive, attached, cancelled, exception, m_scope, children,
                   lock, waiting>>

(* Cancellable::cancel: the first call goes on, any other returns.         *)
SetFlag(t) ==
    LET n == Top(t).node
        e == Top(t).exc
    IN  /\ TopIs(t, "flag")
        /\ exception' = [exception EXCEPT ![n] =
                            IF @ = NoException THEN e ELSE @]
        /\ cancelled' = cancelled \cup {n}
        /\ calls' = [calls EXCEPT ![t] =
              IF n \in cancelled THEN Returned(t)
                                 ELSE [@ EXCEPT ![Depth(t)].at = "lock"]]
        /\ UNCHANGED <<alive, attached, m_scope, children, lock, waiting>>

(* A scope's lock keeps its children as they are until it is released.     *)
TakeLock(t) ==
    LET n == Top(t).node
    IN  /\ TopIs(t, "lock") /\ lock[n] = NoThread
        /\ lock' = [lock EXCEPT ![n] = t]
        /\ calls' = [calls EXCEPT ![t] =
              [@ EXCEPT ![Depth(t)].at = IF n \in Scopes THEN "children" ELSE "held",
                        ![Depth(t)].todo = IF n \in Scopes THEN children[n] ELSE {}]]
        /\ UNCHANGED <<alive, attached, cancelled, exception, m_scope, children,
                       waiting>>

CancelChild(t) ==
    /\ TopIs(t, "children")
    /\ \E n \in Top(t).todo :
          calls' = [calls EXCEPT ![t] = Push(@, Frame(n, "flag", Top(t).exc))]
    /\ UNCHANGED <<alive, attached, cancelled, exception, m_scope, children,
                   lock, waiting>>

(* Mistake: the sleepers are not notified.                                 *)
ScopeDoneSilently(t) ==
    LET s == Top(t).node
    IN  /\ TopIs(t, "children") /\ Top(t).todo = {}
        /\ children' = [children EXCEPT ![s] = {}]
        /\ lock' = [lock EXCEPT ![s] = NoThread]
        /\ calls' = [calls EXCEPT ![t] = [@ EXCEPT ![Depth(t)].at = "after"]]
        /\ UNCHANGED <<alive, attached, cancelled, exception, m_scope, waiting>>

ScopeDone(t) ==
    LET s == Top(t).node
    IN  /\ TopIs(t, "children") /\ Top(t).todo = {}
        /\ children' = [children EXCEPT ![s] = {}]
        /\ waiting' = [u \in Threads |->
                          IF waiting[u] = s THEN NoScope ELSE waiting[u]]
        /\ lock' = [lock EXCEPT ![s] = NoThread]
        /\ calls' = [calls EXCEPT ![t] = [@ EXCEPT ![Depth(t)].at = "after"]]
        /\ UNCHANGED <<alive, attached, cancelled, exception, m_scope>>

(* What an override does after CancellableScope::cancel is over.           *)
Return(t) ==
    /\ TopIs(t, "after")
    /\ calls' = [calls EXCEPT ![t] = Returned(t)]
    /\ UNCHANGED <<alive, attached, cancelled, exception, m_scope, children,
                   lock, waiting>>

-----------------------------------------------------------------------------
(* The lock of a leaf, and the sleep in a scope.                           *)

Enter(t, n) ==
    /\ Idle(t) /\ n \in Leaves \cap alive /\ lock[n] = NoThread
    /\ lock' = [lock EXCEPT ![n] = t]
    /\ calls' = [calls EXCEPT ![t] = Push(@, Frame(n, "held", NoException))]
    /\ UNCHANGED <<alive, attached, cancelled, exception, m_scope, children,
                   waiting>>

Leave(t) ==
    /\ TopIs(t, "held")
    /\ lock' = [lock EXCEPT ![Top(t).node] = NoThread]
    /\ calls' = [calls EXCEPT ![t] = Returned(t)]
    /\ UNCHANGED <<alive, attached, cancelled, exception, m_scope, children,
                   waiting>>

(* wait_until and wait_until_cancel, which look at the flag under the lock *)
(* once more before they sleep.                                            *)
WaitIn(t, s) ==
    /\ Idle(t) /\ s \in Scopes \cap alive /\ lock[s] = NoThread
    /\ s \notin cancelled
    /\ waiting' = [waiting EXCEPT ![t] = s]
    /\ UNCHANGED <<alive, attached, cancelled, exception, m_scope, children,
                   lock, calls>>

(* The time is over.                                                       *)
WaitEnds(t) ==
    /\ waiting[t] # NoScope /\ lock[waiting[t]] = NoThread
    /\ waiting' = [waiting EXCEPT ![t] = NoScope]
    /\ UNCHANGED <<alive, attached, cancelled, exception, m_scope, children,
                   lock, calls>>

-----------------------------------------------------------------------------

ScopeStep(t) ==
    \/ SetFlag(t) \/ TakeLock(t) \/ CancelChild(t) \/ ScopeDone(t)
    \/ Return(t) \/ Leave(t) \/ WaitEnds(t)
    \/ \E n \in Nodes :
          \/ \E e \in Exceptions \cup {NoException} :
                MayCancel(t, n) /\ CallCancel(t, n, e)
          \/ \E s \in Scopes : <<s, n>> \in Below /\ Attach(t, n, s)
          \/ Detach(t, n) \/ Enter(t, n) \/ WaitIn(t, n)

ScopeNext ==
    \/ \E t \in Threads : ScopeStep(t)
    \/ \E s \in Scopes : ConstructRoot(s)
    \/ \E n \in Nodes : Released(n) /\ Destroyed(n)

ScopeSpec == ScopeInit /\ [][ScopeNext]_scopeVars

-----------------------------------------------------------------------------
(* Properties.                                                             *)

ScopeTypeOK ==
    /\ alive \subseteq Nodes /\ attached \subseteq Nodes
    /\ cancelled \subseteq Nodes
    /\ exception \in [Nodes -> Exceptions \cup {NoException}]
    /\ m_scope \in [Nodes -> Scopes \cup {NoScope}]
    /\ children \in [Scopes -> SUBSET Nodes]
    /\ lock \in [Nodes -> Threads \cup {NoThread}]
    /\ calls \in [Threads -> Seq(Frames)]
    /\ waiting \in [Threads -> Scopes \cup {NoScope}]

(* Whatever a thread has locked stands above what it is about to lock, so  *)
(* that cancels, which hold a lock per level while they go down            *)
(* (CancellableScope.cpp, cancel), never wait for each other in a circle.  *)
LocksDescend ==
    \A t \in Threads : \A n \in Nodes :
        lock[n] = t /\ TopIs(t, "lock") => <<n, Top(t).node>> \in Below

(* For finitely many threads: as long as somebody is in a cancel() or has  *)
(* the lock of a leaf, one of those waits for nobody (cancel, and m_lock   *)
(* of the leaves).                                                         *)
Blocked(t) == TopIs(t, "lock") /\ lock[Top(t).node] # NoThread

SomebodyGoesOn ==
    (\E t \in Threads : calls[t] # <<>>)
       => \E t \in Threads : calls[t] # <<>> /\ ~Blocked(t)

(* Somebody is on the way to tell those who sleep in s.                    *)
Cascading(s) ==
    \E t \in Threads : \E i \in 1..Depth(t) :
        calls[t][i].node = s /\ calls[t][i].at \in {"lock", "children"}

(* Somebody is on the way to cancel n with its scope.                      *)
WillBeTold(n) ==
    \E t \in Threads : \E i \in 1..Depth(t) :
        /\ calls[t][i].node = m_scope[n]
        /\ \/ calls[t][i].at = "lock" /\ n \in children[m_scope[n]]
           \/ calls[t][i].at = "children" /\ n \in calls[t][i].todo

(* A node that attaches while its scope is being cancelled is turned away  *)
(* or is cancelled too: none that is attached to a cancelled scope is left *)
(* out (operator+= and cancel).                                            *)
NoChildMissed ==
    \A n \in attached :
        m_scope[n] \in cancelled => n \in cancelled \/ WillBeTold(n)

(* A thread does not sleep through the cancellation of the scope it sleeps *)
(* in (wait_until and cancel).                                             *)
NoSleeperMissed ==
    \A t \in Threads :
        waiting[t] \in cancelled => Cascading(waiting[t])

(* A node that has been destroyed is never cancelled, nor unlocked by a    *)
(* cancel() that is still in it (the destructors, detach and cancel).      *)
CancelsLiveOnly ==
    \A t \in Threads : \A i \in 1..Depth(t) : calls[t][i].node \in alive

TreeIsSafe ==
    LocksDescend /\ NoChildMissed /\ NoSleeperMissed /\ CancelsLiveOnly
=============================================================================
