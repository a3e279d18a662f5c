----------------------- MODULE CancellableScopeProofs -----------------------
(***************************************************************************)
(* The tree of scopes is safe for any threads, any tree and any order in   *)
(* which the threads attach, detach, sleep and cancel, as long as they do  *)
(* what ScopeSpec asks of them.                                            *)
(***************************************************************************)
EXTENDS CancellableScope, SequenceTheorems, FiniteSetTheorems, TLAPS

-----------------------------------------------------------------------------
(* The inductive invariant.                                                *)

InCascade(f) == f.at \in {"lock", "children"}
HoldsLock(f) == f.at \in {"children", "held"}

(* What is true of the i-th frame of a thread's stack by itself: a scope   *)
(* goes through children, a leaf is held, and both have their lock; what   *)
(* has passed the flag is cancelled, unless a leaf was entered directly.   *)
FrameOK(t, i) ==
    LET f == calls[t][i]
    IN  /\ f.node \in alive
        /\ f.at = "children" => f.node \in Scopes /\ f.todo \subseteq children[f.node]
        /\ f.at = "held" => f.node \in Leaves
        /\ HoldsLock(f) => lock[f.node] = t
        /\ InCascade(f) \/ f.at = "after" \/ (f.at = "held" /\ i > 1)
              => f.node \in cancelled

(* And together with the frames above it: a frame that has made a call has *)
(* its lock, and calls what stands below; a scope, a child still to do.    *)
CallOK(t, i) ==
    /\ i < Depth(t) =>
          /\ HoldsLock(calls[t][i])
          /\ calls[t][i].at = "children" => calls[t][i + 1].node \in calls[t][i].todo
    /\ \A j \in 1..Depth(t) :
          i < j => <<calls[t][i].node, calls[t][j].node>> \in Below

StacksOK == \A t \in Threads : \A i \in 1..Depth(t) : FrameOK(t, i) /\ CallOK(t, i)

(* Whoever has a lock is in a frame that has taken it.                     *)
LocksOK ==
    \A n \in Nodes : lock[n] # NoThread =>
        \E i \in 1..Depth(lock[n]) :
            calls[lock[n]][i].node = n /\ HoldsLock(calls[lock[n]][i])

(* Only the cancel() that set the flag goes on.                            *)
OneCascade ==
    \A t, u \in Threads : \A i \in 1..Depth(t), j \in 1..Depth(u) :
        /\ InCascade(calls[t][i]) /\ InCascade(calls[u][j])
        /\ calls[t][i].node = calls[u][j].node
        => t = u

(* Who is attached has a scope, and is a child of it until the scope has   *)
(* been cancelled.                                                         *)
TreeOK ==
    /\ attached \subseteq alive
    /\ \A n \in attached :
          /\ m_scope[n] \in Scopes \cap alive
          /\ m_scope[n] \notin cancelled => n \in children[m_scope[n]]
    /\ \A s \in Scopes : \A n \in children[s] :
          n \in attached /\ m_scope[n] = s /\ <<s, n>> \in Below

Inv ==
    /\ ScopeTypeOK /\ StacksOK /\ LocksOK /\ OneCascade /\ TreeOK
    /\ NoChildMissed /\ NoSleeperMissed

-----------------------------------------------------------------------------
(* What the stack of a thread is after a call, a return and a step of the  *)
(* frame on top.                                                           *)

LEMMA PushStack ==
    ASSUME NEW s \in Seq(Frames), NEW f \in Frames
    PROVE  /\ Push(s, f) \in Seq(Frames) /\ Len(Push(s, f)) = Len(s) + 1
           /\ \A i \in 1..Len(s) : Push(s, f)[i] = s[i]
           /\ Push(s, f)[Len(s) + 1] = f
  BY DEF Push

LEMMA FrameIsFrame ==
    ASSUME NEW n \in Nodes, NEW e \in Exceptions \cup {NoException},
           NEW a \in {"flag", "held"}
    PROVE  /\ Frame(n, a, e) \in Frames /\ Frame(n, a, e).node = n
           /\ Frame(n, a, e).at = a /\ Frame(n, a, e).todo = {}
  BY DEF Frame, Frames

LEMMA TopInStack ==
    ASSUME ScopeTypeOK, NEW t \in Threads, calls[t] # <<>>
    PROVE  /\ calls[t] \in Seq(Frames) /\ Depth(t) \in Nat \ {0}
           /\ Top(t) = calls[t][Depth(t)] /\ Top(t) \in Frames
           /\ Top(t).node \in Nodes /\ Top(t).todo \in SUBSET Nodes
           /\ Top(t).exc \in Exceptions \cup {NoException}
  <1>1. calls[t] \in Seq(Frames)
    BY DEF ScopeTypeOK
  <1>2. Len(calls[t]) \in Nat \ {0}
    BY <1>1
  <1>3. calls[t][Len(calls[t])] \in Frames
    BY <1>1, <1>2
  <1> QED
    BY <1>1, <1>2, <1>3 DEF Depth, Top, Frames

LEMMA PopStack ==
    ASSUME ScopeTypeOK, NEW t \in Threads, calls[t] # <<>>
    PROVE  /\ Returned(t) \in Seq(Frames) /\ Len(Returned(t)) = Depth(t) - 1
           /\ \A i \in 1..Depth(t) - 1 :
                /\ Returned(t)[i].node = calls[t][i].node
                /\ Returned(t)[i].at = calls[t][i].at
                /\ Returned(t)[i].todo \subseteq calls[t][i].todo
                /\ calls[t][i].todo \subseteq Returned(t)[i].todo \cup {Top(t).node}
                /\ i < Depth(t) - 1 => Returned(t)[i] = calls[t][i]
  <1> DEFINE s == calls[t]
             d == Depth(t)
             R(i) == IF i = d - 1 THEN [s[i] EXCEPT !.todo = @ \ {Top(t).node}]
                                  ELSE s[i]
  <1>1. s \in Seq(Frames) /\ d \in Nat \ {0} /\ d = Len(s)
    BY TopInStack DEF Depth
  <1>2. \A i \in 1..d - 1 : s[i] \in Frames
    BY <1>1
  <1>3. \A i \in 1..d - 1 :
          /\ R(i) \in Frames
          /\ R(i).node = s[i].node /\ R(i).at = s[i].at
          /\ R(i).todo \subseteq s[i].todo
          /\ s[i].todo \subseteq R(i).todo \cup {Top(t).node}
          /\ i < d - 1 => R(i) = s[i]
    BY <1>1, <1>2 DEF Frames
  <1>4. Returned(t) = [i \in 1..d - 1 |-> R(i)]
    BY DEF Returned
  <1> HIDE DEF s, d, R
  <1>5. Returned(t) \in Seq(Frames) /\ Len(Returned(t)) = d - 1
    BY <1>1, <1>3, <1>4
  <1> QED
    BY <1>1, <1>3, <1>4, <1>5 DEF s, d

-----------------------------------------------------------------------------
(* Steps that leave the stacks alone.                                      *)

(* A node that does not exist is in nobody's stack and nobody's scope.     *)
LEMMA NewNodeIsUnknown ==
    ASSUME Inv, NEW n \in Nodes, n \notin alive
    PROVE  /\ \A t \in Threads : \A i \in 1..Depth(t) : calls[t][i].node # n
           /\ n \notin attached
           /\ \A m \in attached : m_scope[m] # n
           /\ lock[n] = NoThread
           /\ \A s \in Scopes : n \notin children[s]
           /\ n \in Scopes => children[n] = {}
  <1>1. \A t \in Threads : \A i \in 1..Depth(t) : calls[t][i].node # n
    BY DEF Inv, StacksOK, FrameOK
  <1>2. n \notin attached /\ \A m \in attached : m_scope[m] # n
    BY DEF Inv, TreeOK
  <1>3. lock[n] = NoThread
    BY <1>1 DEF Inv, LocksOK, ScopeTypeOK
  <1>4. \A s \in Scopes : \A m \in children[s] : m \in attached /\ m_scope[m] = s
    BY DEF Inv, TreeOK
  <1>5. \A s \in Scopes : n \notin children[s]
    BY <1>2, <1>4
  <1>6. n \in Scopes => \A m \in children[n] : FALSE
    BY <1>2, <1>4
  <1> QED
    BY <1>1, <1>2, <1>3, <1>5, <1>6

LEMMA ConstructRootKeepsInv ==
    ASSUME Inv, NEW s \in Scopes, ConstructRoot(s)
    PROVE  Inv'
  <1> USE DEF ConstructRoot, Constructed
  <1>1. s \in Nodes /\ s \notin alive
    BY DEF Nodes
  <1>2. ScopeTypeOK'
    BY <1>1 DEF Inv, ScopeTypeOK
  <1>3. StacksOK'
    BY <1>1, NewNodeIsUnknown DEF Inv, StacksOK, FrameOK, CallOK, Depth
  <1>4. LocksOK' /\ OneCascade'
    BY DEF Inv, LocksOK, OneCascade, Depth
  <1>5. TreeOK'
    BY <1>1, <1>2, NewNodeIsUnknown DEF Inv, TreeOK, ScopeTypeOK
  <1>6. NoChildMissed'
    BY <1>1, NewNodeIsUnknown DEF Inv, NoChildMissed, WillBeTold, Depth, ScopeTypeOK
  <1>7. NoSleeperMissed'
    BY DEF Inv, NoSleeperMissed, Cascading, Depth
  <1> QED
    BY <1>2, <1>3, <1>4, <1>5, <1>6, <1>7 DEF Inv

LEMMA AttachKeepsInv ==
    ASSUME Inv, NEW t \in Threads, NEW n \in Nodes, NEW s \in Scopes,
           <<s, n>> \in Below, Attach(t, n, s)
    PROVE  Inv'
  <1> USE DEF Attach, Constructed
  <1>1. n \notin alive /\ s \in alive /\ n # s /\ s \notin cancelled /\ lock[s] = NoThread
    BY ScopeAssumption
  <1>2. ScopeTypeOK'
    BY <1>1 DEF Inv, ScopeTypeOK
  <1>3. StacksOK'
    <2> SUFFICES ASSUME NEW u \in Threads, NEW i \in 1..Depth(u)
                 PROVE  (FrameOK(u, i) /\ CallOK(u, i))'
      BY DEF StacksOK, Depth
    <2>1. FrameOK(u, i) /\ CallOK(u, i) /\ calls[u][i].node # n
      BY <1>1, NewNodeIsUnknown DEF Inv, StacksOK
    <2> QED
      BY <1>1, <2>1 DEF Inv, FrameOK, CallOK, Depth, ScopeTypeOK
  <1>4. LocksOK' /\ OneCascade'
    BY DEF Inv, LocksOK, OneCascade, Depth
  <1>5. TreeOK'
    <2>1. /\ m_scope' = [m_scope EXCEPT ![n] = s] /\ m_scope'[n] = s
          /\ children' = [children EXCEPT ![s] = @ \cup {n}]
          /\ attached' = attached \cup {n} /\ alive' = alive \cup {n}
          /\ cancelled' = cancelled \ {n}
      BY DEF Inv, ScopeTypeOK
    <2>2. \A r \in Scopes :
            children'[r] = IF r = s THEN children[s] \cup {n} ELSE children[r]
      BY <2>1 DEF Inv, ScopeTypeOK
    <2>3. \A m \in Nodes \ {n} : m_scope'[m] = m_scope[m]
      BY <2>1 DEF Inv, ScopeTypeOK
    <2>4. n \notin attached /\ attached \subseteq Nodes
      BY <1>1, NewNodeIsUnknown DEF Inv, ScopeTypeOK
    <2>5. attached' \subseteq alive'
      BY <2>1 DEF Inv, TreeOK
    <2>6. ASSUME NEW m \in attached'
          PROVE  /\ m_scope'[m] \in Scopes \cap alive'
                 /\ m_scope'[m] \notin cancelled' => m \in children'[m_scope'[m]]
      <3>1. CASE m = n
        BY <1>1, <2>1, <2>2, <3>1
      <3>2. CASE m # n
        <4>1. m \in attached /\ m_scope'[m] = m_scope[m]
          BY <2>1, <2>3, <2>4, <3>2
        <4>2. m_scope[m] \in Scopes \cap alive /\ m_scope[m] # n
          BY <1>1, <4>1 DEF Inv, TreeOK
        <4>3. m_scope[m] \notin cancelled => m \in children[m_scope[m]]
          BY <4>1 DEF Inv, TreeOK
        <4> QED
          BY <2>1, <2>2, <4>1, <4>2, <4>3
      <3> QED
        BY <3>1, <3>2
    <2>7. ASSUME NEW r \in Scopes, NEW m \in children'[r]
          PROVE  m \in attached' /\ m_scope'[m] = r /\ <<r, m>> \in Below
      <3>1. CASE m = n
        <4>1. n \notin children[r]
          BY <1>1, NewNodeIsUnknown
        <4> QED
          BY <2>1, <2>2, <3>1, <4>1
      <3>2. CASE m # n
        <4>1. m \in children[r]
          BY <2>2, <3>2
        <4>2. m \in attached /\ m_scope[m] = r /\ <<r, m>> \in Below
          BY <4>1 DEF Inv, TreeOK
        <4> QED
          BY <2>1, <2>3, <2>4, <3>2, <4>2
      <3> QED
        BY <3>1, <3>2
    <2> QED
      BY <2>5, <2>6, <2>7 DEF TreeOK
  <1>6. NoChildMissed'
    BY <1>1, NewNodeIsUnknown DEF Inv, NoChildMissed, WillBeTold, Depth, ScopeTypeOK
  <1>7. NoSleeperMissed'
    BY DEF Inv, NoSleeperMissed, Cascading, Depth
  <1> QED
    BY <1>2, <1>3, <1>4, <1>5, <1>6, <1>7 DEF Inv

LEMMA DetachKeepsInv ==
    ASSUME Inv, NEW t \in Threads, NEW n \in Nodes, Detach(t, n)
    PROVE  Inv'
  <1> USE DEF Detach
  <1>1. /\ n \in attached /\ m_scope[n] \in Scopes
        /\ lock[m_scope[n]] = NoThread
    BY DEF Inv, TreeOK
  <1>2. ScopeTypeOK'
    BY <1>1 DEF Inv, ScopeTypeOK
  <1>3. StacksOK'
    <2> SUFFICES ASSUME NEW u \in Threads, NEW i \in 1..Depth(u)
                 PROVE  (FrameOK(u, i) /\ CallOK(u, i))'
      BY DEF StacksOK, Depth
    <2>1. FrameOK(u, i) /\ CallOK(u, i)
      BY DEF Inv, StacksOK
    <2>2. calls[u][i].at = "children" => calls[u][i].node # m_scope[n]
      BY <1>1, <2>1, ScopeAssumption DEF FrameOK, HoldsLock
    <2> QED
      BY <1>1, <2>1, <2>2 DEF Inv, FrameOK, CallOK, Depth, ScopeTypeOK
  <1>4. LocksOK' /\ OneCascade'
    BY DEF Inv, LocksOK, OneCascade, Depth
  <1>5. TreeOK'
    BY <1>1, <1>2 DEF Inv, TreeOK, ScopeTypeOK
  <1>6. NoChildMissed'
    BY <1>1 DEF Inv, NoChildMissed, WillBeTold, Depth, ScopeTypeOK, TreeOK
  <1>7. NoSleeperMissed'
    BY DEF Inv, NoSleeperMissed, Cascading, Depth
  <1> QED
    BY <1>2, <1>3, <1>4, <1>5, <1>6, <1>7 DEF Inv

(* What is destroyed with nothing attached to it is in no stack: a cancel  *)
(* from the scope above reaches only what is attached.                     *)
LEMMA ReleasedIsUnknown ==
    ASSUME Inv, NEW n \in Nodes, Released(n), n \notin attached
    PROVE  \A t \in Threads : \A i \in 1..Depth(t) : calls[t][i].node # n
  <1> SUFFICES ASSUME NEW t \in Threads, NEW i \in 1..Depth(t), calls[t][i].node = n
               PROVE  FALSE
    OBVIOUS
  <1>1. i # 1 /\ calls[t][i - 1].node \notin Leaves
    BY DEF Released, Direct
  <1>2. i - 1 \in 1..Depth(t) /\ i - 1 < Depth(t) /\ Depth(t) \in Nat
    BY <1>1 DEF Inv, ScopeTypeOK, Depth
  <1>3. FrameOK(t, i - 1) /\ CallOK(t, i - 1)
    BY <1>2 DEF Inv, StacksOK
  <1>4. calls[t][i - 1].at = "children" /\ calls[t][(i - 1) + 1].node \in calls[t][i - 1].todo
    BY <1>1, <1>2, <1>3 DEF FrameOK, CallOK, HoldsLock
  <1>5. (i - 1) + 1 = i
    BY <1>2
  <1>6. n \in calls[t][i - 1].todo
    BY <1>4, <1>5
  <1> QED
    BY <1>3, <1>4, <1>6 DEF Inv, FrameOK, TreeOK

LEMMA DestroyedKeepsInv ==
    ASSUME Inv, NEW n \in Nodes, Released(n), Destroyed(n)
    PROVE  Inv'
  <1> USE DEF Destroyed
  <1>1. n \in alive \ attached /\ \A m \in attached : m_scope[m] # n
    BY DEF Released
  <1>2. \A t \in Threads : \A i \in 1..Depth(t) : calls[t][i].node # n
    BY <1>1, ReleasedIsUnknown
  <1>3. ScopeTypeOK'
    BY <1>1 DEF Inv, ScopeTypeOK
  <1>4. StacksOK'
    BY <1>2 DEF Inv, StacksOK, FrameOK, CallOK, Depth
  <1>5. LocksOK' /\ OneCascade'
    BY DEF Inv, LocksOK, OneCascade, Depth
  <1>6. TreeOK'
    BY <1>1 DEF Inv, TreeOK, ScopeTypeOK
  <1>7. NoChildMissed'
    BY <1>1 DEF Inv, NoChildMissed, WillBeTold, Depth, ScopeTypeOK
  <1>8. NoSleeperMissed'
    BY DEF Inv, NoSleeperMissed, Cascading, Depth
  <1> QED
    BY <1>3, <1>4, <1>5, <1>6, <1>7, <1>8 DEF Inv

LEMMA WaitingKeepsInv ==
    ASSUME Inv, NEW t \in Threads,
           WaitEnds(t) \/ \E s \in Nodes : WaitIn(t, s)
    PROVE  Inv'
  <1>1. /\ UNCHANGED <<alive, attached, cancelled, exception, m_scope, children,
                       lock, calls>>
        /\ \E s \in Scopes \cup {NoScope} :
              s \notin cancelled /\ waiting' = [waiting EXCEPT ![t] = s]
    BY ScopeAssumption DEF WaitEnds, WaitIn, Inv, ScopeTypeOK
  <1>2. ScopeTypeOK'
    BY <1>1 DEF Inv, ScopeTypeOK
  <1>3. StacksOK' /\ LocksOK' /\ OneCascade' /\ TreeOK'
    BY <1>1 DEF Inv, StacksOK, FrameOK, CallOK, LocksOK, OneCascade, TreeOK, Depth
  <1>4. NoChildMissed'
    BY <1>1 DEF Inv, NoChildMissed, WillBeTold, Depth
  <1>5. NoSleeperMissed'
    <2> SUFFICES ASSUME NEW u \in Threads, waiting'[u] \in cancelled'
                 PROVE  Cascading(waiting[u])'
      BY DEF NoSleeperMissed
    <2>1. waiting'[u] = waiting[u]
      BY <1>1 DEF Inv, ScopeTypeOK
    <2>2. Cascading(waiting[u])
      BY <1>1, <2>1 DEF Inv, NoSleeperMissed
    <2> QED
      BY <1>1, <2>1, <2>2 DEF Cascading, Depth
  <1> QED
    BY <1>2, <1>3, <1>4, <1>5 DEF Inv

-----------------------------------------------------------------------------
(* A call: cancel() of a node that stands below the frame on top.          *)

LEMMA PushKeepsInv ==
    ASSUME Inv, NEW t \in Threads, NEW n \in alive,
           NEW e \in Exceptions \cup {NoException},
           calls' = [calls EXCEPT ![t] = Push(@, Frame(n, "flag", e))],
           calls[t] # <<>> =>
              /\ HoldsLock(Top(t)) /\ <<Top(t).node, n>> \in Below
              /\ Top(t).at = "children" => n \in Top(t).todo,
           UNCHANGED <<alive, attached, cancelled, exception, m_scope, children,
                       lock, waiting>>
    PROVE  Inv'
  <1> DEFINE d == Depth(t)
             f == Frame(n, "flag", e)
  <1>1. n \in Nodes /\ calls \in [Threads -> Seq(Frames)]
    BY DEF Inv, ScopeTypeOK
  <1>2. f \in Frames /\ f.node = n /\ f.at = "flag"
    BY <1>1, FrameIsFrame
  <1>3. d \in Nat /\ d = Len(calls[t])
    BY <1>1 DEF Depth
  <1>4. /\ calls'[t] \in Seq(Frames) /\ Depth(t)' = d + 1
        /\ \A i \in 1..d : calls'[t][i] = calls[t][i]
        /\ calls'[t][d + 1] = f
    <2>1. calls'[t] = Push(calls[t], f) /\ calls[t] \in Seq(Frames)
      BY <1>1
    <2>2. Depth(t)' = Len(calls'[t])
      BY DEF Depth
    <2> HIDE DEF f, d
    <2>3. /\ Push(calls[t], f) \in Seq(Frames)
          /\ Len(Push(calls[t], f)) = Len(calls[t]) + 1
          /\ \A i \in 1..Len(calls[t]) : Push(calls[t], f)[i] = calls[t][i]
          /\ Push(calls[t], f)[Len(calls[t]) + 1] = f
      BY <1>2, <2>1, PushStack
    <2> QED
      BY <1>3, <2>1, <2>2, <2>3
  <1>5. \A u \in Threads \ {t} : calls'[u] = calls[u] /\ Depth(u)' = Depth(u)
    BY <1>1 DEF Depth
  <1>6. calls' \in [Threads -> Seq(Frames)]
    <2> HIDE DEF f
    <2>1. calls' = [u \in Threads |-> IF u = t THEN calls'[t] ELSE calls[u]]
      BY <1>1
    <2> QED
      BY <1>1, <1>4, <2>1
  <1>7. \A u \in Threads : \A i \in 1..Depth(u) :
          i \in 1..Depth(u)' /\ calls'[u][i] = calls[u][i]
    BY <1>3, <1>4, <1>5
  <1>8. \A u \in Threads : \A i \in 1..Depth(u)' :
          \/ i \in 1..Depth(u) /\ calls'[u][i] = calls[u][i]
          \/ u = t /\ i = d + 1 /\ calls'[u][i] = f
    BY <1>3, <1>4, <1>5
  <1> HIDE DEF d, f
  <1>9. ScopeTypeOK'
    BY <1>6 DEF Inv, ScopeTypeOK
  <1>10. StacksOK'
    <2> SUFFICES ASSUME NEW u \in Threads, NEW i \in 1..Depth(u)'
                 PROVE  (FrameOK(u, i) /\ CallOK(u, i))'
      BY DEF StacksOK
    <2>1. CASE i \in 1..Depth(u) /\ calls'[u][i] = calls[u][i]
      <3>1. FrameOK(u, i) /\ CallOK(u, i)
        BY <2>1 DEF Inv, StacksOK
      <3>2. FrameOK(u, i)'
        BY <2>1, <3>1 DEF FrameOK
      <3>3. CASE u # t
        <4>1. calls'[u] = calls[u] /\ Depth(u)' = Depth(u)
          BY <1>5, <3>3
        <4> QED
          BY <3>1, <3>2, <4>1 DEF CallOK
      <3>4. CASE u = t /\ i < d
        <4>1. i + 1 \in 1..d /\ d \in 1..d
          BY <1>3, <2>1, <3>4 DEF d
        <4>2. calls'[u][i + 1] = calls[u][i + 1]
          BY <3>4, <4>1, <1>4
        <4>3. /\ HoldsLock(calls[u][i])
              /\ calls[u][i].at = "children" => calls[u][i + 1].node \in calls[u][i].todo
              /\ \A j \in 1..d :
                   i < j => <<calls[u][i].node, calls[u][j].node>> \in Below
          BY <3>1, <3>4 DEF CallOK, d
        <4>4. <<calls[u][i].node, calls[u][d].node>> \in Below
          BY <3>4, <4>1, <4>3
        <4>5. Top(t) = calls[t][d] /\ <<Top(t).node, n>> \in Below
          BY <4>1, <1>3, TopInStack DEF Inv, d
        <4>6. /\ calls[u][i].node \in Nodes /\ calls[u][d].node \in Nodes
          <5>1. calls[t] \in Seq(Frames) /\ i \in 1..Len(calls[t]) /\ d \in 1..Len(calls[t])
            BY <1>1, <1>3, <2>1, <3>4, <4>1 DEF d
          <5>2. calls[t][i] \in Frames /\ calls[t][d] \in Frames
            BY <5>1
          <5> QED
            BY <3>4, <5>2 DEF Frames
        <4>7. <<calls[u][i].node, n>> \in Below
          BY <1>1, <3>4, <4>4, <4>5, <4>6, ScopeAssumption
        <4>8. ASSUME NEW j \in 1..d + 1, i < j
              PROVE  <<calls'[t][i].node, calls'[t][j].node>> \in Below
          <5>1. CASE j \in 1..d
            BY <1>4, <2>1, <3>4, <4>3, <4>8, <5>1
          <5>2. CASE j = d + 1
            BY <1>2, <1>4, <2>1, <3>4, <4>7, <5>2
          <5> QED
            BY <1>3, <4>8, <5>1, <5>2
        <4> QED
          BY <1>3, <1>4, <2>1, <3>2, <3>4, <4>2, <4>3, <4>8 DEF CallOK
      <3>5. CASE u = t /\ i = d
        <4>1. Top(t) = calls[t][d] /\ calls[t] # <<>>
          BY <1>3, <2>1, <3>5, TopInStack DEF Inv, d
        <4>2. /\ HoldsLock(calls'[t][d]) /\ <<calls'[t][d].node, n>> \in Below
              /\ calls'[t][d].at = "children" => n \in calls'[t][d].todo
          BY <2>1, <3>5, <4>1
        <4>3. \A j \in 1..d + 1 : d < j => j = d + 1
          BY <1>3
        <4> QED
          BY <1>2, <1>3, <1>4, <3>2, <3>5, <4>2, <4>3 DEF CallOK
      <3> QED
        BY <1>3, <2>1, <3>3, <3>4, <3>5 DEF d
    <2>2. CASE u = t /\ i = d + 1 /\ calls'[u][i] = f
      <3>1. FrameOK(u, i)'
        BY <1>2, <2>2 DEF FrameOK, HoldsLock, InCascade
      <3> QED
        BY <1>3, <1>4, <2>2, <3>1 DEF CallOK
    <2> QED
      BY <1>8, <2>1, <2>2
  <1>11. LocksOK'
    <2> SUFFICES ASSUME NEW m \in Nodes, lock[m] # NoThread
                 PROVE  \E i \in 1..Depth(lock[m])' :
                           calls'[lock[m]][i].node = m /\ HoldsLock(calls'[lock[m]][i])
      BY DEF LocksOK, HoldsLock, Depth
    <2>1. lock[m] \in Threads
      BY DEF Inv, ScopeTypeOK
    <2>2. PICK i \in 1..Depth(lock[m]) :
             calls[lock[m]][i].node = m /\ HoldsLock(calls[lock[m]][i])
      BY DEF Inv, LocksOK
    <2> QED
      BY <1>7, <2>1, <2>2
  <1>12. OneCascade'
    BY <1>2, <1>8 DEF Inv, OneCascade, InCascade
  <1>13. TreeOK'
    BY DEF Inv, TreeOK
  <1>14. NoChildMissed'
    BY <1>7 DEF Inv, NoChildMissed, WillBeTold
  <1>15. NoSleeperMissed'
    BY <1>7 DEF Inv, NoSleeperMissed, Cascading
  <1> QED
    BY <1>9, <1>10, <1>11, <1>12, <1>13, <1>14, <1>15 DEF Inv

-----------------------------------------------------------------------------
(* A return: the call on top is over, and has given its lock back.         *)

LEMMA PopKeepsInv ==
    ASSUME Inv, NEW t \in Threads, calls[t] # <<>>,
           calls' = [calls EXCEPT ![t] = Returned(t)],
           ~InCascade(Top(t)),
           Depth(t) > 1 => Top(t).node \in cancelled,
           lock' = IF HoldsLock(Top(t)) THEN [lock EXCEPT ![Top(t).node] = NoThread]
                                      ELSE lock,
           exception' \in [Nodes -> Exceptions \cup {NoException}],
           UNCHANGED <<alive, attached, cancelled, m_scope, children, waiting>>
    PROVE  Inv'
  <1> DEFINE d == Depth(t)
             n == Top(t).node
  <1>1. /\ calls \in [Threads -> Seq(Frames)] /\ d \in Nat \ {0} /\ n \in Nodes
        /\ Top(t) = calls[t][d]
    BY TopInStack DEF Inv, ScopeTypeOK
  <1>2. FrameOK(t, d) /\ \A i \in 1..d : FrameOK(t, i) /\ CallOK(t, i)
    BY <1>1 DEF Inv, StacksOK
  <1>3. /\ calls'[t] \in Seq(Frames) /\ Depth(t)' = d - 1
        /\ \A i \in 1..d - 1 :
             /\ calls'[t][i].node = calls[t][i].node
             /\ calls'[t][i].at = calls[t][i].at
             /\ calls'[t][i].todo \subseteq calls[t][i].todo
             /\ calls[t][i].todo \subseteq calls'[t][i].todo \cup {n}
             /\ i < d - 1 => calls'[t][i] = calls[t][i]
    <2>1. calls'[t] = Returned(t)
      BY <1>1
    <2> QED
      BY <2>1, PopStack DEF Inv, Depth
  <1>4. \A u \in Threads \ {t} : calls'[u] = calls[u] /\ Depth(u)' = Depth(u)
    BY <1>1 DEF Depth
  <1>5. calls' \in [Threads -> Seq(Frames)]
    <2>1. calls' = [u \in Threads |-> IF u = t THEN calls'[t] ELSE calls[u]]
      BY <1>1
    <2> QED
      BY <1>1, <1>3, <2>1
  <1>6. \A u \in Threads : \A i \in 1..Depth(u)' :
          /\ i \in 1..Depth(u)
          /\ calls'[u][i].node = calls[u][i].node
          /\ calls'[u][i].at = calls[u][i].at
          /\ calls'[u][i].todo \subseteq calls[u][i].todo
    BY <1>1, <1>3, <1>4
  <1>7. \A u \in Threads : \A i \in 1..Depth(u) :
          \/ /\ i \in 1..Depth(u)' /\ calls'[u][i].node = calls[u][i].node
             /\ calls'[u][i].at = calls[u][i].at
             /\ calls[u][i].todo \subseteq calls'[u][i].todo \cup {m \in cancelled : m = n}
          \/ u = t /\ i = d
    <2> SUFFICES ASSUME NEW i \in 1..d - 1
                 PROVE  calls[t][i].todo \subseteq calls'[t][i].todo \cup {m \in cancelled : m = n}
      BY <1>1, <1>3, <1>4
    <2>1. n \in cancelled
      BY <1>1
    <2> QED
      BY <1>3, <2>1
  <1> HIDE DEF d, n
  <1>8. ScopeTypeOK'
    BY <1>1, <1>5 DEF Inv, ScopeTypeOK, n
  <1>9. \A u \in Threads : \A i \in 1..Depth(u)' :
           HoldsLock(calls[u][i]) => lock'[calls[u][i].node] = u
    <2> SUFFICES ASSUME NEW u \in Threads, NEW i \in 1..Depth(u)', HoldsLock(calls[u][i])
                 PROVE  lock'[calls[u][i].node] = u
      OBVIOUS
    <2>1. i \in 1..Depth(u) /\ FrameOK(u, i)
      BY <1>6 DEF Inv, StacksOK
    <2>2. lock[calls[u][i].node] = u /\ calls[u][i].node \in Nodes
      BY <2>1 DEF FrameOK, Inv, ScopeTypeOK
    <2>3. CASE ~HoldsLock(Top(t))
      BY <2>2, <2>3
    <2>4. CASE HoldsLock(Top(t))
      <3>1. lock[n] = t
        BY <1>1, <1>2, <2>4 DEF FrameOK, n
      <3>2. CASE u # t
        BY <2>2, <2>4, <3>1, <3>2 DEF Inv, ScopeTypeOK, n
      <3>3. CASE u = t
        <4>1. i < d /\ d \in 1..Depth(t) /\ i \in 1..d
          BY <1>1, <1>3, <3>3 DEF d
        <4>2. <<calls[t][i].node, calls[t][d].node>> \in Below
          BY <1>2, <4>1 DEF CallOK
        <4>3. calls[t][i].node # n
          BY <1>1, <4>2, ScopeAssumption DEF n
        <4> QED
          BY <2>2, <2>4, <3>3, <4>3 DEF Inv, ScopeTypeOK, n
      <3> QED
        BY <3>2, <3>3
    <2> QED
      BY <2>3, <2>4
  <1>10. StacksOK'
    <2> SUFFICES ASSUME NEW u \in Threads, NEW i \in 1..Depth(u)'
                 PROVE  (FrameOK(u, i) /\ CallOK(u, i))'
      BY DEF StacksOK
    <2>1. i \in 1..Depth(u) /\ FrameOK(u, i) /\ CallOK(u, i)
      BY <1>6 DEF Inv, StacksOK
    <2>2. FrameOK(u, i)'
      BY <1>6, <1>9, <2>1 DEF FrameOK, HoldsLock, InCascade
    <2>3. CASE u # t
      <3>1. calls'[u] = calls[u] /\ Depth(u)' = Depth(u)
        BY <1>4, <2>3
      <3> QED
        BY <2>1, <2>2, <3>1 DEF CallOK
    <2>4. CASE u = t
      <3>1. \A j \in 1..Depth(t)' : i < j => <<calls'[t][i].node, calls'[t][j].node>> \in Below
        BY <1>6, <2>1, <2>4 DEF CallOK
      <3>2. CASE i < Depth(t)'
        <4>1. i < d - 1 /\ i \in 1..d - 1 /\ i + 1 \in 1..d - 1 /\ i < Depth(t)
          BY <1>1, <1>3, <2>4, <3>2 DEF d
        <4>2. calls'[t][i] = calls[t][i] /\ calls'[t][i + 1].node = calls[t][i + 1].node
          BY <1>3, <4>1
        <4> QED
          BY <2>1, <2>2, <2>4, <3>1, <4>1, <4>2 DEF CallOK
      <3> QED
        BY <2>2, <2>4, <3>1, <3>2 DEF CallOK
    <2> QED
      BY <2>3, <2>4
  <1>11. LocksOK'
    <2> SUFFICES ASSUME NEW m \in Nodes, lock'[m] # NoThread
                 PROVE  \E i \in 1..Len(calls'[lock'[m]]) :
                           calls'[lock'[m]][i].node = m /\ HoldsLock(calls'[lock'[m]][i])
      BY DEF LocksOK, HoldsLock, Depth
    <2>1. /\ lock'[m] = lock[m] /\ lock[m] \in Threads
          /\ HoldsLock(Top(t)) => m # n
      BY <1>1 DEF Inv, ScopeTypeOK, n
    <2>2. PICK i \in 1..Depth(lock[m]) :
             calls[lock[m]][i].node = m /\ HoldsLock(calls[lock[m]][i])
      BY <2>1 DEF Inv, LocksOK
    <2>3. ~ (lock[m] = t /\ i = d)
      BY <1>1, <2>1, <2>2 DEF n
    <2> QED
      BY <1>7, <2>1, <2>2, <2>3 DEF HoldsLock, Depth
  <1>12. OneCascade'
    BY <1>6 DEF Inv, OneCascade, InCascade
  <1>13. TreeOK'
    BY DEF Inv, TreeOK
  <1>14. NoChildMissed'
    <2> SUFFICES ASSUME NEW m \in attached, m_scope[m] \in cancelled, m \notin cancelled
                 PROVE  WillBeTold(m)'
      BY DEF NoChildMissed
    <2>1. PICK u \in Threads : \E i \in 1..Depth(u) :
            /\ calls[u][i].node = m_scope[m]
            /\ \/ calls[u][i].at = "lock" /\ m \in children[m_scope[m]]
               \/ calls[u][i].at = "children" /\ m \in calls[u][i].todo
      BY DEF Inv, NoChildMissed, WillBeTold
    <2>2. PICK i \in 1..Depth(u) :
            /\ calls[u][i].node = m_scope[m]
            /\ \/ calls[u][i].at = "lock" /\ m \in children[m_scope[m]]
               \/ calls[u][i].at = "children" /\ m \in calls[u][i].todo
      BY <2>1
    <2>3. ~ (u = t /\ i = d)
      BY <1>1, <2>2 DEF InCascade
    <2> QED
      BY <1>7, <2>2, <2>3 DEF WillBeTold
  <1>15. NoSleeperMissed'
    <2> SUFFICES ASSUME NEW u \in Threads, waiting[u] \in cancelled
                 PROVE  Cascading(waiting[u])'
      BY DEF NoSleeperMissed
    <2>1. PICK v \in Threads : \E i \in 1..Depth(v) :
            calls[v][i].node = waiting[u] /\ calls[v][i].at \in {"lock", "children"}
      BY DEF Inv, NoSleeperMissed, Cascading
    <2>2. PICK i \in 1..Depth(v) :
            calls[v][i].node = waiting[u] /\ calls[v][i].at \in {"lock", "children"}
      BY <2>1
    <2>3. ~ (v = t /\ i = d)
      BY <1>1, <2>2 DEF InCascade
    <2> QED
      BY <1>7, <2>2, <2>3 DEF Cascading
  <1> QED
    BY <1>8, <1>10, <1>11, <1>12, <1>13, <1>14, <1>15 DEF Inv

-----------------------------------------------------------------------------
(* A step of the frame on top: its node and the other frames stay.         *)

TopBecomes(t, f) ==
    /\ calls[t] # <<>> /\ f \in Frames /\ f.node = Top(t).node
    /\ calls' = [calls EXCEPT ![t] = [calls[t] EXCEPT ![Depth(t)] = f]]

LEMMA TopMoves ==
    ASSUME Inv, NEW t \in Threads, NEW f, TopBecomes(t, f)
    PROVE  /\ calls' \in [Threads -> Seq(Frames)]
           /\ \A u \in Threads :
                /\ Depth(u)' = Depth(u)
                /\ \A i \in 1..Depth(u) :
                     /\ calls'[u][i].node = calls[u][i].node
                     /\ u # t \/ i # Depth(t) => calls'[u][i] = calls[u][i]
           /\ Depth(t) \in 1..Depth(t) /\ calls'[t][Depth(t)] = f
  <1> USE DEF TopBecomes
  <1>1. /\ calls \in [Threads -> Seq(Frames)] /\ Depth(t) \in Nat \ {0}
        /\ Depth(t) = Len(calls[t])
        /\ Top(t) = calls[t][Depth(t)] /\ Top(t) \in Frames
    BY TopInStack DEF Inv, ScopeTypeOK, Depth
  <1>2. /\ calls'[t] \in Seq(Frames) /\ Len(calls'[t]) = Depth(t)
        /\ \A i \in 1..Depth(t) : i # Depth(t) => calls'[t][i] = calls[t][i]
        /\ calls'[t][Depth(t)] = f
    <2> DEFINE s == calls[t]
               d == Depth(t)
    <2>1. s \in Seq(Frames) /\ d \in 1..Len(s) /\ d = Len(s)
      BY <1>1
    <2>2. calls'[t] = [s EXCEPT ![d] = f]
      BY <1>1
    <2> HIDE DEF s, d
    <2>3. /\ [s EXCEPT ![d] = f] \in Seq(Frames) /\ Len([s EXCEPT ![d] = f]) = d
          /\ \A i \in 1..d : [s EXCEPT ![d] = f][i] = IF i = d THEN f ELSE s[i]
      BY <2>1, ExceptSeq
    <2> QED
      BY <2>1, <2>2, <2>3 DEF s, d
  <1>3. \A u \in Threads \ {t} : calls'[u] = calls[u]
    BY <1>1
  <1>4. calls' \in [Threads -> Seq(Frames)]
    <2>1. calls' = [u \in Threads |-> IF u = t THEN calls'[t] ELSE calls[u]]
      BY <1>1
    <2> QED
      BY <1>1, <1>2, <2>1
  <1>5. \A u \in Threads : Depth(u)' = Depth(u)
    BY <1>1, <1>2, <1>3 DEF Depth
  <1>6. \A u \in Threads : \A i \in 1..Depth(u) :
           u # t \/ i # Depth(t) => calls'[u][i] = calls[u][i]
    BY <1>2, <1>3
  <1> QED
    BY <1>1, <1>2, <1>4, <1>5, <1>6

(* The stacks stay in order, when the frame on top does.                   *)
LEMMA TopKeepsStacks ==
    ASSUME Inv, NEW t \in Threads,
           \A u \in Threads :
                /\ Depth(u)' = Depth(u)
                /\ \A i \in 1..Depth(u) :
                     /\ calls'[u][i].node = calls[u][i].node
                     /\ u # t \/ i # Depth(t) => calls'[u][i] = calls[u][i],
           Depth(t) \in 1..Depth(t),
           FrameOK(t, Depth(t))',
           alive' = alive, cancelled \subseteq cancelled',
           \A u \in Threads : \A i \in 1..Depth(u) :
              u # t \/ i # Depth(t) =>
                 /\ HoldsLock(calls[u][i]) => lock'[calls[u][i].node] = u
                 /\ calls[u][i].at = "children" =>
                       children'[calls[u][i].node] = children[calls[u][i].node]
    PROVE  StacksOK'
  <1> SUFFICES ASSUME NEW u \in Threads, NEW i \in 1..Depth(u)
               PROVE  (FrameOK(u, i) /\ CallOK(u, i))'
    BY DEF StacksOK
  <1>1. FrameOK(u, i) /\ CallOK(u, i)
    BY DEF Inv, StacksOK
  <1>2. Depth(u) \in Nat
    BY DEF Depth, Inv, ScopeTypeOK
  <1>3. \A j \in 1..Depth(u)' : i < j => <<calls'[u][i].node, calls'[u][j].node>> \in Below
    BY <1>1 DEF CallOK
  <1>4. CASE u # t \/ i # Depth(t)
    <2>1. FrameOK(u, i)'
      BY <1>1, <1>4 DEF FrameOK
    <2>2. i < Depth(u) => i + 1 \in 1..Depth(u)
      BY <1>2
    <2> QED
      BY <1>1, <1>3, <1>4, <2>1, <2>2 DEF CallOK
  <1>5. CASE u = t /\ i = Depth(t)
    BY <1>2, <1>3, <1>5 DEF CallOK
  <1> QED
    BY <1>2, <1>4, <1>5

(* Cancellable::cancel, of whoever is first ...                            *)
LEMMA FirstCancelKeepsInv ==
    ASSUME Inv, NEW t \in Threads, SetFlag(t), Top(t).node \notin cancelled
    PROVE  Inv'
  <1>1. /\ calls[t] # <<>> /\ Top(t) = calls[t][Depth(t)] /\ Top(t) \in Frames
         /\ Depth(t) \in Nat /\ calls \in [Threads -> Seq(Frames)]
         /\ Top(t).node \in Nodes /\ Top(t).exc \in Exceptions \cup {NoException}
         /\ Top(t).at = "flag"
    BY TopInStack DEF SetFlag, TopIs, Inv, ScopeTypeOK
  <1>2. [Top(t) EXCEPT !.at = "lock"] \in Frames
    BY <1>1 DEF Frames
  <1>3. PICK n \in Nodes, d \in Nat, f \in Frames :
          /\ n = Top(t).node /\ d = Depth(t)
          /\ f = [Top(t) EXCEPT !.at = "lock"]
    BY <1>1, <1>2
  <1>4. /\ calls[t] # <<>> /\ calls[t][d].at = "flag" /\ calls[t][d].node = n
         /\ n \notin cancelled /\ f.at = "lock" /\ f.node = n
    BY <1>3, <1>1 DEF Frames
  <1>5. /\ calls' = [calls EXCEPT ![t] = [calls[t] EXCEPT ![Depth(t)] = f]]
        /\ cancelled' = cancelled \cup {n}
        /\ UNCHANGED <<alive, attached, m_scope, children, lock, waiting>>
        /\ exception' = [exception EXCEPT ![n] =
                            IF @ = NoException THEN Top(t).exc ELSE @]
    BY <1>3, <1>1 DEF SetFlag
  <1>6. TopBecomes(t, f)
    BY <1>3, <1>5, <1>4 DEF TopBecomes
  <1>7. /\ calls' \in [Threads -> Seq(Frames)]
        /\ \A u \in Threads :
             /\ Depth(u)' = Depth(u)
             /\ \A i \in 1..Depth(u) :
                  /\ calls'[u][i].node = calls[u][i].node
                  /\ u # t \/ i # d => calls'[u][i] = calls[u][i]
        /\ d \in 1..Depth(t) /\ calls'[t][d] = f
    BY <1>3, <1>6, TopMoves
  <1>8. \A u \in Threads : \A i \in 1..Depth(u) :
           FrameOK(u, i) /\ CallOK(u, i) /\ (u # t \/ i # d => calls'[u][i] = calls[u][i])
    BY <1>7 DEF Inv, StacksOK
  <1>9. n \in alive
    BY <1>7, <1>8, <1>4 DEF FrameOK
  <1>10. ScopeTypeOK'
    BY <1>3, <1>5, <1>7, <1>1 DEF Inv, ScopeTypeOK
  <1>11. StacksOK'
    <2>1. /\ calls'[t][d].at = "lock" /\ calls'[t][d].node = n
          /\ n \in alive' /\ n \in cancelled'
      BY <1>5, <1>7, <1>9, <1>4
    <2>3. FrameOK(t, Depth(t))'
      BY <1>3, <1>7, <2>1 DEF FrameOK, HoldsLock, InCascade
    <2>2. \A u \in Threads : \A i \in 1..Depth(u) :
             HoldsLock(calls[u][i]) => lock'[calls[u][i].node] = u
      BY <1>5, <1>8 DEF FrameOK
    <2> QED
      BY <1>5, <1>7, <2>2, <2>3, <1>3, TopKeepsStacks
  <1>12. LocksOK'
    <2> SUFFICES ASSUME NEW m \in Nodes, lock[m] # NoThread
                 PROVE  \E i \in 1..Depth(lock[m])' :
                           calls'[lock[m]][i].node = m /\ HoldsLock(calls'[lock[m]][i])
      BY <1>5 DEF LocksOK, HoldsLock, Depth
    <2>1. lock[m] \in Threads
      BY DEF Inv, ScopeTypeOK
    <2>2. PICK i \in 1..Depth(lock[m]) :
             calls[lock[m]][i].node = m /\ HoldsLock(calls[lock[m]][i])
      BY DEF Inv, LocksOK
    <2>3. lock[m] # t \/ i # d
      BY <1>4, <2>2 DEF HoldsLock
    <2>4. i \in 1..Depth(lock[m])' /\ calls'[lock[m]][i] = calls[lock[m]][i]
      BY <1>5, <1>7, <1>8, <2>1, <2>3 DEF Depth
    <2> QED
      BY <2>2, <2>4 DEF HoldsLock
  <1>13. OneCascade'
    <2>1. \A u \in Threads : \A i \in 1..Depth(u) :
             InCascade(calls[u][i]) => calls[u][i].node # n
      BY <1>8, <1>4 DEF FrameOK
    <2>2. \A u \in Threads : \A i \in 1..Depth(u) :
             u # t \/ i # d => calls'[u][i] = calls[u][i]
      BY <1>8
    <2> QED
      BY <1>7, <1>4, <2>1, <2>2 DEF Inv, OneCascade
  <1>14. TreeOK'
    BY <1>5 DEF Inv, TreeOK
  <1>15. NoChildMissed'
    <2> SUFFICES ASSUME NEW m \in attached, m_scope[m] \in cancelled', m \notin cancelled'
                 PROVE  WillBeTold(m)'
      BY <1>5 DEF NoChildMissed
    <2>1. CASE m_scope[m] \in cancelled
      <3>1. WillBeTold(m)
        BY <1>5, <2>1 DEF Inv, NoChildMissed
      <3>2. PICK u \in Threads : \E i \in 1..Depth(u) :
              /\ calls[u][i].node = m_scope[m]
              /\ \/ calls[u][i].at = "lock" /\ m \in children[m_scope[m]]
                 \/ calls[u][i].at = "children" /\ m \in calls[u][i].todo
        BY <3>1 DEF WillBeTold
      <3>3. PICK i \in 1..Depth(u) :
              /\ calls[u][i].node = m_scope[m]
              /\ \/ calls[u][i].at = "lock" /\ m \in children[m_scope[m]]
                 \/ calls[u][i].at = "children" /\ m \in calls[u][i].todo
        BY <3>2
      <3>4. u # t \/ i # d
        BY <1>4, <3>3
      <3> QED
        BY <1>5, <1>7, <1>8, <3>3, <3>4 DEF WillBeTold
    <2>2. CASE m_scope[m] = n /\ n \notin cancelled
      <3>1. m \in children[n]
        BY <2>2 DEF Inv, TreeOK
      <3> QED
        BY <1>5, <1>7, <1>4, <2>2, <3>1 DEF WillBeTold
    <2> QED
      BY <1>5, <2>1, <2>2
  <1>16. NoSleeperMissed'
    <2> SUFFICES ASSUME NEW u \in Threads, waiting[u] \in cancelled'
                 PROVE  Cascading(waiting[u])'
      BY <1>5 DEF NoSleeperMissed
    <2>1. CASE waiting[u] \in cancelled
      <3>1. PICK v \in Threads : \E i \in 1..Depth(v) :
              calls[v][i].node = waiting[u] /\ calls[v][i].at \in {"lock", "children"}
        BY <2>1 DEF Inv, NoSleeperMissed, Cascading
      <3>2. PICK i \in 1..Depth(v) :
              calls[v][i].node = waiting[u] /\ calls[v][i].at \in {"lock", "children"}
        BY <3>1
      <3>3. v # t \/ i # d
        BY <1>4, <3>2
      <3> QED
        BY <1>5, <1>7, <1>8, <3>2, <3>3 DEF Cascading
    <2>2. CASE waiting[u] = n
      BY <1>5, <1>7, <1>4, <2>2 DEF Cascading
    <2> QED
      BY <1>5, <2>1, <2>2
  <1> QED
    BY <1>10, <1>11, <1>12, <1>13, <1>14, <1>15, <1>16 DEF Inv

(* ... and its way down: it takes the lock of its node, ...                *)
LEMMA TakeLockKeepsInv ==
    ASSUME Inv, NEW t \in Threads, TakeLock(t)
    PROVE  Inv'
  <1>1. /\ calls[t] # <<>> /\ Top(t) = calls[t][Depth(t)] /\ Top(t) \in Frames
        /\ Depth(t) \in Nat \ {0} /\ calls \in [Threads -> Seq(Frames)]
        /\ Top(t).node \in Nodes /\ Top(t).at = "lock"
    BY TopInStack DEF TakeLock, TopIs, Inv, ScopeTypeOK
  <1> DEFINE a == IF Top(t).node \in Scopes THEN "children" ELSE "held"
             todo == IF Top(t).node \in Scopes THEN children[Top(t).node] ELSE {}
  <1>2. todo \in SUBSET Nodes
    BY DEF Inv, ScopeTypeOK
  <1>3. [Top(t) EXCEPT !.at = a, !.todo = todo] \in Frames
    BY <1>1, <1>2 DEF Frames
  <1>4. PICK n \in Nodes, d \in Nat \ {0}, f \in Frames :
          /\ n = Top(t).node /\ d = Depth(t)
          /\ f = [Top(t) EXCEPT !.at = a, !.todo = todo]
    BY <1>1, <1>3
  <1>5. /\ calls[t] # <<>> /\ calls[t][d].at = "lock" /\ calls[t][d].node = n
        /\ f.node = n /\ f.at = (IF n \in Scopes THEN "children" ELSE "held")
        /\ f.todo = (IF n \in Scopes THEN children[n] ELSE {})
    BY <1>1, <1>4 DEF Frames
  <1>6. /\ calls' = [calls EXCEPT ![t] = [calls[t] EXCEPT ![Depth(t)] = f]]
        /\ lock' = [lock EXCEPT ![n] = t] /\ lock[n] = NoThread
        /\ UNCHANGED <<alive, attached, cancelled, exception, m_scope, children,
                       waiting>>
    <2>1. [[calls[t] EXCEPT ![Depth(t)].at = a] EXCEPT ![Depth(t)].todo = todo]
             = [calls[t] EXCEPT ![Depth(t)] = [Top(t) EXCEPT !.at = a, !.todo = todo]]
      BY <1>1 DEF Frames
    <2> QED
      BY <1>1, <1>4, <2>1 DEF TakeLock
  <1> HIDE DEF a, todo
  <1>7. TopBecomes(t, f)
    BY <1>4, <1>5, <1>6 DEF TopBecomes
  <1>8. /\ calls' \in [Threads -> Seq(Frames)]
        /\ \A u \in Threads :
             /\ Depth(u)' = Depth(u)
             /\ \A i \in 1..Depth(u) :
                  /\ calls'[u][i].node = calls[u][i].node
                  /\ u # t \/ i # d => calls'[u][i] = calls[u][i]
        /\ d \in 1..Depth(t) /\ calls'[t][d] = f
    BY <1>4, <1>7, TopMoves
  <1>9. \A u \in Threads : \A i \in 1..Depth(u) : FrameOK(u, i) /\ CallOK(u, i)
    BY DEF Inv, StacksOK
  <1>10. n \in alive /\ n \in cancelled /\ FrameOK(t, d)
    BY <1>5, <1>8, <1>9 DEF FrameOK, InCascade
  <1>11. \A u \in Threads : lock[n] # u
    BY <1>6, ScopeAssumption
  <1>12. \A m \in Nodes : lock'[m] = IF m = n THEN t ELSE lock[m]
    BY <1>6 DEF Inv, ScopeTypeOK
  <1>13. ScopeTypeOK'
    BY <1>6, <1>8 DEF Inv, ScopeTypeOK
  <1>14. StacksOK'
    <2>1. /\ calls'[t][d] = f /\ n \in alive' /\ n \in cancelled'
          /\ lock'[n] = t /\ n \in Nodes /\ children' = children
      BY <1>6, <1>8, <1>10, <1>12
    <2>2. FrameOK(t, Depth(t))'
      <3>1. Depth(t)' = d
        BY <1>4, <1>8
      <3>2. CASE n \in Scopes
        BY <1>5, <2>1, <3>1, <3>2 DEF FrameOK, HoldsLock, InCascade
      <3>3. CASE n \in Leaves /\ n \notin Scopes
        BY <1>5, <2>1, <3>1, <3>3 DEF FrameOK, HoldsLock, InCascade
      <3> QED
        BY <3>2, <3>3 DEF Nodes
    <2>3. \A u \in Threads : \A i \in 1..Depth(u) :
             HoldsLock(calls[u][i]) => lock'[calls[u][i].node] = u
      BY <1>9, <1>11, <1>12 DEF FrameOK, Inv, ScopeTypeOK
    <2> QED
      BY <1>4, <1>6, <1>8, <2>2, <2>3, TopKeepsStacks
  <1>15. LocksOK'
    <2> SUFFICES ASSUME NEW m \in Nodes, lock'[m] # NoThread
                 PROVE  \E i \in 1..Len(calls'[lock'[m]]) :
                           calls'[lock'[m]][i].node = m /\ HoldsLock(calls'[lock'[m]][i])
      BY DEF LocksOK, HoldsLock, Depth
    <2>1. CASE m = n
      <3>1. lock'[m] = t /\ d \in 1..Len(calls'[t])
        BY <1>8, <1>12, <2>1 DEF Depth
      <3>2. calls'[t][d].node = m /\ HoldsLock(calls'[t][d])
        BY <1>5, <1>8, <2>1 DEF HoldsLock
      <3> QED
        BY <3>1, <3>2
    <2>2. CASE m # n
      <3>1. lock'[m] = lock[m] /\ lock[m] \in Threads
        BY <1>12, <2>2 DEF Inv, ScopeTypeOK
      <3>2. PICK i \in 1..Depth(lock[m]) :
               calls[lock[m]][i].node = m /\ HoldsLock(calls[lock[m]][i])
        BY <3>1 DEF Inv, LocksOK
      <3>3. lock[m] # t \/ i # d
        BY <1>5, <3>2 DEF HoldsLock
      <3>4. i \in 1..Len(calls'[lock[m]]) /\ calls'[lock[m]][i] = calls[lock[m]][i]
        BY <1>8, <3>1, <3>3 DEF Depth
      <3> QED
        BY <3>1, <3>2, <3>4 DEF HoldsLock
    <2> QED
      BY <2>1, <2>2
  <1>16. OneCascade'
    <2>1. \A u \in Threads : \A i \in 1..Depth(u) :
             InCascade(calls'[u][i]) => InCascade(calls[u][i])
      BY <1>5, <1>8 DEF InCascade
    <2> QED
      BY <1>8, <2>1 DEF Inv, OneCascade
  <1>17. TreeOK'
    BY <1>6 DEF Inv, TreeOK
  <1>18. NoChildMissed'
    <2> SUFFICES ASSUME NEW m \in attached, m_scope[m] \in cancelled, m \notin cancelled
                 PROVE  WillBeTold(m)'
      BY <1>6 DEF NoChildMissed
    <2>1. m_scope[m] \in Scopes
      BY DEF Inv, TreeOK
    <2>2. PICK u \in Threads : \E i \in 1..Depth(u) :
            /\ calls[u][i].node = m_scope[m]
            /\ \/ calls[u][i].at = "lock" /\ m \in children[m_scope[m]]
               \/ calls[u][i].at = "children" /\ m \in calls[u][i].todo
      BY DEF Inv, NoChildMissed, WillBeTold
    <2>3. PICK i \in 1..Depth(u) :
            /\ calls[u][i].node = m_scope[m]
            /\ \/ calls[u][i].at = "lock" /\ m \in children[m_scope[m]]
               \/ calls[u][i].at = "children" /\ m \in calls[u][i].todo
      BY <2>2
    <2>4. CASE u # t \/ i # d
      BY <1>6, <1>8, <2>3, <2>4 DEF WillBeTold
    <2>5. CASE u = t /\ i = d
      <3>1. n = m_scope[m] /\ m \in children[n]
        BY <1>5, <2>3, <2>5
      <3>2. calls'[t][d].at = "children" /\ m \in calls'[t][d].todo /\ calls'[t][d].node = n
        BY <1>5, <1>8, <2>1, <3>1
      <3> QED
        BY <1>6, <1>8, <3>1, <3>2 DEF WillBeTold
    <2> QED
      BY <2>4, <2>5
  <1>19. NoSleeperMissed'
    <2> SUFFICES ASSUME NEW u \in Threads, waiting[u] \in cancelled
                 PROVE  Cascading(waiting[u])'
      BY <1>6 DEF NoSleeperMissed
    <2>1. waiting[u] \in Scopes
      BY ScopeAssumption DEF Inv, ScopeTypeOK
    <2>2. PICK v \in Threads : \E i \in 1..Depth(v) :
            calls[v][i].node = waiting[u] /\ calls[v][i].at \in {"lock", "children"}
      BY DEF Inv, NoSleeperMissed, Cascading
    <2>3. PICK i \in 1..Depth(v) :
            calls[v][i].node = waiting[u] /\ calls[v][i].at \in {"lock", "children"}
      BY <2>2
    <2>4. CASE v # t \/ i # d
      BY <1>6, <1>8, <2>3, <2>4 DEF Cascading
    <2>5. CASE v = t /\ i = d
      BY <1>5, <1>6, <1>8, <2>1, <2>3, <2>5 DEF Cascading
    <2> QED
      BY <2>4, <2>5
  <1> QED
    BY <1>13, <1>14, <1>15, <1>16, <1>17, <1>18, <1>19 DEF Inv

(* ... and gives it back when the children have been told.                 *)
LEMMA ScopeDoneKeepsInv ==
    ASSUME Inv, NEW t \in Threads, ScopeDone(t)
    PROVE  Inv'
  <1>1. /\ calls[t] # <<>> /\ Top(t) = calls[t][Depth(t)] /\ Top(t) \in Frames
        /\ Depth(t) \in Nat \ {0} /\ calls \in [Threads -> Seq(Frames)]
        /\ Top(t).node \in Nodes /\ Top(t).at = "children" /\ Top(t).todo = {}
    BY TopInStack DEF ScopeDone, TopIs, Inv, ScopeTypeOK
  <1>2. [Top(t) EXCEPT !.at = "after"] \in Frames
    BY <1>1 DEF Frames
  <1>3. PICK n \in Nodes, d \in Nat \ {0}, f \in Frames :
          /\ n = Top(t).node /\ d = Depth(t)
          /\ f = [Top(t) EXCEPT !.at = "after"]
    BY <1>1, <1>2
  <1>4. /\ calls[t] # <<>> /\ calls[t][d].at = "children" /\ calls[t][d].node = n
        /\ calls[t][d].todo = {} /\ f.node = n /\ f.at = "after"
    BY <1>1, <1>3 DEF Frames
  <1>5. /\ calls' = [calls EXCEPT ![t] = [calls[t] EXCEPT ![Depth(t)] = f]]
        /\ children' = [children EXCEPT ![n] = {}]
        /\ waiting' = [u \in Threads |->
                          IF waiting[u] = n THEN NoScope ELSE waiting[u]]
        /\ lock' = [lock EXCEPT ![n] = NoThread]
        /\ UNCHANGED <<alive, attached, cancelled, exception, m_scope>>
    BY <1>1, <1>3 DEF ScopeDone
  <1>6. TopBecomes(t, f)
    BY <1>3, <1>4, <1>5 DEF TopBecomes
  <1>7. /\ calls' \in [Threads -> Seq(Frames)]
        /\ \A u \in Threads :
             /\ Depth(u)' = Depth(u)
             /\ \A i \in 1..Depth(u) :
                  /\ calls'[u][i].node = calls[u][i].node
                  /\ u # t \/ i # d => calls'[u][i] = calls[u][i]
        /\ d \in 1..Depth(t) /\ calls'[t][d] = f
    BY <1>3, <1>6, TopMoves
  <1>8. \A u \in Threads : \A i \in 1..Depth(u) : FrameOK(u, i) /\ CallOK(u, i)
    BY DEF Inv, StacksOK
  <1>9. /\ n \in alive /\ n \in cancelled /\ n \in Scopes /\ lock[n] = t
    BY <1>4, <1>7, <1>8 DEF FrameOK, InCascade, HoldsLock
  <1>10. \A i \in 1..Depth(t) : i # d => calls[t][i].node # n
    <2> SUFFICES ASSUME NEW i \in 1..Depth(t), i # d
                 PROVE  calls[t][i].node # n
      OBVIOUS
    <2>1. i < d /\ d \in 1..Depth(t)
      BY <1>3, <1>7
    <2>2. <<calls[t][i].node, n>> \in Below
      BY <1>4, <1>8, <2>1 DEF CallOK
    <2> QED
      BY <2>2, ScopeAssumption
  <1>11. /\ \A m \in Nodes : lock'[m] = IF m = n THEN NoThread ELSE lock[m]
         /\ \A s \in Scopes : children'[s] = IF s = n THEN {} ELSE children[s]
    BY <1>5, <1>9 DEF Inv, ScopeTypeOK
  <1>12. ScopeTypeOK'
    BY <1>5, <1>7, <1>9 DEF Inv, ScopeTypeOK
  <1>13. StacksOK'
    <2>1. calls'[t][d] = f /\ n \in alive' /\ n \in cancelled'
      BY <1>5, <1>7, <1>9
    <2>2. FrameOK(t, Depth(t))'
      BY <1>3, <1>4, <1>7, <2>1 DEF FrameOK, HoldsLock, InCascade
    <2>3. \A u \in Threads : \A i \in 1..Depth(u) :
             u # t \/ i # Depth(t) =>
                /\ HoldsLock(calls[u][i]) => lock'[calls[u][i].node] = u
                /\ calls[u][i].at = "children" =>
                      children'[calls[u][i].node] = children[calls[u][i].node]
      <3> SUFFICES ASSUME NEW u \in Threads, NEW i \in 1..Depth(u), u # t \/ i # d,
                          HoldsLock(calls[u][i])
                   PROVE  /\ lock'[calls[u][i].node] = u
                          /\ calls[u][i].at = "children" =>
                                children'[calls[u][i].node] = children[calls[u][i].node]
        BY <1>3 DEF HoldsLock
      <3>1. /\ lock[calls[u][i].node] = u /\ calls[u][i].node \in Nodes
            /\ calls[u][i].at = "children" => calls[u][i].node \in Scopes
        BY <1>8 DEF FrameOK, Inv, ScopeTypeOK
      <3>2. calls[u][i].node # n
        BY <1>9, <1>10, <3>1
      <3> QED
        BY <1>11, <3>1, <3>2
    <2>4. /\ \A u \in Threads :
                /\ Depth(u)' = Depth(u)
                /\ \A i \in 1..Depth(u) :
                     /\ calls'[u][i].node = calls[u][i].node
                     /\ u # t \/ i # Depth(t) => calls'[u][i] = calls[u][i]
          /\ Depth(t) \in 1..Depth(t)
          /\ alive' = alive /\ cancelled \subseteq cancelled'
      BY <1>3, <1>5, <1>7
    <2> QED
      BY <2>2, <2>3, <2>4, TopKeepsStacks
  <1>14. LocksOK'
    <2> SUFFICES ASSUME NEW m \in Nodes, lock'[m] # NoThread
                 PROVE  \E i \in 1..Len(calls'[lock'[m]]) :
                           calls'[lock'[m]][i].node = m /\ HoldsLock(calls'[lock'[m]][i])
      BY DEF LocksOK, HoldsLock, Depth
    <2>1. m # n /\ lock'[m] = lock[m] /\ lock[m] \in Threads
      BY <1>11 DEF Inv, ScopeTypeOK
    <2>2. PICK i \in 1..Depth(lock[m]) :
             calls[lock[m]][i].node = m /\ HoldsLock(calls[lock[m]][i])
      BY <2>1 DEF Inv, LocksOK
    <2>3. lock[m] # t \/ i # d
      BY <1>4, <2>1, <2>2
    <2>4. i \in 1..Len(calls'[lock[m]]) /\ calls'[lock[m]][i] = calls[lock[m]][i]
      BY <1>7, <2>1, <2>3 DEF Depth
    <2> QED
      BY <2>1, <2>2, <2>4 DEF HoldsLock
  <1>15. OneCascade'
    <2>1. \A u \in Threads : \A i \in 1..Depth(u) :
             InCascade(calls'[u][i]) => InCascade(calls[u][i])
      BY <1>4, <1>7 DEF InCascade
    <2> QED
      BY <1>7, <2>1 DEF Inv, OneCascade
  <1>16. TreeOK'
    <2>1. \A m \in attached : m_scope[m] \in Scopes
      BY DEF Inv, TreeOK
    <2> QED
      BY <1>5, <1>9, <1>11, <2>1 DEF Inv, TreeOK
  <1>17. NoChildMissed'
    <2> SUFFICES ASSUME NEW m \in attached, m_scope[m] \in cancelled, m \notin cancelled
                 PROVE  WillBeTold(m)'
      BY <1>5 DEF NoChildMissed
    <2>1. m_scope[m] \in Scopes
      BY DEF Inv, TreeOK
    <2>2. PICK u \in Threads : \E i \in 1..Depth(u) :
            /\ calls[u][i].node = m_scope[m]
            /\ \/ calls[u][i].at = "lock" /\ m \in children[m_scope[m]]
               \/ calls[u][i].at = "children" /\ m \in calls[u][i].todo
      BY DEF Inv, NoChildMissed, WillBeTold
    <2>3. PICK i \in 1..Depth(u) :
            /\ calls[u][i].node = m_scope[m]
            /\ \/ calls[u][i].at = "lock" /\ m \in children[m_scope[m]]
               \/ calls[u][i].at = "children" /\ m \in calls[u][i].todo
      BY <2>2
    <2>4. u # t \/ i # d
      BY <1>4, <2>3
    <2>5. InCascade(calls[u][i]) /\ InCascade(calls[t][d])
      BY <1>4, <2>3 DEF InCascade
    <2>6. m_scope[m] # n
      <3>1. CASE u = t
        BY <1>10, <2>3, <2>4, <3>1
      <3>2. CASE u # t
        BY <1>4, <1>7, <2>3, <2>5, <3>2 DEF Inv, OneCascade
      <3> QED
        BY <3>1, <3>2
    <2>7. children'[m_scope[m]] = children[m_scope[m]]
      BY <1>11, <2>1, <2>6
    <2> QED
      BY <1>5, <1>7, <2>3, <2>4, <2>7 DEF WillBeTold
  <1>18. NoSleeperMissed'
    <2> SUFFICES ASSUME NEW u \in Threads, waiting'[u] \in cancelled
                 PROVE  Cascading(waiting[u])'
      BY <1>5 DEF NoSleeperMissed
    <2>1. waiting'[u] = waiting[u] /\ waiting[u] # n
      <3>1. NoScope \notin cancelled
        BY ScopeAssumption DEF Inv, ScopeTypeOK
      <3> QED
        BY <1>5, <3>1
    <2>2. PICK v \in Threads : \E i \in 1..Depth(v) :
            calls[v][i].node = waiting[u] /\ calls[v][i].at \in {"lock", "children"}
      BY <2>1 DEF Inv, NoSleeperMissed, Cascading
    <2>3. PICK i \in 1..Depth(v) :
            calls[v][i].node = waiting[u] /\ calls[v][i].at \in {"lock", "children"}
      BY <2>2
    <2>4. v # t \/ i # d
      BY <1>4, <2>1, <2>3
    <2> QED
      BY <1>7, <2>1, <2>3, <2>4 DEF Cascading
  <1> QED
    BY <1>12, <1>13, <1>14, <1>15, <1>16, <1>17, <1>18 DEF Inv

-----------------------------------------------------------------------------
(* A method of a leaf takes the leaf's lock.                               *)

LEMMA EnterKeepsInv ==
    ASSUME Inv, NEW t \in Threads, NEW n \in Nodes, Enter(t, n)
    PROVE  Inv'
  <1>1. /\ calls[t] = <<>> /\ n \in Leaves \cap alive /\ lock[n] = NoThread
        /\ calls \in [Threads -> Seq(Frames)]
        /\ UNCHANGED <<alive, attached, cancelled, exception, m_scope, children,
                       waiting>>
    BY DEF Enter, Idle, Inv, ScopeTypeOK
  <1>2. PICK f \in Frames : f = Frame(n, "held", NoException) /\ f.node = n /\ f.at = "held"
    BY FrameIsFrame
  <1>3. calls'[t] = Push(<<>>, f)
    BY <1>1, <1>2 DEF Enter
  <1>4. /\ calls'[t] \in Seq(Frames) /\ Len(calls'[t]) = 1 /\ calls'[t][1] = f
    <2>1. <<>> \in Seq(Frames) /\ Len(<<>>) = 0
      OBVIOUS
    <2>2. /\ Push(<<>>, f) \in Seq(Frames) /\ Len(Push(<<>>, f)) = 0 + 1
          /\ Push(<<>>, f)[0 + 1] = f
      BY <2>1, PushStack
    <2> QED
      BY <1>3, <2>2
  <1>5. Depth(t) = 0 /\ Depth(t)' = 1
    BY <1>1, <1>4 DEF Depth
  <1>6. \A u \in Threads \ {t} : calls'[u] = calls[u] /\ Depth(u)' = Depth(u)
    BY <1>1 DEF Depth, Enter
  <1>7. calls' \in [Threads -> Seq(Frames)]
    <2>1. calls' = [u \in Threads |-> IF u = t THEN calls'[t] ELSE calls[u]]
      BY <1>1 DEF Enter
    <2> QED
      BY <1>1, <1>4, <2>1
  <1>8. \A u \in Threads : \A i \in 1..Depth(u) :
           u # t /\ i \in 1..Depth(u)' /\ calls'[u][i] = calls[u][i]
    BY <1>5, <1>6
  <1>9. \A u \in Threads : \A i \in 1..Depth(u)' :
           \/ u # t /\ i \in 1..Depth(u) /\ calls'[u][i] = calls[u][i]
           \/ u = t /\ i = 1 /\ calls'[u][i] = f
    BY <1>4, <1>5, <1>6
  <1>10. \A m \in Nodes : lock'[m] = IF m = n THEN t ELSE lock[m]
    BY DEF Enter, Inv, ScopeTypeOK
  <1>11. ScopeTypeOK'
    BY <1>1, <1>7 DEF Enter, Inv, ScopeTypeOK
  <1>12. StacksOK'
    <2> SUFFICES ASSUME NEW u \in Threads, NEW i \in 1..Depth(u)'
                 PROVE  (FrameOK(u, i) /\ CallOK(u, i))'
      BY DEF StacksOK
    <2>1. CASE u # t /\ i \in 1..Depth(u) /\ calls'[u][i] = calls[u][i]
      <3>1. FrameOK(u, i) /\ CallOK(u, i)
        BY <2>1 DEF Inv, StacksOK
      <3>2. HoldsLock(calls[u][i]) => lock'[calls[u][i].node] = u
        BY <1>1, <1>10, <3>1, ScopeAssumption DEF FrameOK, Inv, ScopeTypeOK
      <3>3. calls'[u] = calls[u] /\ Depth(u)' = Depth(u)
        BY <1>6, <2>1
      <3>4. FrameOK(u, i)'
        BY <1>1, <2>1, <3>1, <3>2 DEF FrameOK
      <3> QED
        BY <3>1, <3>3, <3>4 DEF CallOK
    <2>2. CASE u = t /\ i = 1 /\ calls'[u][i] = f
      <3>1. lock'[n] = t /\ n \in alive' /\ n \in Leaves
        BY <1>1, <1>10
      <3>2. FrameOK(u, i)'
        BY <1>2, <2>2, <3>1 DEF FrameOK, HoldsLock, InCascade
      <3> QED
        BY <1>5, <2>2, <3>2 DEF CallOK
    <2> QED
      BY <1>9, <2>1, <2>2
  <1>13. LocksOK'
    <2> SUFFICES ASSUME NEW m \in Nodes, lock'[m] # NoThread
                 PROVE  \E i \in 1..Len(calls'[lock'[m]]) :
                           calls'[lock'[m]][i].node = m /\ HoldsLock(calls'[lock'[m]][i])
      BY DEF LocksOK, HoldsLock, Depth
    <2>1. CASE m = n
      BY <1>2, <1>4, <1>10, <2>1 DEF HoldsLock
    <2>2. CASE m # n
      <3>1. lock'[m] = lock[m] /\ lock[m] \in Threads
        BY <1>10, <2>2 DEF Inv, ScopeTypeOK
      <3>2. PICK i \in 1..Depth(lock[m]) :
               calls[lock[m]][i].node = m /\ HoldsLock(calls[lock[m]][i])
        BY <3>1 DEF Inv, LocksOK
      <3>3. lock[m] # t /\ calls'[lock[m]] = calls[lock[m]]
        BY <1>6, <1>8, <3>1, <3>2
      <3>4. i \in 1..Len(calls'[lock[m]])
        BY <3>2, <3>3 DEF Depth
      <3> QED
        BY <3>1, <3>2, <3>3, <3>4
    <2> QED
      BY <2>1, <2>2
  <1>14. OneCascade'
    BY <1>2, <1>9 DEF Inv, OneCascade, InCascade
  <1>15. TreeOK'
    BY <1>1 DEF Inv, TreeOK
  <1>16. NoChildMissed'
    BY <1>1, <1>8 DEF Inv, NoChildMissed, WillBeTold
  <1>17. NoSleeperMissed'
    BY <1>1, <1>8 DEF Inv, NoSleeperMissed, Cascading
  <1> QED
    BY <1>11, <1>12, <1>13, <1>14, <1>15, <1>16, <1>17 DEF Inv

-----------------------------------------------------------------------------
(* The calls and the returns that ScopeNext takes.                         *)

LEMMA CallCancelKeepsInv ==
    ASSUME Inv, NEW t \in Threads, NEW n \in Nodes,
           NEW e \in Exceptions \cup {NoException}, MayCancel(t, n), CallCancel(t, n, e)
    PROVE  Inv'
  <1>1. n \in alive /\ (calls[t] # <<>> => <<Top(t).node, n>> \in Below)
    BY DEF MayCancel
  <1>2. calls[t] # <<>> => Top(t).at = "held"
    BY DEF CallCancel, Idle, TopIs
  <1>3. calls[t] # <<>> =>
           /\ HoldsLock(Top(t)) /\ <<Top(t).node, n>> \in Below
           /\ Top(t).at = "children" => n \in Top(t).todo
    BY <1>1, <1>2 DEF HoldsLock
  <1> QED
    BY <1>1, <1>3, PushKeepsInv DEF CallCancel

LEMMA CancelChildKeepsInv ==
    ASSUME Inv, NEW t \in Threads, CancelChild(t)
    PROVE  Inv'
  <1>1. /\ calls[t] # <<>> /\ Top(t).at = "children" /\ Top(t) = calls[t][Depth(t)]
        /\ Depth(t) \in 1..Depth(t) /\ Top(t).exc \in Exceptions \cup {NoException}
    BY TopInStack DEF CancelChild, TopIs, Inv
  <1>2. PICK n \in Top(t).todo :
           calls' = [calls EXCEPT ![t] = Push(@, Frame(n, "flag", Top(t).exc))]
    BY DEF CancelChild
  <1>3. FrameOK(t, Depth(t))
    BY <1>1 DEF Inv, StacksOK
  <1>4. Top(t).node \in Scopes /\ n \in children[Top(t).node]
    BY <1>1, <1>3 DEF FrameOK
  <1>5. n \in alive /\ <<Top(t).node, n>> \in Below
    BY <1>4 DEF Inv, TreeOK
  <1>6. HoldsLock(Top(t))
    BY <1>1 DEF HoldsLock
  <1>7. UNCHANGED <<alive, attached, cancelled, exception, m_scope, children,
                    lock, waiting>>
    BY DEF CancelChild
  <1> QED
    BY <1>1, <1>2, <1>5, <1>6, <1>7, PushKeepsInv

LEMMA ReturnsKeepInv ==
    ASSUME Inv, NEW t \in Threads,
           \/ SetFlag(t) /\ Top(t).node \in cancelled
           \/ Return(t) \/ Leave(t)
    PROVE  Inv'
  <1>1. /\ calls[t] # <<>> /\ Top(t).at \in {"flag", "after", "held"}
        /\ calls' = [calls EXCEPT ![t] = Returned(t)]
        /\ UNCHANGED <<alive, attached, m_scope, children, waiting>>
    BY DEF SetFlag, Return, Leave, TopIs
  <1>2. /\ Depth(t) \in 1..Depth(t) /\ Depth(t) \in Nat /\ Top(t) = calls[t][Depth(t)]
        /\ Top(t).node \in Nodes /\ Top(t).exc \in Exceptions \cup {NoException}
    BY <1>1, TopInStack DEF Inv
  <1>3. FrameOK(t, Depth(t))
    BY <1>2 DEF Inv, StacksOK
  <1>4. Depth(t) > 1 => Top(t).node \in cancelled
    BY <1>2, <1>3 DEF FrameOK, SetFlag, Return, Leave, TopIs
  <1>5. /\ ~InCascade(Top(t))
        /\ lock' = IF HoldsLock(Top(t)) THEN [lock EXCEPT ![Top(t).node] = NoThread]
                                      ELSE lock
    BY <1>1 DEF InCascade, HoldsLock, SetFlag, Return, Leave, TopIs
  <1>6. /\ cancelled' = cancelled
        /\ exception' \in [Nodes -> Exceptions \cup {NoException}]
    <2>1. exception \in [Nodes -> Exceptions \cup {NoException}]
      BY DEF Inv, ScopeTypeOK
    <2>2. CASE SetFlag(t) /\ Top(t).node \in cancelled
      <3>1. PICK n \in Nodes, e \in Exceptions \cup {NoException} :
               n = Top(t).node /\ e = Top(t).exc
        BY <1>2
      <3>2. /\ cancelled' = cancelled \cup {n} /\ n \in cancelled
            /\ exception' = [exception EXCEPT ![n] = IF @ = NoException THEN e ELSE @]
        BY <2>2, <3>1 DEF SetFlag
      <3> QED
        BY <2>1, <3>1, <3>2
    <2>3. CASE Return(t) \/ Leave(t)
      BY <2>1, <2>3 DEF Return, Leave
    <2> QED
      BY <2>2, <2>3
  <1> QED
    BY <1>1, <1>4, <1>5, <1>6, PopKeepsInv

-----------------------------------------------------------------------------
(* For the users of the tree: what a step does to the stacks.              *)

LEMMA StackIsFrames ==
    ASSUME Inv, NEW t \in Threads
    PROVE  /\ calls[t] \in Seq(Frames) /\ Depth(t) \in Nat /\ Depth(t) = Len(calls[t])
           /\ \A i \in 1..Depth(t) : calls[t][i] \in Frames /\ calls[t][i].node \in Nodes
           /\ calls[t] = <<>> <=> Depth(t) = 0
  <1>1. calls[t] \in Seq(Frames)
    BY DEF Inv, ScopeTypeOK
  <1>2. Depth(t) = Len(calls[t]) /\ Depth(t) \in Nat
    BY <1>1 DEF Depth
  <1>3. \A i \in 1..Depth(t) : calls[t][i] \in Frames
    BY <1>1, <1>2
  <1>4. calls[t] = <<>> <=> Depth(t) = 0
    BY <1>1, <1>2, EmptySeq
  <1> QED
    BY <1>1, <1>2, <1>3, <1>4 DEF Frames

(* A frame calls what its leaf may cancel, or a child.                     *)
LEMMA CalledByScope ==
    ASSUME Inv, NEW t \in Threads, NEW i \in 1..Depth(t), i < Depth(t),
           calls[t][i].node \in Scopes
    PROVE  calls[t][i + 1].node \in attached /\ m_scope[calls[t][i + 1].node] = calls[t][i].node
  <1>1. FrameOK(t, i) /\ CallOK(t, i)
    BY DEF Inv, StacksOK
  <1>2. calls[t][i].at = "children"
    BY <1>1, ScopeAssumption DEF FrameOK, CallOK, HoldsLock
  <1>3. calls[t][i + 1].node \in children[calls[t][i].node]
    BY <1>1, <1>2 DEF FrameOK, CallOK
  <1> QED
    BY <1>3 DEF Inv, TreeOK

LEMMA CancelInTree ==
    ASSUME NEW t \in Threads, NEW n \in alive \cap Nodes,
           NEW e \in Exceptions \cup {NoException},
           calls[t] = <<>> \/ <<Top(t).node, n>> \in Below, CallCancel(t, n, e)
    PROVE  ScopeNext
  <1>1. MayCancel(t, n)
    BY DEF MayCancel
  <1> QED
    BY <1>1 DEF ScopeNext, ScopeStep

LEMMA Pushed ==
    ASSUME Inv, NEW t \in Threads, NEW f \in Frames,
           calls' = [calls EXCEPT ![t] = Push(@, f)]
    PROVE  /\ \A u \in Threads : Depth(u)' = IF u = t THEN Depth(u) + 1 ELSE Depth(u)
           /\ \A u \in Threads : \A i \in 1..Depth(u) : calls'[u][i] = calls[u][i]
           /\ calls'[t][Depth(t) + 1] = f
  <1>1. calls \in [Threads -> Seq(Frames)]
    BY DEF Inv, ScopeTypeOK
  <1>2. calls'[t] = Push(calls[t], f) /\ \A u \in Threads \ {t} : calls'[u] = calls[u]
    BY <1>1
  <1>3. /\ Len(calls'[t]) = Len(calls[t]) + 1 /\ calls'[t][Len(calls[t]) + 1] = f
        /\ \A i \in 1..Len(calls[t]) : calls'[t][i] = calls[t][i]
    <2>1. calls[t] \in Seq(Frames)
      BY <1>1
    <2>2. /\ Len(Push(calls[t], f)) = Len(calls[t]) + 1
          /\ Push(calls[t], f)[Len(calls[t]) + 1] = f
          /\ \A i \in 1..Len(calls[t]) : Push(calls[t], f)[i] = calls[t][i]
      BY <2>1, PushStack
    <2> QED
      BY <1>2, <2>2
  <1> QED
    BY <1>2, <1>3 DEF Depth

LEMMA Popped ==
    ASSUME Inv, NEW t \in Threads, calls[t] # <<>>,
           calls' = [calls EXCEPT ![t] = Returned(t)]
    PROVE  /\ \A u \in Threads : Depth(u)' = IF u = t THEN Depth(u) - 1 ELSE Depth(u)
           /\ \A u \in Threads : \A i \in 1..Depth(u) : i <= Depth(u)' =>
                 /\ calls'[u][i].node = calls[u][i].node
                 /\ calls'[u][i].at = calls[u][i].at
  <1>1. calls \in [Threads -> Seq(Frames)] /\ ScopeTypeOK
    BY DEF Inv, ScopeTypeOK
  <1>2. calls'[t] = Returned(t) /\ \A u \in Threads \ {t} : calls'[u] = calls[u]
    BY <1>1
  <1>3. /\ Len(calls'[t]) = Depth(t) - 1 /\ Depth(t) \in Nat
        /\ \A i \in 1..Depth(t) - 1 : /\ calls'[t][i].node = calls[t][i].node
                                      /\ calls'[t][i].at = calls[t][i].at
    BY <1>1, <1>2, PopStack, StackIsFrames
  <1>4. \A u \in Threads : Depth(u)' = Len(calls'[u])
    BY DEF Depth
  <1> QED
    BY <1>2, <1>3, <1>4 DEF Depth

LEMMA TopTurns ==
    ASSUME Inv, NEW t \in Threads,
           (SetFlag(t) /\ Top(t).node \notin cancelled) \/ TakeLock(t) \/ ScopeDone(t)
    PROVE  \E f \in Frames :
              /\ TopBecomes(t, f)
              /\ \/ Top(t).at = "flag" /\ f.at = "lock"
                    /\ cancelled' = cancelled \cup {Top(t).node}
                 \/ /\ Top(t).at \in {"lock", "children"} /\ cancelled' = cancelled
                    /\ Top(t).at = "lock" => f.at \in {"held", "children"}
                    /\ Top(t).at = "lock" /\ Top(t).node \in Leaves => f.at = "held"
  <1>1. /\ calls[t] # <<>> /\ Top(t) = calls[t][Depth(t)] /\ Top(t) \in Frames
        /\ Depth(t) \in Nat \ {0} /\ calls \in [Threads -> Seq(Frames)]
        /\ Top(t).node \in Nodes
    BY TopInStack DEF SetFlag, TakeLock, ScopeDone, TopIs, Inv, ScopeTypeOK
  <1>2. CASE SetFlag(t) /\ Top(t).node \notin cancelled
    <2> DEFINE f == [Top(t) EXCEPT !.at = "lock"]
    <2>1. f \in Frames /\ f.node = Top(t).node /\ f.at = "lock"
      BY <1>1 DEF Frames
    <2>2. /\ calls' = [calls EXCEPT ![t] = [calls[t] EXCEPT ![Depth(t)] = f]]
          /\ cancelled' = cancelled \cup {Top(t).node} /\ Top(t).at = "flag"
      BY <1>1, <1>2 DEF SetFlag, TopIs
    <2> QED
      BY <1>1, <2>1, <2>2 DEF TopBecomes
  <1>3. CASE TakeLock(t)
    <2> DEFINE a == IF Top(t).node \in Scopes THEN "children" ELSE "held"
               todo == IF Top(t).node \in Scopes THEN children[Top(t).node] ELSE {}
               f == [Top(t) EXCEPT !.at = a, !.todo = todo]
    <2>0. todo \in SUBSET Nodes
      BY DEF Inv, ScopeTypeOK
    <2>1. /\ f \in Frames /\ f.node = Top(t).node /\ f.at \in {"held", "children"}
          /\ Top(t).node \in Leaves => f.at = "held"
      BY <1>1, <2>0, ScopeAssumption DEF Frames
    <2>2. [[calls[t] EXCEPT ![Depth(t)].at = a] EXCEPT ![Depth(t)].todo = todo]
             = [calls[t] EXCEPT ![Depth(t)] = f]
      BY <1>1 DEF Frames
    <2>3. /\ calls' = [calls EXCEPT ![t] = [calls[t] EXCEPT ![Depth(t)] = f]]
          /\ cancelled' = cancelled /\ Top(t).at = "lock"
      BY <1>1, <1>3, <2>2 DEF TakeLock, TopIs
    <2> HIDE DEF f
    <2> QED
      BY <1>1, <2>1, <2>3 DEF TopBecomes
  <1>4. CASE ScopeDone(t)
    <2> DEFINE f == [Top(t) EXCEPT !.at = "after"]
    <2>1. f \in Frames /\ f.node = Top(t).node
      BY <1>1 DEF Frames
    <2>2. /\ calls' = [calls EXCEPT ![t] = [calls[t] EXCEPT ![Depth(t)] = f]]
          /\ cancelled' = cancelled /\ Top(t).at = "children"
      BY <1>1, <1>4 DEF ScopeDone, TopIs
    <2> QED
      BY <1>1, <2>1, <2>2 DEF TopBecomes
  <1> QED
    BY <1>2, <1>3, <1>4

-----------------------------------------------------------------------------

LEMMA InitHolds == ScopeInit => Inv
  <1> SUFFICES ASSUME ScopeInit
               PROVE  Inv
    OBVIOUS
  <1> USE DEF ScopeInit
  <1>1. ScopeTypeOK
    BY DEF ScopeTypeOK, Nodes
  <1>2. \A t \in Threads : 1..Depth(t) = {}
    BY DEF Depth
  <1>3. StacksOK /\ OneCascade
    BY <1>2 DEF StacksOK, OneCascade
  <1>4. LocksOK /\ TreeOK /\ NoChildMissed /\ NoSleeperMissed
    BY DEF LocksOK, TreeOK, NoChildMissed, NoSleeperMissed
  <1> QED
    BY <1>1, <1>3, <1>4 DEF Inv

LEMMA NextKeepsInv == Inv /\ [ScopeNext]_scopeVars => Inv'
  <1> SUFFICES ASSUME Inv, [ScopeNext]_scopeVars
               PROVE  Inv'
    OBVIOUS
  <1>1. ASSUME NEW t \in Threads, ScopeStep(t)
        PROVE  Inv'
    <2>1. CASE SetFlag(t)
      BY <2>1, FirstCancelKeepsInv, ReturnsKeepInv
    <2>2. CASE TakeLock(t)
      BY <2>2, TakeLockKeepsInv
    <2>3. CASE CancelChild(t)
      BY <2>3, CancelChildKeepsInv
    <2>4. CASE ScopeDone(t)
      BY <2>4, ScopeDoneKeepsInv
    <2>5. CASE Return(t) \/ Leave(t)
      BY <2>5, ReturnsKeepInv
    <2>6. CASE WaitEnds(t) \/ \E n \in Nodes : WaitIn(t, n)
      BY <2>6, WaitingKeepsInv
    <2>7. ASSUME NEW n \in Nodes, NEW e \in Exceptions \cup {NoException},
                 MayCancel(t, n), CallCancel(t, n, e)
          PROVE  Inv'
      BY <2>7, CallCancelKeepsInv
    <2>8. ASSUME NEW n \in Nodes, NEW s \in Scopes, <<s, n>> \in Below, Attach(t, n, s)
          PROVE  Inv'
      BY <2>8, AttachKeepsInv
    <2>9. ASSUME NEW n \in Nodes, Detach(t, n) \/ Enter(t, n)
          PROVE  Inv'
      BY <2>9, DetachKeepsInv, EnterKeepsInv
    <2> QED
      BY <1>1, <2>1, <2>2, <2>3, <2>4, <2>5, <2>6, <2>7, <2>8, <2>9 DEF ScopeStep
  <1>2. ASSUME NEW s \in Scopes, ConstructRoot(s)
        PROVE  Inv'
    BY <1>2, ConstructRootKeepsInv
  <1>3. ASSUME NEW n \in Nodes, Released(n), Destroyed(n)
        PROVE  Inv'
    BY <1>3, DestroyedKeepsInv
  <1>4. CASE UNCHANGED scopeVars
    BY <1>4 DEF scopeVars, Inv, ScopeTypeOK, StacksOK, FrameOK, CallOK, LocksOK,
                OneCascade, TreeOK, NoChildMissed, WillBeTold, NoSleeperMissed,
                Cascading, Depth
  <1> QED
    BY <1>1, <1>2, <1>3, <1>4 DEF ScopeNext

LEMMA InvIsSafe == Inv => TreeIsSafe
  <1> SUFFICES ASSUME Inv
               PROVE  TreeIsSafe
    OBVIOUS
  <1>1. LocksDescend
    <2> SUFFICES ASSUME NEW t \in Threads, NEW n \in Nodes, lock[n] = t, TopIs(t, "lock")
                 PROVE  <<n, Top(t).node>> \in Below
      BY DEF LocksDescend
    <2>1. /\ Depth(t) \in Nat /\ Depth(t) \in 1..Depth(t)
          /\ Top(t) = calls[t][Depth(t)] /\ Top(t).at = "lock"
      BY TopInStack DEF Inv, TopIs
    <2>2. PICK i \in 1..Depth(t) : calls[t][i].node = n /\ HoldsLock(calls[t][i])
      BY ScopeAssumption DEF Inv, LocksOK
    <2>3. i < Depth(t)
      BY <2>1, <2>2 DEF HoldsLock
    <2> QED
      BY <2>1, <2>2, <2>3 DEF Inv, StacksOK, CallOK
  <1>2. CancelsLiveOnly
    BY DEF CancelsLiveOnly, Inv, StacksOK, FrameOK
  <1> QED
    BY <1>1, <1>2 DEF TreeIsSafe, Inv

-----------------------------------------------------------------------------
(* Nobody waits in a circle.                                               *)

(* Along a strict order, a finite set has an element with none after it.   *)
LEMMA FiniteHasLast ==
    ASSUME NEW S, IsFiniteSet(S), S # {}, NEW R,
           \A x \in S : <<x, x>> \notin R,
           \A x, y, z \in S : <<x, y>> \in R /\ <<y, z>> \in R => <<x, z>> \in R
    PROVE  \E x \in S : \A y \in S : <<x, y>> \notin R
  <1> DEFINE After(x) == {y \in S : <<x, y>> \in R}
             T == {After(x) : x \in S}
  <1>1. T \subseteq FiniteSubsetsOf(S) /\ T # {}
    <2>1. ASSUME NEW x \in S
          PROVE  After(x) \in FiniteSubsetsOf(S)
      <3>1. After(x) \in SUBSET S
        OBVIOUS
      <3>2. IsFiniteSet(After(x))
        BY <3>1, FS_Subset
      <3> QED
        BY <3>1, <3>2 DEF FiniteSubsetsOf
    <2> HIDE DEF After
    <2> QED
      BY <2>1
  <1>2. PICK A \in T : \A B \in T : ~ (<<B, A>> \in StrictSubsetOrdering(S))
    BY <1>1, FS_StrictSubsetOrderingWellFounded, WFMin
  <1>3. PICK x \in S : A = After(x)
    BY <1>2
  <1>4. ASSUME NEW y \in S, <<x, y>> \in R
        PROVE  FALSE
    <2>1. After(y) \subseteq After(x) /\ y \in After(x) /\ y \notin After(y)
      BY <1>4
    <2>2. <<After(y), After(x)>> \in StrictSubsetOrdering(S)
      BY <2>1 DEF StrictSubsetOrdering
    <2> QED
      BY <1>2, <1>3, <2>2
  <1> QED
    BY <1>4

LEMMA InvGoesOn ==
    ASSUME Inv, IsFiniteSet(Threads)
    PROVE  SomebodyGoesOn
  <1> SUFFICES ASSUME \E t \in Threads : calls[t] # <<>>,
                      \A t \in Threads : calls[t] # <<>> => Blocked(t)
               PROVE  FALSE
    BY DEF SomebodyGoesOn
  <1> DEFINE S == {t \in Threads : calls[t] # <<>>}
             R == {p \in S \X S : <<Top(p[1]).node, Top(p[2]).node>> \in Below}
  <1>1. IsFiniteSet(S) /\ S # {}
    <2>1. S \in SUBSET Threads
      OBVIOUS
    <2> QED
      BY <2>1, FS_Subset
  <1>2. \A t \in S : Top(t).node \in Nodes
    BY TopInStack DEF Inv
  <1>3. PICK t \in S : \A u \in S : <<t, u>> \notin R
    <2>1. \A x \in S : <<x, x>> \notin R
      BY <1>2, ScopeAssumption
    <2>2. \A x, y, z \in S : <<x, y>> \in R /\ <<y, z>> \in R => <<x, z>> \in R
      BY <1>2, ScopeAssumption
    <2> HIDE DEF S, R
    <2> QED
      BY <1>1, <2>1, <2>2, FiniteHasLast
  <1> DEFINE n == Top(t).node
             u == lock[n]
  <1>4. n \in Nodes /\ u \in Threads /\ u # NoThread
    BY <1>2 DEF Blocked, Inv, ScopeTypeOK
  <1>5. u \in S
    <2>1. PICK i \in 1..Depth(u) : calls[u][i].node = n
      BY <1>4 DEF Inv, LocksOK
    <2>2. calls[u] # <<>>
      BY <1>4, <2>1, StackIsFrames
    <2> QED
      BY <1>4, <2>2
  <1>6. TopIs(u, "lock")
    BY <1>5 DEF Blocked
  <1>7. <<n, Top(u).node>> \in Below
    BY <1>4, <1>6, InvIsSafe DEF TreeIsSafe, LocksDescend
  <1> QED
    BY <1>3, <1>5, <1>7

-----------------------------------------------------------------------------

(* The state of the tree is always well formed (CancellableScope.cpp).     *)
THEOREM ScopeTypeCorrect == ScopeSpec => []ScopeTypeOK
  <1>1. Inv => ScopeTypeOK
    BY DEF Inv
  <1> QED
    BY <1>1, InitHolds, NextKeepsInv, PTL DEF ScopeSpec

(* Cancels wait for each other in no circle, leave out no child and no     *)
(* sleeper, and reach nothing that has been destroyed: for any number of   *)
(* threads, scopes and leaves (CancellableScope.cpp: cancel, operator+=,   *)
(* operator-=, wait_until and the destructors).                            *)
THEOREM TreeStaysSafe == ScopeSpec => []TreeIsSafe
  BY InvIsSafe, InitHolds, NextKeepsInv, PTL DEF ScopeSpec

(* No set of threads is stuck, each waiting for a lock that another of     *)
(* them has, while they cancel parts of one tree from different places:    *)
(* for any finite number of threads and any tree.                          *)
THEOREM CancelsGoOn ==
    ASSUME IsFiniteSet(Threads)
    PROVE  ScopeSpec => []SomebodyGoesOn
  <1>1. Inv => SomebodyGoesOn
    BY InvGoesOn
  <1> QED
    BY <1>1, InitHolds, NextKeepsInv, PTL DEF ScopeSpec
=============================================================================
