------------------------- MODULE CommandSessionProofs -------------------------
(***************************************************************************)
(* A session keeps to what the tree of scopes asks of its users, and what  *)
(* it runs is neither destroyed nor forgotten.                             *)
(***************************************************************************)
EXTENDS CommandSession, CancellableScopeProofs

-----------------------------------------------------------------------------
(* The inductive invariant, beside that of the tree.                       *)

(* The set that is current belongs to the session, or to the thread that   *)
(* has moved it out; the one the program has built, to nobody else.        *)
SetsOK ==
    /\ {m_current, pending, current} \subseteq Sets \cup {NoSet}
    /\ pending # NoSet => pending \notin {m_current, current}
    /\ thread \in {"run", "ran"} => current # NoSet /\ m_current = current
    /\ thread = "done" => current # NoSet /\ m_current # current

PlacedOK(n, s) ==
    \/ n = session /\ s = root
    \/ \E c \in Sets : n = ScopeOf(c) /\ s = root
    \/ \E c \in Sets : n = ContextOf(c) /\ s = ScopeOf(c)

SetLives(c) == c # NoSet /\ {ScopeOf(c), ContextOf(c)} \subseteq alive

(* What the session and the program's call point to is there, and only     *)
(* what the code attaches where it does is attached.                       *)
NodesOK ==
    /\ root \in alive
    /\ session \in alive <=> at \notin {"none", "over"}
    /\ at \in {"cancel", "join"} => session \notin attached
    /\ m_current # NoSet /\ ~Joined => SetLives(m_current)
    /\ at = "build" => op = "dispatch" /\ pending # NoSet
    /\ op = "dispatch" /\ at \in {"lock", "locked", "interrupt", "asleep"}
          => SetLives(pending)
    /\ \A n \in attached : PlacedOK(n, m_scope[n])

(* Who calls what: the program the session, whoever stops it the root, and *)
(* the session the context of the set that is current.                     *)
CallersOK ==
    \A t \in Threads :
        /\ waiting[t] = NoScope
        /\ Depth(t) > 0 =>
              \/ t = user /\ calls[t][1].node = session
              \/ t = stopper /\ calls[t][1].node = root
        /\ \A i \in 1..Depth(t) :
              i < Depth(t) /\ calls[t][i].node \in Leaves =>
                  m_current # NoSet /\ calls[t][i + 1].node = ContextOf(m_current)

(* The program is in no call but where it has locked or cancels.           *)
ProgramOK ==
    /\ at \notin {"locked", "interrupt", "stop", "join"} => Depth(user) = 0
    /\ at \in {"locked", "interrupt"} => Depth(user) > 0 /\ calls[user][1].at = "held"
    /\ at = "locked" => Depth(user) = 1 /\ m_current # NoSet
    /\ at \in {"stop", "join"} /\ Depth(user) > 0 =>
          calls[user][1].at = "flag" \/ session \in cancelled

(* Somebody has called, from there, the cancel() of the set that runs.     *)
Reaching ==
    \E t \in Threads : \E i \in 1..Depth(t) :
        /\ i < Depth(t) /\ calls[t][i].node = session
        /\ calls[t][i + 1].node = ContextOf(current)

ToldOK ==
    /\ session \in cancelled /\ ~told => Telling
    /\ told => at # "none" /\ (session \in cancelled \/ thread = "over")
    /\ told /\ thread = "run" => ContextOf(current) \in cancelled \/ Reaching

SessionInv == SetsOK /\ NodesOK /\ CallersOK /\ ProgramOK /\ ToldOK

-----------------------------------------------------------------------------
(* The nodes, and what the invariants say of the stacks.                   *)

LEMMA NamesDiffer ==
    /\ root \in Scopes /\ session \in Leaves /\ root # session
    /\ root \in Nodes /\ session \in Nodes /\ \A n \in Leaves : n \notin Scopes
    /\ <<root, session>> \in Below
    /\ NoSet \notin Sets /\ NoScope \notin Nodes
    /\ user \in Threads /\ stopper \in Threads /\ commander \in Threads
    /\ user # stopper /\ commander # user /\ commander # stopper
    /\ \A c \in Sets :
          /\ ScopeOf(c) \in Scopes /\ ScopeOf(c) \in Nodes
          /\ ContextOf(c) \in Scopes /\ ContextOf(c) \in Nodes
          /\ ScopeOf(c) # root /\ ContextOf(c) # root
          /\ ScopeOf(c) # session /\ ContextOf(c) # session
          /\ <<root, ScopeOf(c)>> \in Below /\ <<ScopeOf(c), ContextOf(c)>> \in Below
          /\ <<session, ContextOf(c)>> \in Below
    /\ \A c, d \in Sets :
          /\ ScopeOf(c) # ContextOf(d)
          /\ ScopeOf(c) = ScopeOf(d) => c = d
          /\ ContextOf(c) = ContextOf(d) => c = d
  <1>1. \A c, d \in Sets :
          /\ ScopeOf(c) # ContextOf(d)
          /\ ScopeOf(c) = ScopeOf(d) => c = d
          /\ ContextOf(c) = ContextOf(d) => c = d
    BY DEF ScopeOf, ContextOf
  <1>2. \A n \in Nodes : <<n, n>> \notin Below
    BY ScopeAssumption
  <1>3. \A c \in Sets : ContextOf(c) # root
    <2> SUFFICES ASSUME NEW c \in Sets, ContextOf(c) = root
                 PROVE  FALSE
      OBVIOUS
    <2>1. <<root, ScopeOf(c)>> \in Below /\ <<ScopeOf(c), root>> \in Below
      BY CommandAssumption
    <2>2. root \in Nodes /\ ScopeOf(c) \in Nodes
      BY CommandAssumption DEF Nodes
    <2>3. <<root, root>> \in Below
      BY <2>1, <2>2, ScopeAssumption
    <2> QED
      BY <1>2, <2>2, <2>3
  <1>4. \A c \in Sets : ScopeOf(c) # root
    BY <1>2, CommandAssumption DEF Nodes
  <1> HIDE DEF ScopeOf, ContextOf
  <1> QED
    BY <1>1, <1>3, <1>4, CommandAssumption, ScopeAssumption DEF Nodes

LEMMA OnlyLeaf ==
    ASSUME Inv, NodesOK, CallersOK, SetsOK,
           NEW t \in Threads, NEW i \in 1..Depth(t), calls[t][i].node \in Leaves
    PROVE  calls[t][i].node = session
  <1>1. CASE i = 1
    BY <1>1, StackIsFrames, NamesDiffer, ScopeAssumption DEF CallersOK
  <1>2. CASE i # 1
    <2> DEFINE j == i - 1
    <2>1. j \in 1..Depth(t) /\ j < Depth(t) /\ j + 1 = i /\ calls[t][j].node \in Nodes
      BY <1>2, StackIsFrames
    <2> HIDE DEF j
    <2>2. CASE calls[t][j].node \in Leaves
      <3>1. m_current \in Sets /\ calls[t][i].node = ContextOf(m_current)
        BY <2>1, <2>2 DEF CallersOK, SetsOK
      <3> QED
        BY <3>1, NamesDiffer
    <2>3. CASE calls[t][j].node \in Scopes
      <3>1. calls[t][i].node \in attached
        BY <2>1, <2>3, CalledByScope
      <3> QED
        BY <3>1, NamesDiffer DEF NodesOK, PlacedOK
    <2> QED
      BY <2>1, <2>2, <2>3 DEF Nodes
  <1> QED
    BY <1>1, <1>2

(* Nothing is attached to a context.                                       *)
LEMMA ContextIsLast ==
    ASSUME Inv, NodesOK, NEW t \in Threads, NEW i \in 1..Depth(t), NEW c \in Sets,
           calls[t][i].node = ContextOf(c)
    PROVE  i = Depth(t)
  <1> SUFFICES ASSUME i < Depth(t)
               PROVE  FALSE
    BY StackIsFrames
  <1>1. /\ calls[t][i + 1].node \in attached
        /\ m_scope[calls[t][i + 1].node] = ContextOf(c)
    BY CalledByScope, NamesDiffer
  <1>2. \A n \in attached : m_scope[n] = root \/ \E d \in Sets : m_scope[n] = ScopeOf(d)
    BY DEF NodesOK, PlacedOK
  <1>3. ContextOf(c) = root \/ \E d \in Sets : ContextOf(c) = ScopeOf(d)
    BY <1>1, <1>2
  <1> QED
    BY <1>3, NamesDiffer

(* Whoever has called from the session has its lock.                       *)
LEMMA SessionLocked ==
    ASSUME Inv, NEW t \in Threads, NEW i \in 1..Depth(t), i < Depth(t),
           calls[t][i].node = session
    PROVE  lock[session] = t /\ t # NoThread
  BY ScopeAssumption DEF Inv, StacksOK, FrameOK, CallOK

(* A scope that reaches the session has it attached.                       *)
LEMMA SessionCalledFromRoot ==
    ASSUME Inv, NodesOK, CallersOK, SetsOK, session \notin attached,
           NEW t \in Threads, NEW i \in 1..Depth(t), calls[t][i].node = session
    PROVE  t = user /\ i = 1
  <1>1. CASE i = 1
    BY <1>1, StackIsFrames, NamesDiffer DEF CallersOK
  <1>2. CASE i # 1
    <2> DEFINE j == i - 1
    <2>1. j \in 1..Depth(t) /\ j < Depth(t) /\ j + 1 = i /\ calls[t][j].node \in Nodes
      BY <1>2, StackIsFrames
    <2> HIDE DEF j
    <2>2. CASE calls[t][j].node \in Leaves
      <3>1. m_current \in Sets /\ calls[t][i].node = ContextOf(m_current)
        BY <2>1, <2>2 DEF CallersOK, SetsOK
      <3> QED
        BY <3>1, NamesDiffer
    <2>3. CASE calls[t][j].node \in Scopes
      BY <2>1, <2>3, CalledByScope
    <2> QED
      BY <2>1, <2>2, <2>3 DEF Nodes
  <1> QED
    BY <1>1, <1>2

-----------------------------------------------------------------------------
(* What is destroyed is released.                                          *)

(* What a thread calls by itself, or from the session.                     *)
LEMMA DirectCalls ==
    ASSUME Inv, SessionInv, NEW t \in Threads, NEW i \in 1..Depth(t), Direct(t, i)
    PROVE  \/ i = 1 /\ calls[t][i].node \in {session, root}
           \/ /\ m_current \in Sets /\ calls[t][i].node = ContextOf(m_current)
              /\ i - 1 \in 1..Depth(t) /\ calls[t][i - 1].node = session
  <1>1. CASE i = 1
    BY <1>1, StackIsFrames DEF SessionInv, CallersOK
  <1>2. CASE i # 1
    <2> DEFINE j == i - 1
    <2>1. j \in 1..Depth(t) /\ j < Depth(t) /\ j + 1 = i /\ calls[t][j].node \in Leaves
      BY <1>2, StackIsFrames DEF Direct
    <2> HIDE DEF j
    <2>2. calls[t][j].node = session
      BY <2>1, OnlyLeaf DEF SessionInv
    <2>3. m_current \in Sets /\ calls[t][i].node = ContextOf(m_current)
      BY <2>1 DEF SessionInv, CallersOK, SetsOK
    <2> QED
      BY <2>1, <2>2, <2>3 DEF j
  <1> QED
    BY <1>1, <1>2

LEMMA NobodyInSession ==
    ASSUME Inv, SessionInv, Joined, NEW t \in Threads, NEW i \in 1..Depth(t)
    PROVE  calls[t][i].node # session
  BY SessionCalledFromRoot, StackIsFrames, NamesDiffer DEF SessionInv, NodesOK, Joined

LEMMA SetReleased ==
    ASSUME Inv, SessionInv, NEW c \in Sets, c # m_current \/ Joined
    PROVE  /\ Released(ContextOf(c))
           /\ ContextOf(c) \notin alive => Released(ScopeOf(c))
  <1>1. \A t \in Threads : waiting[t] = NoScope
    BY DEF SessionInv, CallersOK
  <1>2. ASSUME NEW t \in Threads, NEW i \in 1..Depth(t), Direct(t, i)
        PROVE  calls[t][i].node \notin {ContextOf(c), ScopeOf(c)}
    BY <1>2, DirectCalls, NobodyInSession, NamesDiffer
  <1>3. ASSUME NEW m \in attached
        PROVE  /\ m_scope[m] # ContextOf(c)
               /\ m_scope[m] = ScopeOf(c) => m = ContextOf(c)
    <2>1. \/ m_scope[m] = root
          \/ \E d \in Sets : m = ContextOf(d) /\ m_scope[m] = ScopeOf(d)
      BY DEF SessionInv, NodesOK, PlacedOK
    <2> QED
      BY <2>1, NamesDiffer
  <1>4. attached \subseteq alive
    BY DEF Inv, TreeOK
  <1> QED
    BY <1>1, <1>2, <1>3, <1>4, NamesDiffer DEF Released

LEMMA SessionReleased ==
    ASSUME Inv, SessionInv, Joined
    PROVE  Released(session)
  <1>1. \A t \in Threads : waiting[t] = NoScope
    BY DEF SessionInv, CallersOK
  <1>2. \A m \in attached : m_scope[m] \in Scopes
    BY DEF Inv, TreeOK
  <1> QED
    BY <1>1, <1>2, NobodyInSession, NamesDiffer DEF Released

LEMMA DropSetInTree ==
    ASSUME Inv, SessionInv, NEW c \in Sets, NEW t \in Threads,
           c # m_current \/ Joined, DropSet(t, c)
    PROVE  ScopeNext
  <1>1. CASE Destroyed(ContextOf(c)) \/ (ContextOf(c) \notin alive /\ Destroyed(ScopeOf(c)))
    BY <1>1, SetReleased, NamesDiffer DEF ScopeNext
  <1>2. CASE Detach(t, ContextOf(c)) \/ Detach(t, ScopeOf(c))
    BY <1>2, NamesDiffer DEF ScopeNext, ScopeStep
  <1> QED
    BY <1>1, <1>2 DEF DropSet

-----------------------------------------------------------------------------
(* Every step of the session is one that the tree allows.                  *)

LEMMA CallsInTree ==
    ASSUME Inv, SessionInv,
           CancelContext \/ StopSession \/ CancelSession \/ CancelProgram
    PROVE  ScopeNext
  <1>1. CASE CancelContext
    <2>1. m_current \in Sets /\ Depth(user) = 1 /\ ~Joined
      BY <1>1 DEF CancelContext, UserMoves, SessionInv, ProgramOK, SetsOK, Joined
    <2>2. ContextOf(m_current) \in alive
      BY <2>1, NamesDiffer DEF SessionInv, NodesOK, SetLives
    <2>3. Top(user).node = session
      BY <2>1, StackIsFrames, NamesDiffer DEF Top, SessionInv, CallersOK
    <2> QED
      BY <1>1, <2>1, <2>2, <2>3, CancelInTree, NamesDiffer DEF CancelContext
  <1>2. CASE StopSession \/ CancelSession
    <2>1. session \in alive /\ calls[user] = <<>>
      BY <1>2, StackIsFrames, NamesDiffer
         DEF StopSession, CancelSession, UserMoves, SessionInv, NodesOK, ProgramOK
    <2> QED
      BY <1>2, <2>1, CancelInTree, NamesDiffer DEF StopSession, CancelSession
  <1>3. CASE CancelProgram
    BY <1>3, CancelInTree, NamesDiffer DEF CancelProgram, SessionInv, NodesOK
  <1> QED
    BY <1>1, <1>2, <1>3

LEMMA CancelStepInTree ==
    ASSUME Inv, SessionInv, NEW t \in {user, stopper}, CancelStep(t)
    PROVE  [ScopeNext]_scopeVars
  <1> t \in Threads
    BY NamesDiffer
  <1>1. CASE SetFlag(t) \/ TakeLock(t) \/ CancelChild(t) \/ ScopeDone(t)
    BY <1>1 DEF ScopeNext, ScopeStep
  <1>2. CASE SessionCancelled(t) \/ CancelReturns(t)
    BY <1>2 DEF SessionCancelled, CancelReturns, ScopeNext, ScopeStep
  <1>3. CASE TellCurrent(t) /\ m_current # NoSet
    <2>1. TopIs(t, "held") /\ Top(t).node = session /\ calls[t] # <<>>
      BY <1>3 DEF TellCurrent, InCancel, TopIs
    <2>2. Top(t).exc \in Exceptions \cup {NoException} /\ Depth(t) \in 1..Depth(t)
      BY <2>1, TopInStack DEF Inv
    <2>3. m_current \in Sets /\ ~Joined
      BY <1>3, <2>1, <2>2, NobodyInSession DEF SessionInv, SetsOK, Top
    <2>4. ContextOf(m_current) \in alive
      BY <2>3, NamesDiffer DEF SessionInv, NodesOK, SetLives
    <2> QED
      BY <1>3, <2>1, <2>2, <2>3, <2>4, CancelInTree, NamesDiffer DEF TellCurrent
  <1>4. CASE TellCurrent(t) /\ m_current = NoSet
    BY <1>4 DEF TellCurrent
  <1> QED
    BY <1>1, <1>2, <1>3, <1>4 DEF CancelStep

LEMMA NextInTree ==
    ASSUME Inv, SessionInv, [Next]_vars
    PROVE  [ScopeNext]_scopeVars
  <1>1. CASE Construct \/ Dispatch \/ BuildContext
    <2>1. ASSUME NEW n \in Nodes, NEW s \in Scopes, <<s, n>> \in Below, Attach(user, n, s)
          PROVE  ScopeNext
      BY <2>1, NamesDiffer DEF ScopeNext, ScopeStep
    <2>2. CASE Construct
      BY <2>1, <2>2, NamesDiffer DEF Construct
    <2>3. CASE Dispatch
      BY <2>1, <2>3, NamesDiffer DEF Dispatch
    <2>4. CASE BuildContext
      <3>1. pending \in Sets
        BY <2>4 DEF BuildContext, UserMoves, SessionInv, SetsOK, NodesOK
      <3> QED
        BY <2>1, <2>4, <3>1, NamesDiffer DEF BuildContext
    <2> QED
      BY <1>1, <2>2, <2>3, <2>4
  <1>2. CASE DropPending \/ DropCurrent \/ DropDone
    <2>1. CASE DropPending
      BY <2>1, DropSetInTree, NamesDiffer DEF DropPending, SessionInv, SetsOK
    <2>2. CASE DropCurrent
      BY <2>2, DropSetInTree, NamesDiffer DEF DropCurrent, SessionInv, SetsOK
    <2>3. CASE DropDone
      BY <2>3, DropSetInTree, NamesDiffer DEF DropDone, SessionInv, SetsOK
    <2> QED
      BY <1>2, <2>1, <2>2, <2>3
  <1>3. CASE SessionGone
    BY <1>3, SessionReleased, NamesDiffer DEF SessionGone, ScopeNext
  <1>4. CASE CancelCommand \/ Interrupt \/ DetachSession
    BY <1>4, NamesDiffer DEF CancelCommand, Interrupt, DetachSession, ScopeNext, ScopeStep
  <1>5. CASE CancelContext \/ StopSession \/ CancelSession \/ CancelProgram
    BY <1>5, CallsInTree
  <1>6. CASE \E t \in {user, stopper} : CancelStep(t)
    BY <1>6, CancelStepInTree
  <1>7. CASE \/ ConstructThrows \/ DispatchThrows \/ BuildContextThrows \/ StopCommand
             \/ SleepAgain \/ GoOn \/ CallOver \/ Wait \/ WaitOver \/ SessionStopped
             \/ TakeCommand \/ CommandStep \/ MoveDone \/ DoneGone \/ SerialStops
    BY <1>7 DEF ConstructThrows, DispatchThrows, BuildContextThrows, StopCommand,
                SleepAgain, GoOn, CallOver, Wait, WaitOver, SessionStopped, TakeCommand,
                CommandStep, CommandEnds, CommandThrows, MoveDone, DoneGone, SerialStops,
                HasLock
  <1>8. CASE UNCHANGED vars
    BY <1>8 DEF vars
  <1> QED
    BY <1>1, <1>2, <1>3, <1>4, <1>5, <1>6, <1>7, <1>8 DEF Next, CallStep, ThreadStep

-----------------------------------------------------------------------------
(* Steps that leave the stacks alone.                                      *)

(* What the session does to m_current and to the program's place.          *)
LEMMA CallersStay ==
    ASSUME Inv, SessionInv, UNCHANGED <<calls, waiting>>,
           m_current' = m_current \/ lock[session] = NoThread \/ Joined
    PROVE  CallersOK'
  <1> SUFFICES ASSUME NEW t \in Threads, NEW i \in 1..Depth(t), i < Depth(t),
                      calls[t][i].node \in Leaves
               PROVE  m_current' # NoSet /\ calls[t][i + 1].node = ContextOf(m_current')
    BY DEF SessionInv, CallersOK, Depth
  <1>2. calls[t][i].node = session
    BY OnlyLeaf DEF SessionInv
  <1>3. lock[session] # NoThread
    BY <1>2, SessionLocked
  <1>4. ~Joined
    BY <1>2, NobodyInSession
  <1> QED
    BY <1>3, <1>4 DEF SessionInv, CallersOK

LEMMA ProgramStays ==
    ASSUME Inv, SessionInv, UNCHANGED calls,
           Depth(user) > 0 /\ session \in cancelled => session \in cancelled',
           \/ at' = at /\ (m_current' = m_current \/ lock[session] = NoThread)
           \/ Depth(user) = 0 /\ at' \notin {"locked", "interrupt"}
    PROVE  ProgramOK'
  <1>1. Depth(user)' = Depth(user) /\ Depth(user) \in Nat
    BY StackIsFrames, NamesDiffer DEF Depth
  <1>2. CASE Depth(user) = 0 /\ at' \notin {"locked", "interrupt"}
    BY <1>1, <1>2 DEF ProgramOK
  <1>3. CASE at' = at /\ m_current' = m_current
    BY <1>1, <1>3 DEF SessionInv, ProgramOK
  <1>4. CASE at' = at /\ lock[session] = NoThread
    <2>1. at # "locked"
      <3> SUFFICES ASSUME at = "locked"
                   PROVE  FALSE
        OBVIOUS
      <3>1. 1 \in 1..Depth(user) /\ calls[user][1].at = "held" /\ calls[user][1].node = session
        BY NamesDiffer DEF SessionInv, ProgramOK, CallersOK
      <3>2. lock[session] = user
        BY <3>1, NamesDiffer DEF Inv, StacksOK, FrameOK, HoldsLock
      <3> QED
        BY <1>4, <3>2, NamesDiffer, ScopeAssumption
    <2> QED
      BY <1>1, <1>4, <2>1 DEF SessionInv, ProgramOK
  <1> QED
    BY <1>2, <1>3, <1>4

LEMMA TellersStay ==
    ASSUME Telling, UNCHANGED calls, at' = at \/ Depth(user) = 0
    PROVE  Telling'
  <1>1. PICK t \in Threads : \E i \in 1..Depth(t) :
          /\ calls[t][i].node = session /\ calls[t][i].at \in {"lock", "held"}
          /\ t = user => at \in {"stop", "join"}
    BY DEF Telling
  <1>2. PICK i \in 1..Depth(t) :
          /\ calls[t][i].node = session /\ calls[t][i].at \in {"lock", "held"}
          /\ t = user => at \in {"stop", "join"}
    BY <1>1
  <1>3. t = user => at' = at
    BY <1>2
  <1>4. i \in 1..Depth(t)'
    BY DEF Depth
  <1> QED
    BY <1>2, <1>3, <1>4 DEF Telling

LEMMA ToldStays ==
    ASSUME Inv, SessionInv, UNCHANGED <<calls, told>>, thread = "over" => thread' = "over",
           at' = at \/ (Depth(user) = 0 /\ at' # "none"),
           session \in cancelled' => session \in cancelled,
           told /\ session \in cancelled => session \in cancelled' \/ thread' = "over",
           told /\ thread' = "run" =>
              /\ thread = "run" /\ current' = current
              /\ ContextOf(current) \in cancelled => ContextOf(current) \in cancelled'
    PROVE  ToldOK'
  <1>1. Telling => Telling'
    BY TellersStay
  <1>2. thread' = "run" /\ current' = current /\ Reaching => Reaching'
    BY DEF Reaching, Depth
  <1> QED
    BY <1>1, <1>2 DEF SessionInv, ToldOK

(* The steps that only look at the tree, if that.                          *)
LEMMA QuietKeeps ==
    ASSUME Inv, SessionInv,
           \/ ConstructThrows \/ DispatchThrows \/ BuildContextThrows \/ StopCommand
           \/ SleepAgain \/ GoOn \/ CallOver \/ Wait \/ WaitOver \/ SessionStopped
           \/ TakeCommand \/ CommandStep \/ MoveDone \/ DoneGone \/ SerialStops
    PROVE  SessionInv'
  <1> Depth(user) = 0 <=> calls[user] = <<>>
    BY StackIsFrames, NamesDiffer
  <1> USE DEF SessionInv, scopeVars, UserMoves, ThreadMoves, HasLock, Calls
  <1>1. CASE ConstructThrows \/ DispatchThrows \/ BuildContextThrows \/ StopCommand \/ Wait
    <2> USE <1>1 DEF ConstructThrows, DispatchThrows, BuildContextThrows, StopCommand, Wait
    <2>1. SetsOK'
      BY DEF SetsOK, NodesOK
    <2>2. NodesOK'
      BY NamesDiffer DEF NodesOK, SetsOK, SetLives, Joined
    <2>3. CallersOK'
      BY CallersStay
    <2>4. ProgramOK'
      BY ProgramStays DEF ProgramOK
    <2>5. ToldOK'
      BY ToldStays DEF ProgramOK, ToldOK
    <2> QED
      BY <2>1, <2>2, <2>3, <2>4, <2>5
  <1>2. CASE SleepAgain \/ GoOn \/ CallOver \/ WaitOver \/ SessionStopped
    <2> USE <1>2 DEF SleepAgain, GoOn, CallOver, WaitOver, SessionStopped, MayGoOn, Store
    <2>1. SetsOK'
      BY DEF SetsOK, NodesOK
    <2>2. NodesOK'
      BY NamesDiffer DEF NodesOK, SetsOK, SetLives, Joined
    <2>3. CallersOK'
      BY CallersStay
    <2>4. ProgramOK'
      BY ProgramStays DEF ProgramOK
    <2>5. ToldOK'
      BY ToldStays DEF ProgramOK, ToldOK
    <2> QED
      BY <2>1, <2>2, <2>3, <2>4, <2>5
  <1>3. CASE TakeCommand \/ CommandStep \/ MoveDone \/ DoneGone \/ SerialStops
    <2> USE <1>3 DEF TakeCommand, CommandStep, MoveDone, DoneGone, SerialStops, CommandEnds, CommandThrows
    <2>1. SetsOK'
      BY DEF SetsOK, NodesOK
    <2>2. NodesOK'
      BY NamesDiffer DEF NodesOK, SetsOK, SetLives, Joined
    <2>3. CallersOK'
      BY CallersStay
    <2>4. ProgramOK'
      BY ProgramStays DEF ProgramOK
    <2>5. ToldOK'
      BY ToldStays DEF ProgramOK, ToldOK
    <2> QED
      BY <2>1, <2>2, <2>3, <2>4, <2>5
  <1> QED
    BY <1>1, <1>2, <1>3

-----------------------------------------------------------------------------
(* Steps that build and destroy.                                           *)

LEMMA PlacesKept ==
    ASSUME Inv, SessionInv, NEW n \in Nodes,
           \/ Destroyed(n) \/ \E t \in Threads : Detach(t, n)
           \/ \E t \in Threads, s \in Scopes : PlacedOK(n, s) /\ Attach(t, n, s)
    PROVE  \A m \in attached' : PlacedOK(m, m_scope'[m])
  <1> SUFFICES ASSUME NEW m \in attached'
               PROVE  PlacedOK(m, m_scope'[m])
    OBVIOUS
  <1>1. m_scope \in [Nodes -> Scopes \cup {NoScope}] /\ attached \subseteq Nodes
    BY DEF Inv, ScopeTypeOK
  <1>2. m \in attached => PlacedOK(m, m_scope[m])
    BY DEF SessionInv, NodesOK
  <1>3. CASE Destroyed(n) \/ \E t \in Threads : Detach(t, n)
    <2>1. m \in attached /\ m_scope'[m] = m_scope[m]
      BY <1>1, <1>3 DEF Destroyed, Detach
    <2> QED
      BY <1>2, <2>1
  <1>4. CASE \E t \in Threads, s \in Scopes : PlacedOK(n, s) /\ Attach(t, n, s)
    <2>1. PICK s \in Scopes : /\ PlacedOK(n, s) /\ m_scope' = [m_scope EXCEPT ![n] = s]
                              /\ attached' = attached \cup {n}
      BY <1>4 DEF Attach
    <2>2. CASE m = n
      BY <1>1, <2>1, <2>2
    <2>3. CASE m # n
      BY <1>1, <1>2, <2>1, <2>3
    <2> QED
      BY <2>2, <2>3
  <1> QED
    BY <1>3, <1>4

LEMMA BuildKeeps ==
    ASSUME Inv, SessionInv, Construct \/ Dispatch \/ BuildContext
    PROVE  SessionInv'
  <1> Depth(user) = 0 <=> calls[user] = <<>>
    BY StackIsFrames, NamesDiffer
  <1> USE DEF SessionInv, UserMoves, Calls, Attach, Constructed
  <1>1. CASE Construct
    <2> USE <1>1 DEF Construct
    <2>1. SetsOK'
      BY DEF SetsOK
    <2>2. NodesOK'
      <3>1. \A m \in attached' : PlacedOK(m, m_scope'[m])
        BY PlacesKept, NamesDiffer DEF PlacedOK
      <3> QED
        BY <3>1, NamesDiffer DEF NodesOK, SetLives, Joined
    <2>3. CallersOK'
      BY CallersStay
    <2>4. ProgramOK'
      BY ProgramStays, NamesDiffer DEF ProgramOK
    <2>5. ToldOK'
      BY ToldStays DEF ProgramOK, ToldOK
    <2> QED
      BY <2>1, <2>2, <2>3, <2>4, <2>5
  <1>2. CASE Dispatch
    <2> USE DEF Dispatch
    <2>0. PICK c \in Sets : /\ c # current /\ Gone(c) /\ Attach(user, ScopeOf(c), root)
                            /\ pending' = c
      BY <1>2
    <2>1. SetsOK'
      BY <1>2, <2>0, NamesDiffer DEF SetsOK, NodesOK, Gone, SetLives, Joined
    <2>2. NodesOK'
      <3>1. \A m \in attached' : PlacedOK(m, m_scope'[m])
        BY <2>0, PlacesKept, NamesDiffer DEF PlacedOK
      <3> QED
        BY <1>2, <2>0, <3>1, NamesDiffer DEF NodesOK, SetLives, Joined, SetsOK
    <2>3. CallersOK'
      BY <1>2, <2>0, CallersStay
    <2>4. ProgramOK'
      BY <1>2, <2>0, ProgramStays, NamesDiffer DEF ProgramOK
    <2>5. ToldOK'
      BY <1>2, <2>0, ToldStays, NamesDiffer DEF ProgramOK, SetsOK
    <2> QED
      BY <2>1, <2>2, <2>3, <2>4, <2>5
  <1>3. CASE BuildContext
    <2> USE <1>3 DEF BuildContext
    <2>0. pending \in Sets /\ pending # current
      BY DEF NodesOK, SetsOK
    <2>1. SetsOK'
      BY DEF SetsOK
    <2>2. NodesOK'
      <3>1. \A m \in attached' : PlacedOK(m, m_scope'[m])
        BY <2>0, PlacesKept, NamesDiffer DEF PlacedOK
      <3> QED
        BY <2>0, <3>1, NamesDiffer DEF NodesOK, SetLives, Joined, SetsOK
    <2>3. CallersOK'
      BY CallersStay
    <2>4. ProgramOK'
      BY <2>0, ProgramStays, NamesDiffer DEF ProgramOK
    <2>5. ToldOK'
      BY <2>0, ToldStays, NamesDiffer DEF ProgramOK, SetsOK
    <2> QED
      BY <2>1, <2>2, <2>3, <2>4, <2>5
  <1> QED
    BY <1>1, <1>2, <1>3

LEMMA DropKeeps ==
    ASSUME Inv, SessionInv, NEW c \in Sets, NEW t \in Threads,
           c # m_current \/ Joined, thread = "run" => c # current,
           pending = c => at = "drop", DropSet(t, c), UNCHANGED sessionVars
    PROVE  SessionInv'
  <1> USE DEF SessionInv, sessionVars
  <1>1. PICK n \in {ScopeOf(c), ContextOf(c)} : Detach(t, n) \/ Destroyed(n)
    BY DEF DropSet
  <1>2. /\ n \in Nodes /\ n # root /\ n # session /\ UNCHANGED <<calls, waiting, lock>>
        /\ cancelled \ {n} \subseteq cancelled' /\ cancelled' \subseteq cancelled
        /\ alive \ {n} \subseteq alive' /\ alive' \subseteq alive
        /\ attached' \subseteq attached
    BY <1>1, NamesDiffer DEF Detach, Destroyed
  <1>3. \A d \in Sets \ {c} : n # ScopeOf(d) /\ n # ContextOf(d)
    BY <1>1, NamesDiffer
  <1>4. SetsOK'
    BY DEF SetsOK
  <1>5. NodesOK'
    <2>1. \A m \in attached' : PlacedOK(m, m_scope'[m])
      BY <1>1, <1>2, PlacesKept
    <2>2. \A d \in Sets \ {c} : SetLives(d) => SetLives(d)'
      BY <1>2, <1>3 DEF SetLives
    <2>3. Joined' = Joined
      BY <1>2 DEF Joined
    <2> QED
      BY <1>2, <2>1, <2>2, <2>3 DEF NodesOK, SetsOK, SetLives
  <1>6. CallersOK'
    BY <1>2, CallersStay
  <1>7. ProgramOK'
    BY <1>2, ProgramStays
  <1>8. ToldOK'
    BY <1>2, <1>3, ToldStays DEF SetsOK
  <1> QED
    BY <1>4, <1>5, <1>6, <1>7, <1>8

LEMMA DestroyKeeps ==
    ASSUME Inv, SessionInv,
           DropPending \/ DropDone \/ DropCurrent \/ DetachSession \/ SessionGone
    PROVE  SessionInv'
  <1> Depth(user) = 0 <=> calls[user] = <<>>
    BY StackIsFrames, NamesDiffer
  <1> USE DEF SessionInv
  <1>1. CASE DropPending
    BY <1>1, DropKeeps, NamesDiffer DEF DropPending, SetsOK
  <1>2. CASE DropDone
    BY <1>2, DropKeeps, NamesDiffer DEF DropDone, SetsOK
  <1>3. CASE DropCurrent
    BY <1>3, DropKeeps, NamesDiffer DEF DropCurrent, SetsOK, Joined
  <1>4. CASE DetachSession
    <2> USE <1>4 DEF DetachSession, Detach
    <2>1. SetsOK'
      BY DEF SetsOK
    <2>2. NodesOK'
      <3>1. \A m \in attached' : PlacedOK(m, m_scope'[m])
        BY PlacesKept, NamesDiffer
      <3> QED
        BY <3>1, NamesDiffer DEF NodesOK, SetLives, Joined
    <2>3. CallersOK'
      BY CallersStay
    <2>4. ProgramOK'
      BY ProgramStays DEF ProgramOK
    <2>5. ToldOK'
      BY ToldStays DEF ProgramOK, ToldOK
    <2> QED
      BY <2>1, <2>2, <2>3, <2>4, <2>5
  <1>5. CASE SessionGone
    <2> USE <1>5 DEF SessionGone, Destroyed, Joined
    <2>1. SetsOK'
      BY DEF SetsOK
    <2>2. NodesOK'
      <3>1. \A m \in attached' : PlacedOK(m, m_scope'[m])
        BY PlacesKept, NamesDiffer
      <3> QED
        BY <3>1, NamesDiffer DEF NodesOK, SetLives
    <2>3. CallersOK'
      BY CallersStay
    <2>4. ProgramOK'
      BY StackIsFrames, NamesDiffer DEF ProgramOK, Depth
    <2>5. ToldOK'
      BY ToldStays DEF ProgramOK, ToldOK
    <2> QED
      BY <2>1, <2>2, <2>3, <2>4, <2>5
  <1> QED
    BY <1>1, <1>2, <1>3, <1>4, <1>5

-----------------------------------------------------------------------------
(* Steps of a stack: a call, a return, and a step of the frame on top.     *)

(* A stack that only grows by a call, or shrinks.                          *)
LEMMA CallersMove ==
    ASSUME Inv, SessionInv, UNCHANGED m_current, NEW t \in {user, stopper},
           \A u \in Threads : waiting'[u] = NoScope,
           \A u \in Threads : Depth(u)' <= (IF u = t THEN Depth(u) + 1 ELSE Depth(u)),
           \A u \in Threads : Depth(u)' \in Nat,
           \A u \in Threads : \A i \in 1..Depth(u) : i <= Depth(u)' =>
              calls'[u][i].node = calls[u][i].node,
           Depth(t)' = Depth(t) + 1 =>
              LET n == calls'[t][Depth(t) + 1].node
              IN  /\ Depth(t) = 0 => n = IF t = user THEN session ELSE root
                  /\ Depth(t) > 0 /\ Top(t).node \in Leaves =>
                        m_current # NoSet /\ n = ContextOf(m_current)
    PROVE  CallersOK'
  <1> SUFFICES ASSUME NEW u \in Threads
               PROVE  /\ Depth(u)' > 0 =>
                            \/ u = user /\ calls'[u][1].node = session
                            \/ u = stopper /\ calls'[u][1].node = root
                      /\ \A i \in 1..Depth(u)' :
                            i < Depth(u)' /\ calls'[u][i].node \in Leaves =>
                               /\ m_current # NoSet
                               /\ calls'[u][i + 1].node = ContextOf(m_current)
    BY DEF CallersOK
  <1>1. Depth(u) \in Nat /\ t \in Threads /\ user # stopper
    BY StackIsFrames, NamesDiffer
  <1>2. /\ Depth(u) > 0 => \/ u = user /\ calls[u][1].node = session
                           \/ u = stopper /\ calls[u][1].node = root
        /\ \A i \in 1..Depth(u) :
              i < Depth(u) /\ calls[u][i].node \in Leaves =>
                 m_current # NoSet /\ calls[u][i + 1].node = ContextOf(m_current)
    BY DEF SessionInv, CallersOK
  <1>3. Depth(u)' > 0 => \/ u = user /\ calls'[u][1].node = session
                         \/ u = stopper /\ calls'[u][1].node = root
    <2>1. CASE Depth(u) > 0
      BY <1>1, <1>2, <2>1
    <2>2. CASE Depth(u) = 0
      BY <1>1, <2>2
    <2> QED
      BY <1>1, <2>1, <2>2
  <1>4. ASSUME NEW i \in 1..Depth(u)', i < Depth(u)', calls'[u][i].node \in Leaves
        PROVE  m_current # NoSet /\ calls'[u][i + 1].node = ContextOf(m_current)
    <2>1. i \in 1..Depth(u) /\ calls[u][i].node \in Leaves
      BY <1>1, <1>4
    <2>2. CASE i < Depth(u)
      <3>1. i + 1 \in 1..Depth(u) /\ i + 1 <= Depth(u)'
        BY <1>1, <1>4, <2>2
      <3> QED
        BY <1>2, <2>1, <2>2, <3>1
    <2>3. CASE i = Depth(u)
      <3>1. u = t /\ Depth(t)' = Depth(t) + 1 /\ Top(t).node \in Leaves /\ Depth(t) > 0
        BY <1>1, <1>4, <2>1, <2>3 DEF Top
      <3> QED
        BY <2>3, <3>1
    <2> QED
      BY <1>1, <2>1, <2>2, <2>3
  <1> QED
    BY <1>3, <1>4

LEMMA CallKeeps ==
    ASSUME Inv, SessionInv, NEW t \in {user, stopper}, NEW f \in Frames,
           calls' = [calls EXCEPT ![t] = Push(@, f)],
           UNCHANGED <<alive, attached, cancelled, m_scope, waiting>>,
           UNCHANGED <<m_current, pending, current, thread, op>>,
           Depth(t) = 0 => f.node = IF t = user THEN session ELSE root,
           Depth(t) > 0 /\ Top(t).node \in Leaves =>
              m_current # NoSet /\ f.node = ContextOf(m_current),
           \/ at' = at /\ (t = user => Depth(user) > 0 /\ at # "locked")
           \/ t = user /\ at = "lock" /\ at' = "locked" /\ m_current # NoSet /\ f.at = "held"
           \/ t = user /\ at = "locked" /\ at' = "interrupt"
           \/ t = user /\ at = "idle" /\ at' = "stop" /\ f.at = "flag"
           \/ t = user /\ at = "cancel" /\ at' = "join" /\ f.at = "flag"
    PROVE  /\ SetsOK' /\ NodesOK' /\ CallersOK' /\ ProgramOK'
           /\ (Telling => Telling') /\ (Reaching => Reaching')
  <1> USE DEF SessionInv
  <1>1. /\ \A u \in Threads : Depth(u)' = IF u = t THEN Depth(u) + 1 ELSE Depth(u)
        /\ \A u \in Threads : \A i \in 1..Depth(u) : calls'[u][i] = calls[u][i]
        /\ calls'[t][Depth(t) + 1] = f
    BY Pushed, NamesDiffer
  <1>2. \A u \in Threads : Depth(u) \in Nat
    BY StackIsFrames
  <1>3. calls'[user] = <<>> => calls[user] = <<>> /\ t # user
    BY <1>1, <1>2, StackIsFrames, NamesDiffer, EmptySeq DEF Depth
  <1>4. t = stopper => calls'[user] = calls[user]
    BY NamesDiffer DEF Inv, ScopeTypeOK
  <1>5. SetsOK'
    BY DEF SetsOK
  <1>6. NodesOK'
    <2>1. Joined => Joined'
      BY <1>2, <1>4, StackIsFrames, NamesDiffer DEF Joined, ProgramOK
    <2> QED
      BY <2>1 DEF NodesOK, SetLives, Joined
  <1>7. CallersOK'
    <2>1. \A u \in Threads : waiting'[u] = NoScope
      BY DEF CallersOK
    <2> QED
      BY <1>1, <1>2, <2>1, CallersMove
  <1>8. ProgramOK'
    BY <1>1, <1>2, NamesDiffer DEF ProgramOK
  <1>9. ASSUME Telling
        PROVE  Telling'
    <2>0. PICK u \in Threads : \E i \in 1..Depth(u) :
            /\ calls[u][i].node = session /\ calls[u][i].at \in {"lock", "held"}
            /\ u = user => at \in {"stop", "join"}
      BY <1>9 DEF Telling
    <2>1. PICK i \in 1..Depth(u) :
            /\ calls[u][i].node = session /\ calls[u][i].at \in {"lock", "held"}
            /\ u = user => at \in {"stop", "join"}
      BY <2>0
    <2>2. i \in 1..Depth(u)' /\ calls'[u][i] = calls[u][i]
      BY <1>1, <1>2
    <2> QED
      BY <2>1, <2>2, <1>2 DEF Telling, ProgramOK
  <1>10. ASSUME Reaching
         PROVE  Reaching'
    <2>0. PICK u \in Threads : \E i \in 1..Depth(u) :
            /\ i < Depth(u) /\ calls[u][i].node = session
            /\ calls[u][i + 1].node = ContextOf(current)
      BY <1>10 DEF Reaching
    <2>1. PICK i \in 1..Depth(u) :
            /\ i < Depth(u) /\ calls[u][i].node = session
            /\ calls[u][i + 1].node = ContextOf(current)
      BY <2>0
    <2>2. /\ i \in 1..Depth(u)' /\ i < Depth(u)' /\ calls'[u][i] = calls[u][i]
          /\ calls'[u][i + 1] = calls[u][i + 1]
      BY <1>1, <1>2, <2>1
    <2> QED
      BY <2>1, <2>2 DEF Reaching
  <1> QED
    BY <1>5, <1>6, <1>7, <1>8, <1>9, <1>10

LEMMA ReturnKeeps ==
    ASSUME Inv, SessionInv, NEW t \in {user, stopper}, calls[t] # <<>>,
           calls' = [calls EXCEPT ![t] = Returned(t)],
           UNCHANGED <<alive, attached, cancelled, m_scope, waiting>>,
           UNCHANGED <<m_current, pending, current, thread, op, at, told>>,
           Top(t).node \in Leaves \cup cancelled,
           Top(t).at \in {"lock", "held"} => told,
           t = user => at \in {"stop", "join"} \/ (at = "interrupt" /\ Top(t).at # "held")
    PROVE  /\ SessionInv'
           /\ Telling /\ Top(t).at \notin {"lock", "held"} => Telling'
  <1> USE DEF SessionInv
  <1>1. /\ \A u \in Threads : Depth(u)' = IF u = t THEN Depth(u) - 1 ELSE Depth(u)
        /\ \A u \in Threads : \A i \in 1..Depth(u) : i <= Depth(u)' =>
              /\ calls'[u][i].node = calls[u][i].node
              /\ calls'[u][i].at = calls[u][i].at
    BY Popped, NamesDiffer
  <1>2. /\ \A u \in Threads : Depth(u) \in Nat
        /\ t \in Threads /\ Depth(t) > 0 /\ Top(t) = calls[t][Depth(t)]
    BY StackIsFrames, NamesDiffer DEF Top
  <1>3. SetsOK'
    BY DEF SetsOK
  <1>4. NodesOK'
    <2>1. t = stopper => calls'[user] = calls[user]
      BY NamesDiffer DEF Inv, ScopeTypeOK
    <2>2. Joined => Joined'
      BY <2>1 DEF Joined
    <2> QED
      BY <2>2 DEF NodesOK, SetLives
  <1>5. CallersOK'
    <2>1. \A u \in Threads : waiting'[u] = NoScope
      BY DEF CallersOK
    <2>2. \A u \in Threads : Depth(u)' \in Nat /\ Depth(u)' <= Depth(u)
      BY <1>1, <1>2
    <2> QED
      BY <1>1, <1>2, <2>1, <2>2, CallersMove
  <1>6. ProgramOK'
    <2>1. Depth(user)' <= Depth(user) /\ (t # user => Depth(user)' = Depth(user))
      BY <1>1, <1>2, NamesDiffer
    <2>2. Depth(user)' \in Nat
      BY <1>1, <1>2, NamesDiffer
    <2>3. Depth(user)' > 0 => calls'[user][1].at = calls[user][1].at
      BY <1>1, <1>2, <2>1, <2>2, NamesDiffer
    <2>4. t = user /\ at = "interrupt" => Depth(user)' > 0
      BY <1>1, <1>2, NamesDiffer DEF ProgramOK
    <2> QED
      BY <1>2, <2>1, <2>2, <2>3, <2>4, NamesDiffer DEF ProgramOK
  <1>7. Telling /\ Top(t).at \notin {"lock", "held"} => Telling'
    <2> SUFFICES ASSUME Telling, Top(t).at \notin {"lock", "held"}
                 PROVE  Telling'
      OBVIOUS
    <2>0. PICK u \in Threads : \E i \in 1..Depth(u) :
            /\ calls[u][i].node = session /\ calls[u][i].at \in {"lock", "held"}
            /\ u = user => at \in {"stop", "join"}
      BY DEF Telling
    <2>1. PICK i \in 1..Depth(u) :
            /\ calls[u][i].node = session /\ calls[u][i].at \in {"lock", "held"}
            /\ u = user => at \in {"stop", "join"}
      BY <2>0
    <2>2. i \in 1..Depth(u)'
      BY <1>1, <1>2, <2>1
    <2> QED
      BY <1>1, <1>2, <2>1, <2>2 DEF Telling
  <1>8. thread = "run" /\ Reaching => ContextOf(current) \in cancelled \/ Reaching'
    <2> SUFFICES ASSUME thread = "run", Reaching, ContextOf(current) \notin cancelled
                 PROVE  Reaching'
      OBVIOUS
    <2>0. PICK u \in Threads : \E i \in 1..Depth(u) :
            /\ i < Depth(u) /\ calls[u][i].node = session
            /\ calls[u][i + 1].node = ContextOf(current)
      BY DEF Reaching
    <2>1. PICK i \in 1..Depth(u) :
            /\ i < Depth(u) /\ calls[u][i].node = session
            /\ calls[u][i + 1].node = ContextOf(current)
      BY <2>0
    <2>2. ContextOf(current) \notin Leaves
      BY NamesDiffer DEF SetsOK
    <2>3. i \in 1..Depth(u)' /\ i + 1 \in 1..Depth(u) /\ i < Depth(u)'
      BY <1>1, <1>2, <2>1, <2>2
    <2>4. i + 1 <= Depth(u)'
      BY <1>1, <1>2, <2>3
    <2> QED
      BY <1>1, <1>2, <2>1, <2>3, <2>4 DEF Reaching
  <1>9. ToldOK'
    BY <1>7, <1>8 DEF ToldOK
  <1> QED
    BY <1>3, <1>4, <1>5, <1>6, <1>7, <1>9

LEMMA TurnKeeps ==
    ASSUME Inv, SessionInv, NEW t \in {user, stopper},
           (SetFlag(t) /\ Top(t).node \notin cancelled) \/ TakeLock(t) \/ ScopeDone(t),
           UNCHANGED sessionVars
    PROVE  /\ SessionInv'
           /\ session \in cancelled' /\ (session \in cancelled => Telling) => Telling'
  <1> USE DEF SessionInv, sessionVars
  <1>1. PICK f \in Frames :
          /\ TopBecomes(t, f)
          /\ \/ Top(t).at = "flag" /\ f.at = "lock"
                /\ cancelled' = cancelled \cup {Top(t).node}
             \/ /\ Top(t).at \in {"lock", "children"} /\ cancelled' = cancelled
                /\ Top(t).at = "lock" => f.at \in {"held", "children"}
                /\ Top(t).at = "lock" /\ Top(t).node \in Leaves => f.at = "held"
    BY TopTurns, NamesDiffer
  <1>2. /\ \A u \in Threads :
             /\ Depth(u)' = Depth(u)
             /\ \A i \in 1..Depth(u) :
                  /\ calls'[u][i].node = calls[u][i].node
                  /\ u # t \/ i # Depth(t) => calls'[u][i] = calls[u][i]
        /\ Depth(t) \in 1..Depth(t) /\ calls'[t][Depth(t)] = f
    BY <1>1, TopMoves, NamesDiffer
  <1>3. /\ \A u \in Threads : Depth(u) \in Nat
        /\ t \in Threads /\ Depth(t) > 0 /\ Top(t) = calls[t][Depth(t)]
        /\ f.node = Top(t).node /\ calls[t] # <<>>
    BY <1>1, <1>2, StackIsFrames, NamesDiffer DEF Top, TopBecomes
  <1>4. /\ UNCHANGED <<alive, attached, m_scope>>
        /\ \A u \in Threads : waiting'[u] = NoScope
    BY DEF SetFlag, TakeLock, ScopeDone, CallersOK
  <1>5. SetsOK'
    BY DEF SetsOK
  <1>6. NodesOK'
    <2>1. t = stopper => calls'[user] = calls[user]
      BY <1>1, NamesDiffer DEF Inv, ScopeTypeOK, TopBecomes
    <2>2. Joined => Joined'
      BY <1>3, <2>1 DEF Joined
    <2> QED
      BY <1>4, <2>2 DEF NodesOK, SetLives
  <1>7. CallersOK'
    <2>1. \A u \in Threads : Depth(u)' \in Nat /\ Depth(u)' <= Depth(u)
      BY <1>2, <1>3
    <2> QED
      BY <1>2, <1>3, <1>4, <2>1, CallersMove
  <1>8. t = user => /\ at \in {"interrupt", "stop", "join"}
                    /\ at = "interrupt" => /\ calls[user][1].at = "held" /\ Depth(user) > 1
                                           /\ Top(user).node # session
    <2> SUFFICES ASSUME t = user
                 PROVE  /\ at \in {"interrupt", "stop", "join"}
                        /\ at = "interrupt" => /\ calls[user][1].at = "held" /\ Depth(user) > 1
                                               /\ Top(user).node # session
      OBVIOUS
    <2>1. Top(user).at # "held" /\ calls[user] = calls[t]
      BY <1>1
    <2>2. at \in {"interrupt", "stop", "join"}
      BY <1>3, <2>1 DEF ProgramOK
    <2>3. ASSUME at = "interrupt"
          PROVE  /\ calls[user][1].at = "held" /\ Depth(user) > 1
                 /\ Top(user).node # session
      <3>1. calls[user][1].at = "held" /\ Depth(user) > 1 /\ 1 \in 1..Depth(user)
        BY <1>3, <2>1, <2>3, NamesDiffer DEF ProgramOK
      <3>2. calls[user][1].node = session
        BY <1>3, <3>1, NamesDiffer DEF CallersOK
      <3>3. m_current \in Sets /\ calls[user][1 + 1].node = ContextOf(m_current)
        BY <3>1, <3>2, NamesDiffer DEF CallersOK, SetsOK
      <3>4. 1 + 1 \in 1..Depth(user)
        BY <1>3, <3>1
      <3>5. 1 + 1 = Depth(user)
        BY <3>3, <3>4, ContextIsLast, NamesDiffer
      <3> QED
        BY <1>3, <3>1, <3>3, <3>5, NamesDiffer
    <2> QED
      BY <2>2, <2>3
  <1>9. ProgramOK'
    <2>2. Depth(user)' = Depth(user)
      BY <1>2, NamesDiffer
    <2>3. at \in {"locked", "interrupt"} => calls'[user][1] = calls[user][1]
      BY <1>2, <1>3, <1>8, NamesDiffer DEF ProgramOK
    <2>4. ASSUME at \in {"stop", "join"}, Depth(user) > 0, calls'[user][1].at # "flag"
          PROVE  session \in cancelled'
      <3>1. CASE calls[user][1].at # "flag"
        BY <1>1, <2>4, <3>1 DEF ProgramOK
      <3>2. CASE calls[user][1].at = "flag"
        <4>1. t = user /\ Depth(user) = 1
          BY <1>2, <1>3, <2>4, <3>2, NamesDiffer
        <4>2. Top(t).node = session /\ Top(t).at = "flag"
          BY <1>3, <3>2, <4>1, NamesDiffer DEF CallersOK
        <4> QED
          BY <1>1, <4>2
      <3> QED
        BY <3>1, <3>2
    <2> QED
      BY <2>2, <2>3, <2>4 DEF ProgramOK
  <1>10. session \in cancelled /\ Telling => Telling'
    <2> SUFFICES ASSUME Telling
                 PROVE  Telling'
      OBVIOUS
    <2>0. PICK u \in Threads : \E i \in 1..Depth(u) :
            /\ calls[u][i].node = session /\ calls[u][i].at \in {"lock", "held"}
            /\ u = user => at \in {"stop", "join"}
      BY DEF Telling
    <2>1. PICK i \in 1..Depth(u) :
            /\ calls[u][i].node = session /\ calls[u][i].at \in {"lock", "held"}
            /\ u = user => at \in {"stop", "join"}
      BY <2>0
    <2>2. i \in 1..Depth(u)' /\ calls'[u][i].node = session
      BY <1>2, <2>1
    <2>3. calls'[u][i].at \in {"lock", "held"}
      <3>1. CASE u # t \/ i # Depth(t)
        BY <1>2, <2>1, <3>1
      <3>2. CASE u = t /\ i = Depth(t)
        BY <1>1, <1>2, <1>3, <2>1, <3>2, NamesDiffer
      <3> QED
        BY <3>1, <3>2
    <2> QED
      BY <2>1, <2>2, <2>3 DEF Telling
  <1>11. session \in cancelled' /\ session \notin cancelled => Telling'
    <2> SUFFICES ASSUME session \in cancelled', session \notin cancelled
                 PROVE  Telling'
      OBVIOUS
    <2>1. Top(t).node = session /\ f.at = "lock"
      BY <1>1
    <2>2. t = user => at' \in {"stop", "join"}
      BY <1>8, <2>1
    <2>3. /\ Depth(t) \in 1..Depth(t)' /\ calls'[t][Depth(t)].node = session
          /\ calls'[t][Depth(t)].at = "lock"
      BY <1>2, <1>3, <2>1
    <2> QED
      BY <1>3, <2>2, <2>3 DEF Telling
  <1>12. Reaching => Reaching'
    <2> SUFFICES ASSUME Reaching
                 PROVE  Reaching'
      OBVIOUS
    <2>0. PICK u \in Threads : \E i \in 1..Depth(u) :
            /\ i < Depth(u) /\ calls[u][i].node = session
            /\ calls[u][i + 1].node = ContextOf(current)
      BY DEF Reaching
    <2>1. PICK i \in 1..Depth(u) :
            /\ i < Depth(u) /\ calls[u][i].node = session
            /\ calls[u][i + 1].node = ContextOf(current)
      BY <2>0
    <2>2. /\ i \in 1..Depth(u)' /\ i < Depth(u)' /\ calls'[u][i].node = session
          /\ i + 1 \in 1..Depth(u)
      BY <1>2, <1>3, <2>1
    <2> QED
      BY <1>2, <2>1, <2>2 DEF Reaching
  <1>13. ToldOK'
    <2>1. cancelled \subseteq cancelled'
      BY <1>1
    <2> QED
      BY <1>10, <1>11, <1>12, <2>1 DEF ToldOK
  <1> QED
    BY <1>5, <1>6, <1>7, <1>9, <1>10, <1>11, <1>13

-----------------------------------------------------------------------------
(* The steps of cancel().                                                  *)

LEMMA CancelCallsKeep ==
    ASSUME Inv, SessionInv,
           CancelCommand \/ CancelContext \/ StopSession \/ CancelSession \/ CancelProgram
    PROVE  SessionInv' /\ (Telling => Telling')
  <1> USE DEF SessionInv, UserMoves, Calls
  <1>0. Depth(user) = 0 <=> calls[user] = <<>>
    BY StackIsFrames, NamesDiffer
  <1>1. CASE CancelCommand
    <2>1. PICK f \in Frames : f = Frame(session, "held", NoException)
                              /\ f.node = session /\ f.at = "held"
      BY FrameIsFrame, NamesDiffer
    <2>2. calls' = [calls EXCEPT ![user] = Push(@, f)]
      BY <1>1, <2>1 DEF CancelCommand, Enter
    <2>3. /\ UNCHANGED <<alive, attached, cancelled, m_scope, waiting>> /\ Depth(user) = 0
          /\ UNCHANGED <<m_current, pending, current, thread, op, told>>
          /\ at = "lock" /\ at' = "locked" /\ m_current # NoSet
      BY <1>0, <1>1 DEF CancelCommand, Enter, Idle
    <2>4. user \in {user, stopper} /\ ~(Depth(user) > 0)
      BY <2>3
    <2>5. /\ SetsOK' /\ NodesOK' /\ CallersOK' /\ ProgramOK'
          /\ (Telling => Telling') /\ (Reaching => Reaching')
      BY <2>1, <2>2, <2>3, <2>4, CallKeeps
    <2> QED
      BY <2>3, <2>5 DEF ToldOK
  <1>2. ASSUME NEW t \in {user, stopper}, NEW n \in Nodes,
               NEW e \in Exceptions \cup {NoException}, CallCancel(t, n, e),
               UNCHANGED <<m_current, pending, current, thread, op, told>>,
               Depth(t) = 0 => n = IF t = user THEN session ELSE root,
               Depth(t) > 0 => m_current # NoSet /\ n = ContextOf(m_current),
               \/ at' = at /\ t = stopper
               \/ t = user /\ at = "locked" /\ at' = "interrupt"
               \/ t = user /\ at = "idle" /\ at' = "stop"
               \/ t = user /\ at = "cancel" /\ at' = "join"
        PROVE  SessionInv' /\ (Telling => Telling')
    <2>1. PICK f \in Frames : f = Frame(n, "flag", e) /\ f.node = n /\ f.at = "flag"
      BY FrameIsFrame
    <2>2. /\ calls' = [calls EXCEPT ![t] = Push(@, f)]
          /\ UNCHANGED <<alive, attached, cancelled, m_scope, waiting>>
      BY <1>2, <2>1 DEF CallCancel
    <2>3. /\ SetsOK' /\ NodesOK' /\ CallersOK' /\ ProgramOK'
          /\ (Telling => Telling') /\ (Reaching => Reaching')
      BY <1>2, <2>1, <2>2, CallKeeps, NamesDiffer
    <2> QED
      BY <1>2, <2>2, <2>3 DEF ToldOK
  <1>3. CASE CancelContext
    <2>1. m_current \in Sets /\ Depth(user) = 1 /\ ContextOf(m_current) \in Nodes
      BY <1>3, NamesDiffer DEF CancelContext, ProgramOK, SetsOK
    <2>2. /\ CallCancel(user, ContextOf(m_current), NoException)
          /\ UNCHANGED <<m_current, pending, current, thread, op, told>>
          /\ at = "locked" /\ at' = "interrupt"
      BY <1>3 DEF CancelContext
    <2> QED
      BY <1>2, <2>1, <2>2, NamesDiffer
  <1>4. CASE StopSession \/ CancelSession
    <2>1. Depth(user) = 0
      BY <1>4 DEF StopSession, CancelSession, ProgramOK
    <2> QED
      BY <1>2, <1>4, <2>1, NamesDiffer DEF StopSession, CancelSession
  <1>5. CASE CancelProgram
    <2>1. Depth(stopper) = 0
      BY <1>5, StackIsFrames, NamesDiffer DEF CancelProgram
    <2>2. PICK e \in Exceptions : CallCancel(stopper, root, e)
      BY <1>5 DEF CancelProgram
    <2>3. UNCHANGED sessionVars
      BY <1>5 DEF CancelProgram
    <2> QED
      BY <1>2, <2>1, <2>2, <2>3, NamesDiffer DEF sessionVars
  <1> QED
    BY <1>1, <1>3, <1>4, <1>5

(* A thread that is in cancel() has set the flag.                          *)
LEMMA InCancelSession ==
    ASSUME Inv, SessionInv, NEW t \in {user, stopper}, InCancel(t)
    PROVE  /\ t \in Threads /\ calls[t] # <<>> /\ Depth(t) \in 1..Depth(t)
           /\ Top(t) = calls[t][Depth(t)] /\ Top(t).node = session /\ Top(t).at = "held"
           /\ session \in cancelled /\ session \in alive /\ at # "none" /\ ~Joined
  <1>1. /\ t \in Threads /\ calls[t] # <<>> /\ Depth(t) \in 1..Depth(t)
        /\ Top(t) = calls[t][Depth(t)] /\ Top(t).node = session /\ Top(t).at = "held"
    BY TopInStack, NamesDiffer DEF Inv, InCancel, TopIs
  <1>2. FrameOK(t, Depth(t))
    BY <1>1 DEF Inv, StacksOK
  <1>3. session \in cancelled
    <2>1. CASE Depth(t) > 1
      BY <1>1, <1>2, <2>1 DEF FrameOK
    <2>2. CASE Depth(t) = 1
      <3>1. t = user
        BY <1>1, <2>2, NamesDiffer DEF SessionInv, CallersOK
      <3> QED
        BY <1>1, <2>2, <3>1, NamesDiffer DEF SessionInv, ProgramOK, InCancel
    <2> QED
      BY <1>1, <2>1, <2>2
  <1>4. session \in alive
    BY <1>1, <1>2 DEF FrameOK
  <1> QED
    BY <1>1, <1>3, <1>4, NobodyInSession DEF SessionInv, NodesOK

LEMMA TellCurrentKeeps ==
    ASSUME Inv, SessionInv, NEW t \in {user, stopper}, TellCurrent(t)
    PROVE  SessionInv' /\ (Telling => Telling')
  <1>1. InCancel(t) /\ UNCHANGED <<m_current, pending, current, thread, op, at>>
    BY DEF TellCurrent
  <1>2. /\ t \in Threads /\ calls[t] # <<>> /\ Depth(t) \in 1..Depth(t)
        /\ Top(t) = calls[t][Depth(t)] /\ Top(t).node = session /\ Top(t).at = "held"
        /\ session \in cancelled /\ at # "none"
    BY <1>1, InCancelSession
  <1>3. CASE m_current = NoSet
    <2>1. UNCHANGED scopeVars
      BY <1>3 DEF TellCurrent
    <2>2. SetsOK'
      BY <1>1 DEF SessionInv, SetsOK
    <2>3. NodesOK'
      BY <1>1, <2>1 DEF SessionInv, NodesOK, SetLives, Joined, scopeVars
    <2>4. CallersOK' /\ ProgramOK'
      BY <1>1, <2>1, CallersStay, ProgramStays DEF scopeVars
    <2>5. thread' # "run"
      BY <1>1, <1>3 DEF SessionInv, SetsOK
    <2>6. session \in cancelled' /\ at' # "none" /\ told'
      BY <1>1, <1>2, <2>1 DEF scopeVars, TellCurrent
    <2>7. ToldOK'
      BY <2>5, <2>6 DEF ToldOK
    <2>8. Telling => Telling'
      BY <1>1, <2>1, TellersStay DEF scopeVars
    <2> QED
      BY <2>2, <2>3, <2>4, <2>7, <2>8 DEF SessionInv
  <1>4. CASE m_current # NoSet
    <2>1. m_current \in Sets /\ ContextOf(m_current) \in Nodes
      BY <1>4, NamesDiffer DEF SessionInv, SetsOK
    <2>2. Top(t).exc \in Exceptions \cup {NoException}
      BY <1>2, TopInStack DEF Inv
    <2>3. PICK f \in Frames : /\ f = Frame(ContextOf(m_current), "flag", Top(t).exc)
                              /\ f.node = ContextOf(m_current) /\ f.at = "flag"
      BY <2>1, <2>2, FrameIsFrame
    <2>4. /\ calls' = [calls EXCEPT ![t] = Push(@, f)]
          /\ UNCHANGED <<alive, attached, cancelled, m_scope, waiting>> /\ told'
      BY <1>4, <2>3 DEF TellCurrent, CallCancel
    <2>5. Depth(t) # 0 /\ (t = user => Depth(user) > 0 /\ at # "locked")
      BY <1>1, <1>2, NamesDiffer DEF InCancel
    <2>6. /\ SetsOK' /\ NodesOK' /\ CallersOK' /\ ProgramOK'
          /\ (Telling => Telling') /\ (Reaching => Reaching')
      BY <1>1, <1>2, <1>4, <2>3, <2>4, <2>5, CallKeeps
    <2>7. thread' = "run" => Reaching'
      <3>1. thread' = "run" => current' = m_current
        BY <1>1 DEF SessionInv, SetsOK
      <3>2. /\ Depth(t)' = Depth(t) + 1 /\ calls'[t][Depth(t) + 1] = f
            /\ calls'[t][Depth(t)] = calls[t][Depth(t)]
        BY <1>2, <2>4, Pushed
      <3>3. Depth(t) \in 1..Depth(t)' /\ Depth(t) < Depth(t)'
        BY <1>2, <3>2
      <3>4. calls'[t][Depth(t)].node = session
        BY <1>2, <3>2
      <3> DEFINE d == Depth(t)
      <3> HIDE DEF d
      <3>5. \E d1 \in 1..Depth(t)' : /\ d1 < Depth(t)' /\ calls'[t][d1].node = session
                                     /\ calls'[t][d1 + 1].node = ContextOf(m_current)
        BY <2>3, <3>2, <3>3, <3>4
      <3> QED
        BY <1>2, <3>1, <3>5 DEF Reaching
    <2>8. ToldOK'
      BY <1>1, <1>2, <2>4, <2>7 DEF ToldOK
    <2> QED
      BY <2>6, <2>8 DEF SessionInv
  <1> QED
    BY <1>3, <1>4

LEMMA CancelStepKeeps ==
    ASSUME Inv, SessionInv, NEW t \in {user, stopper}, CancelStep(t)
    PROVE  /\ SessionInv'
           /\ session \in cancelled' /\ (session \in cancelled => Telling)
                 => Telling' \/ SessionCancelled(t)
  <1>0. t \in Threads
    BY NamesDiffer
  <1>1. CASE /\ (SetFlag(t) /\ Top(t).node \notin cancelled) \/ TakeLock(t) \/ ScopeDone(t)
             /\ UNCHANGED sessionVars
    BY <1>1, TurnKeeps
  <1>2. ASSUME TopIs(t, "flag") \/ TopIs(t, "after") \/ TopIs(t, "children")
        PROVE  /\ calls[t] # <<>> /\ Depth(t) > 0 /\ Depth(t) \in 1..Depth(t)
               /\ Top(t) = calls[t][Depth(t)] /\ Top(t) \in Frames
               /\ t = user => at \in {"interrupt", "stop", "join"}
    <2>1. /\ calls[t] # <<>> /\ Depth(t) > 0 /\ Depth(t) \in 1..Depth(t)
          /\ Top(t) = calls[t][Depth(t)] /\ Top(t) \in Frames
      BY <1>0, <1>2, TopInStack DEF TopIs, Inv
    <2> QED
      BY <1>2, <2>1 DEF TopIs, SessionInv, ProgramOK
  <1>3. CASE SetFlag(t) /\ Top(t).node \in cancelled /\ UNCHANGED sessionVars
    <2>1. /\ TopIs(t, "flag") /\ calls' = [calls EXCEPT ![t] = Returned(t)]
          /\ UNCHANGED <<alive, attached, cancelled, m_scope, waiting>>
      BY <1>3 DEF SetFlag
    <2> QED
      BY <1>2, <1>3, <2>1, ReturnKeeps DEF sessionVars, TopIs
  <1>4. CASE CancelReturns(t)
    <2>1. /\ TopIs(t, "after") /\ calls' = [calls EXCEPT ![t] = Returned(t)]
          /\ UNCHANGED <<alive, attached, cancelled, m_scope, waiting>>
          /\ UNCHANGED <<m_current, pending, current, thread, op, at, told>>
      BY <1>4 DEF CancelReturns, Return
    <2>2. FrameOK(t, Depth(t))
      BY <1>0, <1>2, <2>1 DEF Inv, StacksOK
    <2>3. Top(t).node \in cancelled
      BY <1>2, <2>1, <2>2 DEF FrameOK, TopIs
    <2> QED
      BY <1>2, <2>1, <2>3, ReturnKeeps DEF TopIs
  <1>5. CASE SessionCancelled(t)
    <2>1. /\ InCancel(t) /\ told /\ calls' = [calls EXCEPT ![t] = Returned(t)]
          /\ UNCHANGED <<alive, attached, cancelled, m_scope, waiting>>
          /\ UNCHANGED <<m_current, pending, current, thread, op, at, told>>
      BY <1>5 DEF SessionCancelled, Leave
    <2>2. calls[t] # <<>> /\ Top(t).node \in cancelled
      BY <2>1, InCancelSession
    <2>3. t = user => at \in {"stop", "join"}
      BY <2>1, NamesDiffer DEF InCancel
    <2> QED
      BY <1>5, <2>1, <2>2, <2>3, ReturnKeeps
  <1>6. CASE CancelChild(t) /\ UNCHANGED sessionVars
    <2>1. TopIs(t, "children") /\ UNCHANGED <<alive, attached, cancelled, m_scope, waiting>>
      BY <1>6 DEF CancelChild
    <2>2. PICK n \in Top(t).todo :
            calls' = [calls EXCEPT ![t] = Push(@, Frame(n, "flag", Top(t).exc))]
      BY <1>6 DEF CancelChild
    <2>3. n \in Nodes /\ Top(t).exc \in Exceptions \cup {NoException}
      BY <1>2, <2>1, <2>2 DEF Frames
    <2>4. PICK f \in Frames : f = Frame(n, "flag", Top(t).exc)
      BY <2>3, FrameIsFrame
    <2>5. FrameOK(t, Depth(t))
      BY <1>0, <1>2, <2>1 DEF Inv, StacksOK
    <2>6. Top(t).node \notin Leaves
      BY <1>2, <2>1, <2>5, NamesDiffer DEF FrameOK, TopIs
    <2>7. t = user => Depth(user) > 0 /\ at # "locked"
      BY <1>2, <2>1
    <2>8. Depth(t) # 0
      BY <1>2, <2>1
    <2>9. UNCHANGED <<m_current, pending, current, thread, op, at, told>>
      BY <1>6 DEF sessionVars
    <2>10. /\ SetsOK' /\ NodesOK' /\ CallersOK' /\ ProgramOK'
           /\ (Telling => Telling') /\ (Reaching => Reaching')
      BY <2>1, <2>2, <2>4, <2>6, <2>7, <2>8, <2>9, CallKeeps
    <2>11. ToldOK'
      BY <2>1, <2>9, <2>10 DEF SessionInv, ToldOK
    <2> QED
      BY <2>1, <2>10, <2>11 DEF SessionInv
  <1>7. CASE TellCurrent(t)
    <2>1. InCancel(t) /\ (m_current = NoSet => UNCHANGED cancelled)
          /\ (m_current # NoSet => UNCHANGED cancelled)
      BY <1>7 DEF TellCurrent, CallCancel, scopeVars
    <2> QED
      BY <1>7, <2>1, TellCurrentKeeps
  <1> QED
    BY <1>1, <1>3, <1>4, <1>5, <1>6, <1>7 DEF CancelStep

LEMMA InterruptKeeps ==
    ASSUME Inv, SessionInv, Interrupt
    PROVE  SessionInv' /\ (Telling => Telling')
  <1>1. /\ user \in Threads /\ calls[user] # <<>> /\ Depth(user) \in Nat \ {0}
        /\ Top(user) = calls[user][Depth(user)] /\ Top(user).at = "held"
    BY TopInStack, NamesDiffer DEF Inv, Interrupt, TopIs
  <1>2. /\ calls' = [calls EXCEPT ![user] = Returned(user)]
        /\ UNCHANGED <<alive, attached, cancelled, m_scope, waiting>>
        /\ UNCHANGED <<m_current, pending, current, thread, told>>
        /\ at = "interrupt" /\ at' \in {"asleep", "drop"}
        /\ at' = "asleep" => op' = op
        /\ at' = "drop" => op' = "throw"
    BY DEF Interrupt, Leave
  <1>3. Depth(user) = 1
    <2> SUFFICES ASSUME Depth(user) > 1
                 PROVE  FALSE
      BY <1>1
    <2>1. 1 \in 1..Depth(user) /\ calls[user][1].node = session
      BY <1>1, NamesDiffer DEF SessionInv, CallersOK
    <2>2. m_current \in Sets /\ calls[user][1 + 1].node = ContextOf(m_current)
      BY <1>1, <2>1, NamesDiffer DEF SessionInv, CallersOK, SetsOK
    <2>3. 1 + 1 \in 1..Depth(user)
      BY <1>1
    <2>4. 1 + 1 = Depth(user)
      BY <1>1, <2>2, <2>3, ContextIsLast DEF SessionInv
    <2>5. FrameOK(user, Depth(user))
      BY <1>1, <2>3, <2>4 DEF Inv, StacksOK
    <2> QED
      BY <1>1, <2>2, <2>4, <2>5, NamesDiffer DEF FrameOK
  <1>4. /\ \A u \in Threads : Depth(u)' = IF u = user THEN 0 ELSE Depth(u)
        /\ \A u \in Threads : \A i \in 1..Depth(u) : i <= Depth(u)' =>
              /\ calls'[u][i].node = calls[u][i].node
              /\ calls'[u][i].at = calls[u][i].at
    <2>1. /\ \A u \in Threads : Depth(u)' = IF u = user THEN Depth(u) - 1 ELSE Depth(u)
          /\ \A u \in Threads : \A i \in 1..Depth(u) : i <= Depth(u)' =>
                /\ calls'[u][i].node = calls[u][i].node
                /\ calls'[u][i].at = calls[u][i].at
      BY <1>1, <1>2, Popped
    <2> QED
      BY <1>3, <2>1
  <1>5. \A u \in Threads : Depth(u) \in Nat
    BY StackIsFrames
  <1>6. SetsOK'
    BY <1>2 DEF SessionInv, SetsOK
  <1>7. NodesOK'
    BY <1>2 DEF SessionInv, NodesOK, SetLives, Joined
  <1>8. CallersOK'
    <2>1. \A u \in Threads : waiting'[u] = NoScope
      BY <1>2 DEF SessionInv, CallersOK
    <2> QED
      BY <1>1, <1>2, <1>3, <1>4, <1>5, <2>1, CallersMove
  <1>9. ProgramOK'
    BY <1>1, <1>2, <1>4 DEF ProgramOK
  <1>10. Telling => Telling'
    <2> SUFFICES ASSUME Telling
                 PROVE  Telling'
      OBVIOUS
    <2>0. PICK u \in Threads : \E i \in 1..Depth(u) :
            /\ calls[u][i].node = session /\ calls[u][i].at \in {"lock", "held"}
            /\ u = user => at \in {"stop", "join"}
      BY DEF Telling
    <2>1. PICK i \in 1..Depth(u) :
            /\ calls[u][i].node = session /\ calls[u][i].at \in {"lock", "held"}
            /\ u = user => at \in {"stop", "join"}
      BY <2>0
    <2>2. u # user /\ i \in 1..Depth(u)' /\ i <= Depth(u)'
      BY <1>2, <1>4, <1>5, <2>1
    <2> QED
      BY <1>4, <2>1, <2>2 DEF Telling
  <1>11. Reaching => Reaching'
    <2> SUFFICES ASSUME Reaching
                 PROVE  Reaching'
      OBVIOUS
    <2>0. PICK u \in Threads : \E i \in 1..Depth(u) :
            /\ i < Depth(u) /\ calls[u][i].node = session
            /\ calls[u][i + 1].node = ContextOf(current)
      BY DEF Reaching
    <2>1. PICK i \in 1..Depth(u) :
            /\ i < Depth(u) /\ calls[u][i].node = session
            /\ calls[u][i + 1].node = ContextOf(current)
      BY <2>0
    <2>2. /\ u # user /\ i \in 1..Depth(u)' /\ i < Depth(u)'
          /\ i + 1 \in 1..Depth(u) /\ i + 1 <= Depth(u)' /\ i <= Depth(u)'
      BY <1>3, <1>4, <1>5, <2>1
    <2> QED
      BY <1>2, <1>4, <2>1, <2>2 DEF Reaching
  <1>12. ToldOK'
    BY <1>2, <1>10, <1>11 DEF SessionInv, ToldOK
  <1> QED
    BY <1>6, <1>7, <1>8, <1>9, <1>10, <1>12 DEF SessionInv

-----------------------------------------------------------------------------
(* Who sleeps on m_cv.                                                     *)

SleepersOK ==
    /\ NobodyOversleeps
    /\ \A t \in asleep : \/ t = commander /\ thread = "look"
                         \/ t = user /\ at = "asleep"
    /\ at \in {"locked", "interrupt"} => m_current # NoSet

(* While the program has the lock of the session, no other step takes it.  *)
LEMMA ProgramHasLock ==
    ASSUME Inv, SessionInv, at \in {"locked", "interrupt"}
    PROVE  lock[session] # NoThread /\ ~Joined
  <1>1. 1 \in 1..Depth(user) /\ calls[user][1].at = "held" /\ calls[user][1].node = session
    BY StackIsFrames, NamesDiffer DEF SessionInv, ProgramOK, CallersOK
  <1>2. lock[session] = user
    BY <1>1, NamesDiffer DEF Inv, StacksOK, FrameOK, HoldsLock
  <1> QED
    BY <1>2, NamesDiffer, ScopeAssumption DEF Joined

(* A step that lets nobody sleep who did not, and takes away nobody who    *)
(* will notify them.                                                       *)
LEMMA SleepersStay ==
    ASSUME SleepersOK, asleep' \subseteq asleep,
           m_current' = m_current \/ asleep' = {},
           thread' = thread \/ commander \notin asleep',
           (at' = at /\ op' = op) \/ user \notin asleep',
           at' \in {"locked", "interrupt"} => m_current' # NoSet,
           session \in cancelled' /\ (session \in cancelled => Telling) => Telling'
    PROVE  SleepersOK'
  <1>1. ASSUME NEW t \in asleep'
        PROVE  /\ t = commander => m_current' = NoSet
               /\ t = user => m_current' # NoSet
               /\ session \in cancelled' => Telling' \/ (t = user /\ op' = "wait")
               /\ \/ t = commander /\ thread' = "look"
                  \/ t = user /\ at' = "asleep"
    <2>1. t \in asleep /\ m_current' = m_current
      BY <1>1
    <2> QED
      BY <1>1, <2>1, NamesDiffer DEF SleepersOK, NobodyOversleeps
  <1> QED
    BY <1>1 DEF SleepersOK, NobodyOversleeps

(* Steps that call nothing.                                                *)
LEMMA NoCallKeepsSleepers ==
    ASSUME Inv, SessionInv, SleepersOK,
           \/ Construct \/ ConstructThrows \/ Dispatch \/ DispatchThrows
           \/ BuildContext \/ BuildContextThrows \/ StopCommand \/ GoOn \/ DropPending
           \/ CallOver \/ Wait \/ WaitOver \/ SessionStopped \/ DetachSession
           \/ DropCurrent \/ SessionGone \/ MoveDone \/ DropDone \/ DoneGone
           \/ CommandStep \/ SerialStops
    PROVE  SleepersOK'
  <1>1. UNCHANGED calls /\ cancelled' \subseteq cancelled
    BY DEF Construct, ConstructThrows, Dispatch, DispatchThrows, BuildContext,
           BuildContextThrows, StopCommand, GoOn, DropPending, CallOver, Wait, WaitOver,
           SessionStopped, DetachSession, DropCurrent, SessionGone, MoveDone, DropDone,
           DoneGone, CommandStep, CommandEnds, CommandThrows, SerialStops, HasLock,
           DropSet, Attach, Constructed, Detach, Destroyed, scopeVars
  <1>2. /\ asleep' \in {asleep, {}}
        /\ m_current' = m_current \/ asleep' = {} \/ Joined
        /\ thread' = thread \/ thread # "look"
        /\ (at' = at /\ op' = op) \/ (at # "asleep" /\ at' \notin {"locked", "interrupt"})
           \/ (user \notin asleep /\ at' \notin {"locked", "interrupt"})
        /\ at' = at \/ at \notin {"locked", "interrupt", "stop", "join"}
           \/ calls[user] = <<>>
    BY DEF Construct, ConstructThrows, Dispatch, DispatchThrows, BuildContext,
           BuildContextThrows, StopCommand, GoOn, Store, MayGoOn, DropPending, CallOver, Wait, WaitOver,
           SessionStopped, DetachSession, DropCurrent, SessionGone, MoveDone, DropDone,
           DoneGone, CommandStep, CommandEnds, CommandThrows, SerialStops, UserMoves,
           ThreadMoves, Joined, sessionVars, Awake, Calls
  <1>3. at' = at \/ Depth(user) = 0
    BY <1>2, StackIsFrames, NamesDiffer DEF SessionInv, ProgramOK
  <1>4. Telling => Telling'
    BY <1>1, <1>3, TellersStay
  <1>5. at' \in {"locked", "interrupt"} => m_current' # NoSet
    <2> SUFFICES ASSUME at' \in {"locked", "interrupt"}
                 PROVE  m_current' # NoSet
      OBVIOUS
    <2>1. at' = at /\ lock[session] # NoThread /\ ~Joined /\ m_current # NoSet
      BY <1>2, ProgramHasLock DEF SleepersOK
    <2>2. m_current' = m_current
      BY <2>1 DEF Construct, ConstructThrows, Dispatch, DispatchThrows, BuildContext,
           BuildContextThrows, StopCommand, GoOn, DropPending, CallOver, Wait, WaitOver,
           SessionStopped, DetachSession, DropCurrent, SessionGone, MoveDone, DropDone,
           DoneGone, CommandStep, CommandEnds, CommandThrows, SerialStops, HasLock, sessionVars
    <2> QED
      BY <2>1, <2>2
  <1>6. Joined => asleep = {}
    BY DEF SleepersOK, Joined
  <1>7. /\ thread' = thread \/ commander \notin asleep'
        /\ (at' = at /\ op' = op) \/ user \notin asleep'
    BY <1>2, NamesDiffer DEF SleepersOK
  <1>8. asleep' \subseteq asleep /\ (m_current' = m_current \/ asleep' = {})
    BY <1>2, <1>6
  <1> QED
    BY <1>1, <1>4, <1>5, <1>7, <1>8, SleepersStay

(* Steps of those who go to sleep.                                         *)
LEMMA SleepKeepsSleepers ==
    ASSUME Inv, SessionInv, SleepersOK, SleepAgain \/ TakeCommand
    PROVE  SleepersOK'
  <1>1. UNCHANGED <<calls, cancelled, at, op, m_current>>
    BY DEF SleepAgain, TakeCommand, HasLock, scopeVars
  <1>2. Telling' = Telling
    BY <1>1 DEF Telling, Depth
  <1>3. CASE SleepAgain
    <2>1. /\ asleep' = asleep \cup {user} /\ thread' = thread /\ at = "asleep"
          /\ m_current # NoSet /\ (op = "wait" \/ session \notin cancelled)
      BY <1>3 DEF SleepAgain
    <2> QED
      BY <1>1, <1>2, <2>1, NamesDiffer DEF SleepersOK, NobodyOversleeps
  <1>4. CASE TakeCommand
    <2>1. commander \notin asleep /\ thread = "look"
      BY <1>4 DEF TakeCommand, Awake
    <2>2. CASE asleep' = asleep
      BY <1>1, <1>2, <2>1, <2>2, SleepersStay DEF SleepersOK
    <2>3. CASE /\ asleep' = asleep \cup {commander} /\ thread' = thread
               /\ session \notin cancelled /\ m_current = NoSet
      BY <1>1, <1>2, <2>1, <2>3, NamesDiffer DEF SleepersOK, NobodyOversleeps
    <2> QED
      BY <1>4, <2>2, <2>3 DEF TakeCommand
  <1> QED
    BY <1>3, <1>4

LEMMA InterruptKeepsSleepers ==
    ASSUME Inv, SessionInv, SleepersOK, Interrupt
    PROVE  SleepersOK'
  <1>1. /\ UNCHANGED <<cancelled, thread, m_current>> /\ at = "interrupt" /\ m_current # NoSet
        /\ \/ /\ asleep' = (IF session \in cancelled THEN asleep ELSE asleep \cup {user})
              /\ at' = "asleep" /\ op' = op
           \/ asleep' = asleep /\ at' = "drop"
    BY DEF Interrupt, Leave, SleepersOK
  <1>2. Telling => Telling'
    BY InterruptKeeps
  <1>3. user \notin asleep
    BY <1>1, NamesDiffer DEF SleepersOK
  <1>4. CASE asleep' = asleep
    BY <1>1, <1>2, <1>3, <1>4, SleepersStay
  <1>5. CASE asleep' = asleep \cup {user} /\ session \notin cancelled /\ at' = "asleep"
    BY <1>1, <1>2, <1>5, NamesDiffer DEF SleepersOK, NobodyOversleeps
  <1> QED
    BY <1>1, <1>4, <1>5

(* Steps of cancel() and of those who call it.                             *)
LEMMA CancelKeepsSleepers ==
    ASSUME Inv, SessionInv, SleepersOK,
           \/ CancelCommand \/ CancelContext \/ StopSession \/ CancelSession
           \/ CancelProgram \/ \E t \in {user, stopper} : CancelStep(t)
    PROVE  SleepersOK'
  <1>1. CASE CancelCommand \/ CancelContext \/ StopSession \/ CancelSession \/ CancelProgram
    <2>1. UNCHANGED <<cancelled, thread, m_current, asleep>>
      BY <1>1 DEF CancelCommand, CancelContext, StopSession, CancelSession, CancelProgram,
                  Enter, CallCancel, sessionVars
    <2>2. (at' = at /\ op' = op) \/ at # "asleep"
      BY <1>1 DEF CancelCommand, CancelContext, StopSession, CancelSession, CancelProgram,
                  UserMoves, sessionVars
    <2>3. at' \in {"locked", "interrupt"} => m_current # NoSet
      BY <1>1 DEF CancelCommand, CancelContext, StopSession, CancelSession, CancelProgram,
                  UserMoves, sessionVars, SleepersOK
    <2>4. user \notin asleep \/ (at' = at /\ op' = op)
      BY <2>2, NamesDiffer DEF SleepersOK
    <2>5. Telling => Telling'
      BY <1>1, CancelCallsKeep
    <2> QED
      BY <2>1, <2>3, <2>4, <2>5, SleepersStay
  <1>2. ASSUME NEW t \in {user, stopper}, CancelStep(t)
        PROVE  SleepersOK'
    <2>1. UNCHANGED <<at, op, thread, m_current>>
      BY <1>2 DEF CancelStep, TellCurrent, SessionCancelled, CancelReturns, sessionVars
    <2>2. CASE SessionCancelled(t)
      <3>1. asleep' = {}
        BY <2>2 DEF SessionCancelled
      <3> QED
        BY <2>1, <3>1 DEF SleepersOK, NobodyOversleeps
    <2>3. CASE ~SessionCancelled(t)
      <3>1. asleep' = asleep
        BY <1>2, <2>3 DEF CancelStep, TellCurrent, CancelReturns, sessionVars
      <3>2. session \in cancelled' /\ (session \in cancelled => Telling) => Telling'
        BY <1>2, <2>3, CancelStepKeeps
      <3> QED
        BY <2>1, <3>1, <3>2, SleepersStay DEF SleepersOK
    <2> QED
      BY <2>2, <2>3
  <1> QED
    BY <1>1, <1>2

LEMMA SleepersOKStays == Inv /\ SessionInv /\ SleepersOK /\ [Next]_vars => SleepersOK'
  <1> SUFFICES ASSUME Inv, SessionInv, SleepersOK, [Next]_vars
               PROVE  SleepersOK'
    OBVIOUS
  <1>1. CASE UNCHANGED vars
    <2>1. UNCHANGED <<calls, cancelled, at, op, thread, m_current, asleep>>
      BY <1>1 DEF vars, scopeVars, sessionVars
    <2>2. Telling => Telling'
      BY <2>1, TellersStay
    <2> QED
      BY <2>1, <2>2, SleepersStay DEF SleepersOK
  <1> QED
    BY <1>1, NoCallKeepsSleepers, SleepKeepsSleepers, InterruptKeepsSleepers,
       CancelKeepsSleepers DEF Next, CallStep, ThreadStep

-----------------------------------------------------------------------------
(* The theorems.                                                           *)

LEMMA SessionStarts == Init => Inv /\ SessionInv
  <1> SUFFICES ASSUME Init
               PROVE  Inv /\ SessionInv
    OBVIOUS
  <1>1. Inv
    BY InitHolds DEF Init
  <1>2. \A t \in Threads : Depth(t) = 0 /\ waiting[t] = NoScope
    BY DEF Init, ScopeInit, Depth
  <1>3. Depth(user) = 0 /\ session \notin alive /\ cancelled = {} /\ attached = {}
    BY <1>2, NamesDiffer DEF Init, ScopeInit
  <1>4. SetsOK /\ NodesOK /\ CallersOK /\ ProgramOK /\ ToldOK
    BY <1>2, <1>3, NamesDiffer
       DEF Init, SetsOK, NodesOK, CallersOK, ProgramOK, ToldOK, SetLives
  <1> QED
    BY <1>1, <1>4 DEF SessionInv

LEMMA SessionInvStays == Inv /\ SessionInv /\ [Next]_vars => SessionInv'
  <1> SUFFICES ASSUME Inv, SessionInv, [Next]_vars
               PROVE  SessionInv'
    OBVIOUS
  <1>1. CASE UNCHANGED vars
    <2>1. UNCHANGED scopeVars /\ UNCHANGED sessionVars
      BY <1>1 DEF vars
    <2>2. SetsOK' /\ NodesOK'
      BY <2>1 DEF SessionInv, SetsOK, NodesOK, SetLives, Joined, scopeVars, sessionVars
    <2>3. CallersOK' /\ ProgramOK'
      BY <2>1, CallersStay, ProgramStays DEF scopeVars, sessionVars
    <2>4. ToldOK'
      BY <2>1, ToldStays DEF scopeVars, sessionVars
    <2> QED
      BY <2>2, <2>3, <2>4 DEF SessionInv
  <1> QED
    BY <1>1, QuietKeeps, BuildKeeps, DestroyKeeps, CancelCallsKeep, CancelStepKeeps,
       InterruptKeeps DEF Next, CallStep, ThreadStep

(* A session, its command sets, the program that uses it and whoever stops *)
(* it do only what the tree of scopes allows: no set is built or destroyed *)
(* under the session's lock, and none is destroyed, nor the session, while *)
(* somebody cancels it (AsyncCommandSession: dispatch, stop_command,       *)
(* cancel, thread_loop and the destructor).                                *)
THEOREM SessionKeepsToScopes == Spec => KeepsToScopes
  <1>1. Init => ScopeInit
    BY DEF Init
  <1>2. Inv /\ SessionInv /\ [Next]_vars => (Inv /\ SessionInv)'
    BY NextInTree, NextKeepsInv, SessionInvStays
  <1>3. Inv /\ SessionInv /\ [Next]_vars => [ScopeNext]_scopeVars
    BY NextInTree
  <1> QED
    BY <1>1, <1>2, <1>3, SessionStarts, PTL DEF Spec, KeepsToScopes, ScopeSpec

(* So whatever the tree promises, it promises the users of a session.      *)
THEOREM SessionTreeSafe == Spec => []TreeIsSafe
  BY SessionKeepsToScopes, TreeStaysSafe DEF KeepsToScopes

(* The program, whoever stops it and thread_loop are never all stuck       *)
(* at the locks, the session's m_lock among them (cancel, dispatch,        *)
(* stop_command and stop_session_and_rethrow).                             *)
THEOREM SessionGoesOn ==
    ASSUME IsFiniteSet(Threads)
    PROVE  Spec => []SomebodyGoesOn
  <1>1. ScopeSpec => []SomebodyGoesOn
    BY CancelsGoOn
  <1> QED
    BY <1>1, SessionKeepsToScopes DEF KeepsToScopes

(* A set whose commands run stays the current one, and alive, for any      *)
(* number of sets and calls (thread_loop, dispatch, stop_command).         *)
THEOREM CommandsOutliveRuns == Spec => []CommandOutlivesRun
  <1>1. Inv /\ SessionInv /\ [Next]_vars => (Inv /\ SessionInv)'
    BY NextInTree, NextKeepsInv, SessionInvStays
  <1>2. SessionInv => CommandOutlivesRun
    BY DEF SessionInv, SetsOK, NodesOK, SetLives, Joined, CommandOutlivesRun
  <1> QED
    BY <1>1, <1>2, SessionStarts, PTL DEF Spec

(* After the session's cancel() no command is left running that has not    *)
(* been cancelled: whoever set the flag is still there, or has called the  *)
(* cancel() of the set that runs (cancel, dispatch, thread_loop).          *)
THEOREM CancelsReachCommands == Spec => []CancelReachesCommand
  <1>1. Inv /\ SessionInv /\ [Next]_vars => (Inv /\ SessionInv)'
    BY NextInTree, NextKeepsInv, SessionInvStays
  <1>2. SessionInv => CancelReachesCommand
    BY DEF SessionInv, ToldOK, Telling, Reaching, CancelReachesCommand
  <1> QED
    BY <1>1, <1>2, SessionStarts, PTL DEF Spec

(* Nobody sleeps on m_cv through what would wake it: a set for the thread, *)
(* the end of the current one for the program, the session's cancel() for  *)
(* both, whatever else cancels meanwhile (m_cv in dispatch, stop_command,  *)
(* wait, cancel and thread_loop).                                          *)
THEOREM SessionWakesSleepers == Spec => []NobodyOversleeps
  <1>1. Init => SleepersOK
    BY DEF Init, SleepersOK, NobodyOversleeps
  <1>2. Inv /\ SessionInv /\ [Next]_vars => (Inv /\ SessionInv)'
    BY NextInTree, NextKeepsInv, SessionInvStays
  <1>3. SleepersOK => NobodyOversleeps
    BY DEF SleepersOK
  <1> QED
    BY <1>1, <1>2, <1>3, SleepersOKStays, SessionStarts, PTL DEF Spec
=============================================================================
