------------------------- MODULE BotBaseLinkProofs --------------------------
(***************************************************************************)
(* Proofs about PABotBase and the device it talks to, for any number of    *)
(* threads, any limits, any width of the sequence number, and any amount   *)
(* of loss, retransmission and restarts.                                   *)
(*                                                                         *)
(* The first half is about the client by itself: the arithmetic of         *)
(* infer_full_seqnum, the types, and that acks find their entries and      *)
(* nobody sleeps through them.  The second half is about what the client   *)
(* and the device are to each other.                                       *)
(***************************************************************************)
EXTENDS CommandStream, FiniteSetsExt, WellFoundedInduction,
        SequenceTheorems, FiniteSetTheorems, TLAPS

-----------------------------------------------------------------------------
(***************************************************************************)
(* What infer_full_seqnum recovers from a truncated sequence number, for   *)
(* every width of seqnum_t, and of the least and the greatest key of a     *)
(* map (map.begin(), map.rbegin()) that it is given.                       *)
(***************************************************************************)

(* Division with remainder, in the form the proofs below use it.           *)
LEMMA Split ==
    ASSUME NEW n \in Nat
    PROVE  /\ n \div SeqMod \in Nat
           /\ HighPart(n) = (n \div SeqMod) * SeqMod
           /\ HighPart(n) \in Nat
           /\ Truncate(n) \in 0..(SeqMod - 1)
           /\ n = HighPart(n) + Truncate(n)
  BY SeqModAssumption, Z3 DEF HighPart, Truncate

(* A number lies less than SeqMod above its high part.                     *)
LEMMA HighPartBounds ==
    ASSUME NEW n \in Nat
    PROVE  /\ SeqMod \in Nat
           /\ HighPart(n) \in Nat
           /\ HighPart(n) <= n
           /\ n < HighPart(n) + SeqMod
           /\ Truncate(n) \in 0..(SeqMod - 1)
           /\ n = HighPart(n) + Truncate(n)
  <1>1. HighPart(n) \in Nat /\ Truncate(n) \in 0..(SeqMod - 1)
    BY Split
  <1>2. n = HighPart(n) + Truncate(n)
    BY Split
  <1> QED
    BY <1>1, <1>2, SeqModAssumption

(* Two different multiples of SeqMod are at least SeqMod apart.            *)
LEMMA MultiplesApart ==
    ASSUME NEW a \in Nat, NEW b \in Nat, a < b
    PROVE  a * SeqMod + SeqMod <= b * SeqMod
  BY SeqModAssumption, Z3

(* High parts are equal or at least SeqMod apart.                          *)
LEMMA HighPartsApart ==
    ASSUME NEW m \in Nat, NEW n \in Nat
    PROVE  \/ HighPart(m) = HighPart(n)
           \/ HighPart(m) + SeqMod <= HighPart(n)
           \/ HighPart(n) + SeqMod <= HighPart(m)
  <1> DEFINE a == m \div SeqMod
             b == n \div SeqMod
  <1>1. /\ a \in Nat /\ b \in Nat
        /\ HighPart(m) = a * SeqMod /\ HighPart(n) = b * SeqMod
    BY Split
  <1> HIDE DEF a, b
  <1>2. CASE a = b
    BY <1>1, <1>2
  <1>3. CASE a < b
    BY <1>1, <1>3, MultiplesApart
  <1>4. CASE b < a
    BY <1>1, <1>4, MultiplesApart
  <1> QED
    BY <1>1, <1>2, <1>3, <1>4

(* A sequence number that lies in the window of live ones is recovered     *)
(* exactly, as long as the window is narrower than the range of seqnum_t:  *)
(* this is the claim of the comment in PABotBase::infer_full_seqnum, and   *)
(* the window's width is what MAX_SEQNUM_GAP bounds.                       *)
THEOREM InferFullSeqnumExact ==
    ASSUME NEW lo \in Nat, NEW hi \in Nat, NEW s \in Nat,
           lo <= s, s <= hi, hi - lo < SeqMod
    PROVE  InferFullSeqnum(lo, hi, Truncate(s)) = s
  <1> DEFINE L == HighPart(lo)
             H == HighPart(hi)
             S == HighPart(s)
             t == Truncate(s)
  <1> SUFFICES InferFullSeqnum(lo, hi, t) = s
    OBVIOUS
  <1>1. /\ SeqMod \in Nat
        /\ L \in Nat /\ L <= lo /\ lo < L + SeqMod
        /\ H \in Nat /\ H <= hi /\ hi < H + SeqMod
        /\ S \in Nat /\ t \in 0..(SeqMod - 1) /\ s = S + t
    BY HighPartBounds
  <1>2. \/ L = S \/ L + SeqMod <= S \/ S + SeqMod <= L
    BY HighPartsApart
  <1>3. \/ H = S \/ H + SeqMod <= S \/ S + SeqMod <= H
    BY HighPartsApart
  <1>4. \/ L = H \/ L + SeqMod <= H \/ H + SeqMod <= L
    BY HighPartsApart
  <1>5. InferFullSeqnum(lo, hi, t) = IF L + t >= lo THEN L + t ELSE H + t
    BY DEF InferFullSeqnum
  <1> HIDE DEF L, H, S, t
  <1>6. CASE L = S
    BY <1>1, <1>5, <1>6
  <1>7. CASE L + SeqMod <= S
    <2>1. L + t < lo
      BY <1>1, <1>7
    <2>2. H = S
      BY <1>1, <1>3, <1>4, <1>7
    <2> QED
      BY <1>1, <1>5, <2>1, <2>2
  <1> QED
    BY <1>1, <1>2, <1>6, <1>7

(* A late answer to a message older than every live one is never taken for *)
(* an answer to a live message, as long as the late one is less than one   *)
(* range of seqnum_t behind the newest: the receiver looks the inferred    *)
(* number up in the map and finds nothing.                                 *)
THEOREM InferFullSeqnumNoAlias ==
    ASSUME NEW lo \in Nat, NEW hi \in Nat, NEW s \in Nat,
           lo <= hi, s < lo, hi - s < SeqMod
    PROVE  InferFullSeqnum(lo, hi, Truncate(s)) \notin lo..hi
  <1> DEFINE L == HighPart(lo)
             H == HighPart(hi)
             S == HighPart(s)
             t == Truncate(s)
             r == InferFullSeqnum(lo, hi, t)
  <1> SUFFICES r \notin lo..hi
    OBVIOUS
  <1>1. /\ SeqMod \in Nat
        /\ L \in Nat /\ L <= lo /\ lo < L + SeqMod
        /\ H \in Nat /\ H <= hi /\ hi < H + SeqMod
        /\ S \in Nat /\ t \in 0..(SeqMod - 1) /\ s = S + t
    BY HighPartBounds
  <1>2. \/ L = S \/ L + SeqMod <= S \/ S + SeqMod <= L
    BY HighPartsApart
  <1>3. \/ H = S \/ H + SeqMod <= S \/ S + SeqMod <= H
    BY HighPartsApart
  <1>4. r = IF L + t >= lo THEN L + t ELSE H + t
    BY DEF InferFullSeqnum
  <1> HIDE DEF L, H, S, t, r
  <1>5. CASE L + t >= lo
    <2>1. L + SeqMod <= S \/ S + SeqMod <= L
      BY <1>1, <1>2, <1>5
    <2>2. L + t > hi
      BY <1>1, <1>5, <2>1
    <2> QED
      BY <1>1, <1>4, <1>5, <2>2
  <1>6. CASE ~(L + t >= lo)
    <2>1. r = H + t
      BY <1>4, <1>6
    <2>2. \/ r = s \/ r >= s + SeqMod \/ r + SeqMod <= s
      BY <1>1, <1>3, <2>1
    <2> QED
      BY <1>1, <2>1, <2>2
  <1> QED
    BY <1>5, <1>6

-----------------------------------------------------------------------------
(* The least and the greatest element of a set of numbers.                 *)

(* A non-empty set of natural numbers has a least element.                 *)
LEMMA LeastExists ==
    ASSUME NEW S \in SUBSET Nat, S # {}
    PROVE  \E x \in S : \A y \in S : x <= y
  <1> DEFINE R == OpToRel(<, Nat)
  <1>1. IsWellFoundedOn(R, Nat)
    BY NatLessThanWellFounded
  <1>2. \E x \in S : \A y \in S : ~ (<<y, x>> \in R)
    <2> HIDE DEF R
    <2> QED
      BY <1>1, WFMin
  <1>3. \A x, y \in Nat : y < x => <<y, x>> \in R
    BY DEF OpToRel
  <1> HIDE DEF R
  <1>4. PICK x \in S : \A y \in S : ~ (<<y, x>> \in R)
    BY <1>2
  <1>5. \A y \in S : ~ (y < x)
    BY <1>3, <1>4
  <1>6. \A y \in S : x <= y
    BY <1>5
  <1> QED
    BY <1>6

LEMMA MinIsLeast ==
    ASSUME NEW S \in SUBSET Nat, S # {}
    PROVE  Min(S) \in S /\ \A y \in S : Min(S) <= y
  <1>1. \E x \in S : \A y \in S : x <= y
    BY LeastExists
  <1> QED
    BY <1>1 DEF Min

(* So has one that is bounded from above: a greatest.                      *)
LEMMA MaxIsGreatest ==
    ASSUME NEW S \in SUBSET Nat, S # {},
           NEW bound \in Nat, \A y \in S : y <= bound
    PROVE  Max(S) \in S /\ \A y \in S : y <= Max(S)
  <1> DEFINE D == {bound - y : y \in S}
  <1>1. D \in SUBSET Nat /\ D # {}
    <2>1. \A y \in S : bound - y \in Nat
      OBVIOUS
    <2>2. D \in SUBSET Nat
      BY <2>1
    <2>3. PICK y \in S : TRUE
      OBVIOUS
    <2>4. bound - y \in D
      OBVIOUS
    <2> QED
      BY <2>2, <2>4
  <1>2. PICK d \in D : \A e \in D : d <= e
    BY <1>1, LeastExists
  <1>3. PICK x \in S : d = bound - x
    OBVIOUS
  <1>4. \A y \in S : x >= y
    <2> TAKE y \in S
    <2>1. bound - y \in D
      OBVIOUS
    <2>2. bound - x <= bound - y
      BY <1>2, <1>3, <2>1
    <2> QED
      BY <2>2
  <1>5. Max(S) \in S /\ \A y \in S : Max(S) >= y
    BY <1>4 DEF Max
  <1> QED
    BY <1>5

-----------------------------------------------------------------------------
(* The operators the model is built from.                                  *)

LEMMA TruncateType ==
    ASSUME NEW s \in Nat
    PROVE  Truncate(s) \in Nat
  BY HighPartBounds

(* What is put on a line keeps its type.                                   *)
LEMMA SendType ==
    ASSUME NEW S, NEW line \in Seq(S), NEW ms \in Seq(S)
    PROVE  Send(line, ms) \in Seq(S)
  <1> DEFINE all == line \o ms
             n == IF Len(all) < MaxLine THEN Len(all) ELSE MaxLine
  <1>1. all \in Seq(S)
    BY ConcatProperties
  <1>2. n \in Nat /\ n <= Len(all)
    BY <1>1, LineAssumption, LenProperties
  <1>3. \A i \in 1..n : all[i] \in S
    BY <1>1, <1>2, ElementOfSeq
  <1>4. SubSeq(all, 1, n) \in Seq(S)
    <2> HIDE DEF all, n
    <2> QED
      BY <1>2, <1>3, SubSeqProperties
  <1> QED
    BY <1>4 DEF Send

LEMMA SendOneType ==
    ASSUME NEW S, NEW line \in Seq(S), NEW m \in S
    PROVE  Send(line, <<m>>) \in Seq(S)
  <1>1. <<m>> \in Seq(S)
    OBVIOUS
  <1> QED
    BY <1>1, SendType

(* Adding to a map and taking from it.                                     *)
LEMMA WithFacts ==
    ASSUME NEW map, NEW key, NEW value
    PROVE  /\ DOMAIN With(map, key, value) = DOMAIN map \cup {key}
           /\ With(map, key, value)[key] = value
           /\ \A k \in DOMAIN map \ {key} : With(map, key, value)[k] = map[k]
           /\ IsFiniteSet(DOMAIN map) =>
                IsFiniteSet(DOMAIN With(map, key, value))
  <1>1. DOMAIN With(map, key, value) = DOMAIN map \cup {key}
    BY DEF With
  <1>2. IsFiniteSet(DOMAIN map) => IsFiniteSet(DOMAIN map \cup {key})
    BY FS_AddElement
  <1> QED
    BY <1>1, <1>2 DEF With

LEMMA RestrictFacts ==
    ASSUME NEW map, NEW S, S \subseteq DOMAIN map
    PROVE  /\ DOMAIN Restrict(map, S) = S
           /\ \A k \in S : Restrict(map, S)[k] = map[k]
           /\ IsFiniteSet(DOMAIN map) => IsFiniteSet(DOMAIN Restrict(map, S))
  <1>1. DOMAIN Restrict(map, S) = S
    BY DEF Restrict
  <1>2. IsFiniteSet(DOMAIN map) => IsFiniteSet(S)
    BY FS_Subset
  <1> QED
    BY <1>1, <1>2 DEF Restrict

LEMMA WithoutFacts ==
    ASSUME NEW map, NEW key
    PROVE  /\ DOMAIN Without(map, key) = DOMAIN map \ {key}
           /\ \A k \in DOMAIN map \ {key} : Without(map, key)[k] = map[k]
           /\ IsFiniteSet(DOMAIN map) => IsFiniteSet(DOMAIN Without(map, key))
  BY RestrictFacts DEF Without

-----------------------------------------------------------------------------
(* Type correctness.                                                       *)

LEMMA InitTypeOK == Init => TypeOK
  <1> SUFFICES ASSUME Init PROVE TypeOK
    OBVIOUS
  <1> USE DEF Init, LineInit, ClientInit, DeviceInit
  <1>1. LineTypeOK
    BY DEF LineTypeOK
  <1>2. PendingTypeOK
    BY ClientAssumption DEF PendingTypeOK
  <1>3. ControlTypeOK /\ FlagTypeOK
    <2>1. ready \in BOOLEAN
      BY Zenon
    <2>2. /\ pc \in [Threads -> {"idle"}] /\ op \in [Threads -> {"none"}]
          /\ handle \in [Threads -> {0}]
      OBVIOUS
    <2> QED
      BY <2>1, <2>2 DEF ControlTypeOK, FlagTypeOK
  <1>4. DeviceTypeOK
    <2>1. dev_expected \in Nat
      BY DeviceAssumption, TruncateType
    <2>2. dev_queue \in Seq(Nat) /\ processed \in Seq(Nat)
      BY EmptySeq
    <2> QED
      BY <2>1, <2>2 DEF DeviceTypeOK
  <1>5. PendingFinite
    BY FS_EmptySet DEF PendingFinite
  <1> QED
    BY <1>1, <1>2, <1>3, <1>4, <1>5 DEF TypeOK

(* A message of the client's has the type the line carries.                *)
LEMMA MessageIsDeviceMessage ==
    ASSUME NEW s \in Nat, NEW type \in RequestTypes \cup {"command", "finish_ack"}
    PROVE  Message(type, s) \in DeviceMessage
  BY TruncateType DEF Message, DeviceMessage

LEMMA MessageTypeType ==
    ASSUME NEW o, o \notin CommandOps
    PROVE  MessageType(o) \in RequestTypes
  BY DEF MessageType, RequestTypes

(* Threads that make a call.                                               *)
LEMMA CallsTypeOK ==
    ASSUME TypeOK, NEW t \in Threads, Calls(t)
    PROVE  LineTypeOK' /\ PendingTypeOK' /\ ControlTypeOK' /\ FlagTypeOK'
  <1>1. ASSUME NEW o \in AllOps, NEW at \in {"issue", "wait_all", "stop_wake"},
               Enter(t, o, at),
               cancelled' \subseteq Threads,
               m_state' \in {"RUNNING", "STOPPING", "STOPPED"}
        PROVE  LineTypeOK' /\ PendingTypeOK' /\ ControlTypeOK' /\ FlagTypeOK'
    BY <1>1 DEF TypeOK, LineTypeOK, PendingTypeOK, ControlTypeOK, FlagTypeOK, Enter, lineVars
  <1>2. CASE \E o \in IssueOps : CallIssue(t, o)
    BY <1>1, <1>2 DEF CallIssue, TypeOK, ControlTypeOK, FlagTypeOK, AllOps
  <1>3. CASE CallWaitForAllRequests(t)
    BY <1>1, <1>3 DEF CallWaitForAllRequests, TypeOK, ControlTypeOK, FlagTypeOK, AllOps
  <1>4. CASE CallStop(t)
    BY <1>1, <1>4 DEF CallStop, TypeOK, ControlTypeOK, FlagTypeOK, AllOps
  <1>5. CASE \E u \in Threads, o \in {"stop", "interrupt"} : Cancel(t, u, o)
    BY <1>1, <1>5 DEF Cancel, TypeOK, ControlTypeOK, FlagTypeOK, AllOps, IssueOps, ClearOps
  <1> QED
    BY <1>2, <1>3, <1>4, <1>5 DEF Calls

(* Threads inside a call.                                                  *)
LEMMA ThreadStepTypeOK ==
    ASSUME TypeOK, NEW t \in Threads, ThreadStep(t)
    PROVE  LineTypeOK' /\ PendingTypeOK' /\ ControlTypeOK' /\ FlagTypeOK'
  <1> USE DEF TypeOK
  <1>1. ASSUME NEW at \in {"issue", "enter_wait", "stop_join", "stop_close"},
               Goto(t, at)
        PROVE  ControlTypeOK'
    BY <1>1 DEF Goto, ControlTypeOK, FlagTypeOK
  <1>2. ASSUME Return(t)
        PROVE  ControlTypeOK'
    BY <1>2 DEF Return, ControlTypeOK, FlagTypeOK
  <1>3. ASSUME AfterIssue(t)
        PROVE  ControlTypeOK'
    BY <1>2, <1>3 DEF AfterIssue, ControlTypeOK, FlagTypeOK, PendingTypeOK
  <1>4. CASE IssueThrows(t)
    BY <1>2, <1>4 DEF IssueThrows, LineTypeOK, PendingTypeOK, ControlTypeOK, FlagTypeOK, lineVars
  <1>5. CASE IssueThrottled(t)
    BY <1>1, <1>2, <1>5
       DEF IssueThrottled, LineTypeOK, PendingTypeOK, ControlTypeOK, FlagTypeOK, lineVars
  <1>6. CASE IssueRequest(t)
    <2> DEFINE entry == [state |-> "NOT_ACKED", silent_remove |-> SilentRemove(op[t]),
                         type |-> MessageType(op[t])]
    <2>1. MessageType(op[t]) \in RequestTypes
      BY <1>6, MessageTypeType DEF IssueRequest
    <2>2. entry \in PendingRequest
      BY <2>1 DEF PendingRequest, AckState, SilentRemove
    <2>3. PendingTypeOK'
      <3> HIDE DEF entry
      <3>1. m_pending_requests' = With(m_pending_requests, m_send_seq, entry)
        BY <1>6 DEF IssueRequest, entry
      <3> QED
        BY <1>6, <2>2, <3>1 DEF IssueRequest, PendingTypeOK, With
    <2>4. LineTypeOK'
      BY <1>6, <2>1, MessageIsDeviceMessage, SendOneType
         DEF IssueRequest, LineTypeOK, PendingTypeOK
    <2> QED
      BY <1>3, <1>6, <2>3, <2>4 DEF IssueRequest, FlagTypeOK
  <1>7. CASE IssueCommand(t)
    <2>1. [state |-> "NOT_ACKED"] \in PendingCommand
      BY DEF PendingCommand, AckState
    <2>2. PendingTypeOK'
      BY <1>7, <2>1 DEF IssueCommand, PendingTypeOK, With
    <2>3. LineTypeOK'
      BY <1>7, MessageIsDeviceMessage, SendOneType
         DEF IssueCommand, LineTypeOK, PendingTypeOK
    <2> QED
      BY <1>3, <1>7, <2>2, <2>3 DEF IssueCommand, FlagTypeOK
  <1>8. CASE IssueWaits(t)
    BY <1>1, <1>2, <1>8
       DEF IssueWaits, Sleep, LineTypeOK, PendingTypeOK, ControlTypeOK, FlagTypeOK, lineVars
  <1>9. CASE AwaitEnds(t)
    <2>1. PendingTypeOK'
      BY <1>9 DEF AwaitEnds, PendingTypeOK, Without, Restrict
    <2>2. m_cv' \subseteq Threads
      BY <1>9 DEF AwaitEnds, NotifyAll, FlagTypeOK
    <2>3. ready' \in BOOLEAN
      BY <1>9 DEF AwaitEnds
    <2> QED
      BY <1>2, <1>9, <2>1, <2>2, <2>3 DEF AwaitEnds, LineTypeOK, FlagTypeOK, lineVars
  <1>10. CASE AwaitSleeps(t)
    BY <1>10 DEF AwaitSleeps, Sleep, LineTypeOK, PendingTypeOK, ControlTypeOK, FlagTypeOK, lineVars
  <1>11. CASE WaitAllEnds(t)
    BY <1>2, <1>11 DEF WaitAllEnds, LineTypeOK, PendingTypeOK, ControlTypeOK, FlagTypeOK, lineVars
  <1>12. CASE WaitAllSleeps(t)
    BY <1>12 DEF WaitAllSleeps, Sleep, LineTypeOK, PendingTypeOK, ControlTypeOK, FlagTypeOK, lineVars
  <1>13. CASE clear_all_active_commands(t)
    BY <1>2, <1>13
       DEF clear_all_active_commands, NotifyAll, Restrict, LineTypeOK,
           PendingTypeOK, ControlTypeOK, FlagTypeOK, lineVars
  <1>14. CASE StopWakesEveryone(t)
    BY <1>1, <1>14
       DEF StopWakesEveryone, NotifyAll, LineTypeOK, PendingTypeOK, ControlTypeOK, FlagTypeOK, lineVars
  <1>15. CASE StopSends(t)
    BY <1>1, <1>15, MessageIsDeviceMessage, SendOneType
       DEF StopSends, LineTypeOK, PendingTypeOK, ControlTypeOK, FlagTypeOK, RequestTypes
  <1>16. CASE StopCloses(t)
    BY <1>2, <1>16 DEF StopCloses, LineTypeOK, PendingTypeOK, ControlTypeOK, FlagTypeOK, lineVars
  <1> QED
    BY <1>4, <1>5, <1>6, <1>7, <1>8, <1>9, <1>10, <1>11, <1>12, <1>13, <1>14,
       <1>15, <1>16 DEF ThreadStep

LEMMA SpuriousWakeupTypeOK ==
    ASSUME TypeOK, NEW t \in Threads, SpuriousWakeup(t)
    PROVE  LineTypeOK' /\ PendingTypeOK' /\ ControlTypeOK' /\ FlagTypeOK'
  BY DEF SpuriousWakeup, TypeOK, LineTypeOK, PendingTypeOK, ControlTypeOK,
         FlagTypeOK, lineVars

(* The receiver thread.                                                    *)
LEMMA ReceiverTypeOK ==
    ASSUME TypeOK, Receiver
    PROVE  LineTypeOK' /\ PendingTypeOK' /\ ControlTypeOK' /\ FlagTypeOK'
  <1> USE DEF TypeOK
  <1>1. ASSUME NEW type, Receives(type)
        PROVE  /\ Head(toClient) \in ClientMessage
               /\ toClient' \in Seq(ClientMessage)
               /\ losses' \in Nat
               /\ ControlTypeOK'
               /\ m_send_seq' \in Nat
               /\ m_state' \in {"RUNNING", "STOPPING", "STOPPED"}
               /\ cancelled' \subseteq Threads
               /\ ready' \in BOOLEAN
               /\ retransmitter' \in {"wait", "resend", "exited"}
    BY <1>1, HeadTailProperties
       DEF Receives, LineTypeOK, ControlTypeOK, FlagTypeOK, PendingTypeOK
  <1>2. CASE process_ack_request
    <2> DEFINE s == Inferred(m_pending_requests, Head(toClient).seqnum)
    <2>1. PendingTypeOK'
      <3>1. \/ m_pending_requests' = m_pending_requests
            \/ m_pending_requests' = Without(m_pending_requests, s)
            \/ m_pending_requests' = [m_pending_requests EXCEPT ![s].state = "ACKED"]
        BY <1>2 DEF process_ack_request, AckEntry
      <3>2. m_send_seq' \in Nat /\ UNCHANGED m_pending_commands
        BY <1>1, <1>2 DEF process_ack_request
      <3> HIDE DEF s
      <3>3. CASE m_pending_requests' = m_pending_requests
        BY <3>2, <3>3 DEF PendingTypeOK
      <3>4. CASE m_pending_requests' = Without(m_pending_requests, s)
        BY <3>2, <3>4 DEF PendingTypeOK, Without, Restrict
      <3>5. CASE m_pending_requests' = [m_pending_requests EXCEPT ![s].state = "ACKED"]
        BY <3>2, <3>5 DEF PendingTypeOK, PendingRequest, AckState
      <3> QED
        BY <3>1, <3>3, <3>4, <3>5
    <2>2. receiver' \in {"read", "notify"}
      BY <1>2 DEF process_ack_request
    <2>3. m_error' \in BOOLEAN /\ m_cv' \subseteq Threads
          /\ UNCHANGED toDevice
      BY <1>2 DEF process_ack_request, FlagTypeOK
    <2>4. Receives("ack_request")
      BY <1>2 DEF process_ack_request
    <2> QED
      BY <1>1, <2>1, <2>2, <2>3, <2>4 DEF LineTypeOK, FlagTypeOK
  <1>3. CASE process_ack_command
    <2> DEFINE s == Inferred(m_pending_commands, Head(toClient).seqnum)
    <2>1. PendingTypeOK'
      <3>1. \/ m_pending_commands' = m_pending_commands
            \/ m_pending_commands' = [m_pending_commands EXCEPT ![s].state = "ACKED"]
        BY <1>3 DEF process_ack_command
      <3>2. m_send_seq' \in Nat /\ UNCHANGED m_pending_requests
        BY <1>1, <1>3 DEF process_ack_command
      <3> HIDE DEF s
      <3> QED
        BY <3>1, <3>2 DEF PendingTypeOK, PendingCommand, AckState
    <2>2. Receives("ack_command") /\ UNCHANGED <<m_error, m_cv, receiver, toDevice>>
      BY <1>3 DEF process_ack_command
    <2> QED
      BY <1>1, <2>1, <2>2 DEF LineTypeOK, FlagTypeOK
  <1>4. CASE process_command_finished
    <2> DEFINE s == Inferred(m_pending_commands, Head(toClient).command)
    <2>1. PendingTypeOK'
      <3>1. \/ m_pending_commands' = m_pending_commands
            \/ m_pending_commands' = Without(m_pending_commands, s)
        BY <1>4 DEF process_command_finished
      <3>2. m_send_seq' \in Nat /\ UNCHANGED m_pending_requests
        BY <1>1, <1>4 DEF process_command_finished
      <3> HIDE DEF s
      <3> QED
        BY <3>1, <3>2 DEF PendingTypeOK, Without, Restrict
    <2>2. Receives("finished") /\ UNCHANGED <<m_error, receiver>>
      BY <1>4 DEF process_command_finished
    <2>3. m_cv' \subseteq Threads
      BY <1>4 DEF process_command_finished, NotifyAll, FlagTypeOK
    <2>4. toDevice' \in Seq(DeviceMessage)
      <3> DEFINE ack == [type |-> "finish_ack", seqnum |-> Head(toClient).seqnum, id |-> 0]
      <3>1. ack \in DeviceMessage
        BY <1>1, <2>2 DEF ClientMessage, DeviceMessage
      <3>2. toDevice' = Send(toDevice, <<ack>>)
        BY <1>4 DEF process_command_finished
      <3> HIDE DEF ack
      <3> QED
        BY <3>1, <3>2, SendOneType DEF LineTypeOK
    <2> QED
      BY <1>1, <2>1, <2>2, <2>3, <2>4 DEF LineTypeOK, FlagTypeOK
  <1>5. CASE process_missed_request
    <2>1. Receives("missed")
          /\ UNCHANGED <<m_pending_requests, m_pending_commands, m_cv, toDevice>>
      BY <1>5 DEF process_missed_request
    <2>2. m_error' \in BOOLEAN /\ receiver' \in {"read", "notify"}
      BY <1>5 DEF process_missed_request
    <2> QED
      BY <1>1, <2>1, <2>2 DEF LineTypeOK, PendingTypeOK, FlagTypeOK
  <1>6. CASE process_other
    <2>1. Receives("dropped")
          /\ UNCHANGED <<m_pending_requests, m_pending_commands, m_error, m_cv,
                         receiver, toDevice>>
      BY <1>6 DEF process_other
    <2> QED
      BY <1>1, <2>1 DEF LineTypeOK, PendingTypeOK, FlagTypeOK
  <1>7. CASE ReceiverNotifies
    BY <1>7 DEF ReceiverNotifies, NotifyAll, LineTypeOK, PendingTypeOK,
                ControlTypeOK, FlagTypeOK, lineVars
  <1> QED
    BY <1>2, <1>3, <1>4, <1>5, <1>6, <1>7 DEF Receiver

(* The retransmit thread.                                                  *)
LEMMA RetransmitterTypeOK ==
    ASSUME TypeOK, Retransmitter
    PROVE  LineTypeOK' /\ PendingTypeOK' /\ ControlTypeOK' /\ FlagTypeOK'
  <1> USE DEF TypeOK
  <1>1. CASE RetransmitDue \/ RetransmitExits
    BY <1>1 DEF RetransmitDue, RetransmitExits, LineTypeOK, PendingTypeOK,
                ControlTypeOK, FlagTypeOK, lineVars
  <1>2. CASE RetransmitPass
    <2>1. PICK R \in SUBSET DOMAIN m_pending_requests,
               C \in SUBSET DOMAIN m_pending_commands :
            \E rs \in Increasing(R), cs \in Increasing(C) :
              toDevice' =
                Send(toDevice,
                     [i \in DOMAIN rs |-> Message(m_pending_requests[rs[i]].type, rs[i])]
                     \o [i \in DOMAIN cs |-> Message("command", cs[i])])
      BY <1>2 DEF RetransmitPass, NotAcked
    <2>2. PICK rs \in Increasing(R), cs \in Increasing(C) :
              toDevice' =
                Send(toDevice,
                     [i \in DOMAIN rs |-> Message(m_pending_requests[rs[i]].type, rs[i])]
                     \o [i \in DOMAIN cs |-> Message("command", cs[i])])
      BY <2>1
    <2> DEFINE ms == [i \in DOMAIN rs |-> Message(m_pending_requests[rs[i]].type, rs[i])]
               ns == [i \in DOMAIN cs |-> Message("command", cs[i])]
    <2>3. ms \in Seq(DeviceMessage)
      <3>1. Cardinality(R) \in Nat
        BY FS_Subset, FS_CardinalityType DEF PendingFinite
      <3>2. rs \in [1..Cardinality(R) -> R]
        BY DEF Increasing
      <3>3. \A i \in DOMAIN rs :
              Message(m_pending_requests[rs[i]].type, rs[i]) \in DeviceMessage
        BY <3>2, MessageIsDeviceMessage DEF PendingTypeOK, PendingRequest
      <3> QED
        BY <3>1, <3>2, <3>3
    <2>4. ns \in Seq(DeviceMessage)
      <3>1. Cardinality(C) \in Nat
        BY FS_Subset, FS_CardinalityType DEF PendingFinite
      <3>2. cs \in [1..Cardinality(C) -> C]
        BY DEF Increasing
      <3>3. \A i \in DOMAIN cs : Message("command", cs[i]) \in DeviceMessage
        BY <3>2, MessageIsDeviceMessage DEF PendingTypeOK
      <3> QED
        BY <3>1, <3>2, <3>3
    <2>5. ms \o ns \in Seq(DeviceMessage)
      <3> HIDE DEF ms, ns
      <3> QED
        BY <2>3, <2>4, ConcatProperties
    <2>6. toDevice' \in Seq(DeviceMessage)
      <3> HIDE DEF ms, ns
      <3>1. toDevice' = Send(toDevice, ms \o ns)
        BY <2>2 DEF ms, ns
      <3> QED
        BY <2>5, <3>1, SendType DEF LineTypeOK
    <2> QED
      BY <1>2, <2>6 DEF RetransmitPass, LineTypeOK, PendingTypeOK, ControlTypeOK,
                        FlagTypeOK
  <1> QED
    BY <1>1, <1>2 DEF Retransmitter

(* The device.                                                             *)
LEMMA AckOfType ==
    ASSUME NEW message \in DeviceMessage
    PROVE  AckOf(message) \in ClientMessage
  BY DEF AckOf, Reply, DeviceMessage, ClientMessage

LEMMA DeviceTypeCorrect ==
    ASSUME TypeOK, DeviceNext
    PROVE  LineTypeOK' /\ DeviceTypeOK'
  <1> USE DEF TypeOK
  <1>1. CASE DeviceReceives
    <2>1. PICK message \in Range(toDevice) :
            \/ DeviceAccepts(message) \/ DeviceDrops(message)
            \/ DeviceResets(message) \/ DeviceAcksAgain(message)
            \/ DeviceMissed(message) \/ DeviceFinishAcked(message)
      BY <1>1 DEF DeviceReceives
    <2>2. DeviceTakes(message)
      BY <2>1 DEF DeviceAccepts, DeviceDrops, DeviceResets, DeviceAcksAgain,
                  DeviceMissed, DeviceFinishAcked
    <2>3. /\ message \in DeviceMessage
          /\ toDevice' \in Seq(DeviceMessage)
          /\ losses' \in Nat /\ reboots' \in Nat
      BY <2>2, HeadTailProperties DEF DeviceTakes, LineTypeOK, DeviceTypeOK
    <2>4. /\ message.seqnum \in Nat /\ message.id \in Nat
          /\ Truncate(message.seqnum + 1) \in Nat
      <3>1. message.seqnum \in Nat /\ message.id \in Nat
        BY <2>3 DEF DeviceMessage
      <3>2. message.seqnum + 1 \in Nat
        BY <3>1
      <3> QED
        BY <3>1, <3>2, TruncateType
    <2>5. Send(toClient, <<AckOf(message)>>) \in Seq(ClientMessage)
      BY <2>3, AckOfType, SendOneType DEF LineTypeOK
    <2>6. CASE DeviceAccepts(message)
      <3>1. Accept(message)
        BY <2>6 DEF DeviceAccepts
      <3>2. /\ dev_expected' \in Nat /\ processed' \in Seq(Nat)
            /\ toClient' \in Seq(ClientMessage)
        BY <2>4, <2>5, <3>1, AppendProperties DEF Accept, DeviceTypeOK
      <3>3. dev_queue' \in Seq(Nat)
        <4>1. \/ dev_queue' = <<message.seqnum>>
              \/ dev_queue' = Append(dev_queue, message.seqnum)
              \/ dev_queue' = <<>>
              \/ dev_queue' = dev_queue
          BY <2>6 DEF DeviceAccepts
        <4>2. /\ <<message.seqnum>> \in Seq(Nat)
              /\ Append(dev_queue, message.seqnum) \in Seq(Nat)
              /\ <<>> \in Seq(Nat)
          BY <2>4, AppendProperties, EmptySeq DEF DeviceTypeOK
        <4> QED
          BY <4>1, <4>2 DEF DeviceTypeOK
      <3>4. dev_interrupt' \in BOOLEAN /\ UNCHANGED dev_finished
        BY <2>6 DEF DeviceAccepts, DeviceTypeOK
      <3> QED
        BY <2>3, <3>2, <3>3, <3>4 DEF LineTypeOK, DeviceTypeOK
    <2>7. CASE DeviceDrops(message)
      <3>1. Reply("dropped", message.seqnum) \in ClientMessage
        BY <2>4 DEF Reply, ClientMessage
      <3>2. toClient' \in Seq(ClientMessage)
        BY <2>7, <3>1, SendOneType DEF DeviceDrops, LineTypeOK
      <3> QED
        BY <2>3, <2>7, <3>2 DEF DeviceDrops, LineTypeOK, DeviceTypeOK
    <2>8. CASE DeviceResets(message)
      <3>1. processed' \in Seq(Nat)
        BY <2>4, <2>8, AppendProperties DEF DeviceResets, DeviceTypeOK
      <3> QED
        BY <2>3, <2>4, <2>5, <2>8, <3>1 DEF DeviceResets, LineTypeOK, DeviceTypeOK
    <2>9. CASE DeviceAcksAgain(message)
      BY <2>3, <2>5, <2>9 DEF DeviceAcksAgain, LineTypeOK, DeviceTypeOK
    <2>10. CASE DeviceMissed(message)
      <3>1. Reply("missed", dev_expected) \in ClientMessage
        BY DEF Reply, ClientMessage, DeviceTypeOK
      <3>2. toClient' \in Seq(ClientMessage)
        BY <2>10, <3>1, SendOneType DEF DeviceMissed, LineTypeOK
      <3> QED
        BY <2>3, <2>10, <3>2 DEF DeviceMissed, LineTypeOK, DeviceTypeOK
    <2>11. CASE DeviceFinishAcked(message)
      BY <2>3, <2>11 DEF DeviceFinishAcked, LineTypeOK, DeviceTypeOK
    <2> QED
      BY <2>1, <2>6, <2>7, <2>8, <2>9, <2>10, <2>11
  <1>2. ASSUME NEW seqnum \in Nat
        PROVE  Send(toClient, <<FinishMessage(seqnum)>>) \in Seq(ClientMessage)
    <2>1. FinishMessage(seqnum) \in ClientMessage
      BY <1>2 DEF FinishMessage, ClientMessage
    <2> QED
      BY <2>1, SendOneType DEF LineTypeOK
  <1>3. CASE DeviceFinishes
    <2>1. Head(dev_queue) \in Nat /\ Tail(dev_queue) \in Seq(Nat)
      BY <1>3, HeadTailProperties DEF DeviceFinishes, DeviceTypeOK
    <2> QED
      BY <1>2, <1>3, <2>1 DEF DeviceFinishes, LineTypeOK, DeviceTypeOK
  <1>4. CASE DeviceReboots
    <2>1. LineTypeOK'
      BY <1>4 DEF DeviceReboots, LineTypeOK, lineVars
    <2>2. dev_queue' \in Seq(Nat)
      BY <1>4, EmptySeq DEF DeviceReboots
    <2>3. dev_expected' \in Nat /\ dev_finished' \subseteq Nat
          /\ dev_interrupt' \in BOOLEAN
      BY <1>4 DEF DeviceReboots
    <2>4. reboots' \in Nat /\ processed' \in Seq(Nat)
      BY <1>4 DEF DeviceReboots, DeviceTypeOK
    <2> QED
      BY <2>1, <2>2, <2>3, <2>4 DEF DeviceTypeOK
  <1>5. CASE \E seqnum \in dev_finished : DeviceResendsFinish(seqnum)
    BY <1>2, <1>5 DEF DeviceResendsFinish, LineTypeOK, DeviceTypeOK, deviceVars
  <1> QED
    BY <1>1, <1>3, <1>4, <1>5 DEF DeviceNext

(* The line.                                                               *)
LEMMA LineTypeCorrect ==
    ASSUME TypeOK, LineNext
    PROVE  LineTypeOK'
  <1>1. CASE LoseToDevice
    BY <1>1, HeadTailProperties DEF LoseToDevice, TypeOK, LineTypeOK
  <1>2. CASE LoseToClient
    BY <1>2, HeadTailProperties DEF LoseToClient, TypeOK, LineTypeOK
  <1> QED
    BY <1>1, <1>2 DEF LineNext

(* No step adds more to the maps than the number that is issued.           *)
LEMMA PendingGrowth ==
    ASSUME ClientNext
    PROVE  /\ DOMAIN m_pending_requests' \subseteq DOMAIN m_pending_requests \cup {m_send_seq}
           /\ DOMAIN m_pending_commands' \subseteq DOMAIN m_pending_commands \cup {m_send_seq}
  <1> DEFINE Grows ==
        /\ DOMAIN m_pending_requests' \subseteq DOMAIN m_pending_requests \cup {m_send_seq}
        /\ DOMAIN m_pending_commands' \subseteq DOMAIN m_pending_commands \cup {m_send_seq}
  <1>1. ASSUME UNCHANGED <<m_pending_requests, m_pending_commands>>
        PROVE  Grows
    BY <1>1
  <1>2. ASSUME NEW t \in Threads, Calls(t)
        PROVE  Grows
    BY <1>1, <1>2 DEF Calls, CallIssue, CallWaitForAllRequests, CallStop, Cancel, Enter
  <1>3. ASSUME NEW t \in Threads, ThreadStep(t)
        PROVE  Grows
    <2>1. CASE IssueRequest(t)
      BY <2>1 DEF IssueRequest, With
    <2>2. CASE IssueCommand(t)
      BY <2>2 DEF IssueCommand, With
    <2>3. CASE AwaitEnds(t)
      BY <2>3 DEF AwaitEnds, Without, Restrict
    <2>4. CASE clear_all_active_commands(t)
      BY <2>4 DEF clear_all_active_commands, Restrict
    <2> QED
      BY <1>1, <1>3, <2>1, <2>2, <2>3, <2>4
         DEF ThreadStep, IssueThrows, IssueThrottled, IssueWaits, AwaitSleeps,
             WaitAllEnds, WaitAllSleeps, StopWakesEveryone, StopSends, StopCloses
  <1>4. ASSUME NEW t \in Threads, SpuriousWakeup(t)
        PROVE  Grows
    BY <1>1, <1>4 DEF SpuriousWakeup
  <1>5. CASE Receiver
    <2>1. CASE process_ack_request
      BY <2>1 DEF process_ack_request, AckEntry, Without, Restrict
    <2>2. CASE process_ack_command
      BY <2>2 DEF process_ack_command
    <2>3. CASE process_command_finished
      BY <2>3 DEF process_command_finished, Without, Restrict
    <2> QED
      BY <1>1, <1>5, <2>1, <2>2, <2>3
         DEF Receiver, process_missed_request, process_other, ReceiverNotifies
  <1>6. CASE Retransmitter
    BY <1>1, <1>6 DEF Retransmitter, RetransmitDue, RetransmitExits, RetransmitPass
  <1> QED
    BY <1>2, <1>3, <1>4, <1>5, <1>6 DEF ClientNext

LEMMA StepTypeOK == TypeOK /\ [Next]_vars => TypeOK'
  <1> SUFFICES ASSUME TypeOK, [Next]_vars PROVE TypeOK'
    OBVIOUS
  <1>1. CASE ClientNext /\ UNCHANGED deviceVars
    <2>1. LineTypeOK' /\ PendingTypeOK' /\ ControlTypeOK' /\ FlagTypeOK'
      BY <1>1, CallsTypeOK, ThreadStepTypeOK, SpuriousWakeupTypeOK, ReceiverTypeOK,
         RetransmitterTypeOK DEF ClientNext
    <2>2. DeviceTypeOK'
      BY <1>1 DEF TypeOK, DeviceTypeOK, deviceVars
    <2>3. PendingFinite'
      <3>1. /\ IsFiniteSet(DOMAIN m_pending_requests \cup {m_send_seq})
            /\ IsFiniteSet(DOMAIN m_pending_commands \cup {m_send_seq})
        BY FS_AddElement DEF TypeOK, PendingFinite
      <3> QED
        BY <1>1, <3>1, PendingGrowth, FS_Subset DEF PendingFinite
    <2> QED
      BY <2>1, <2>2, <2>3 DEF TypeOK
  <1>2. CASE DeviceNext /\ UNCHANGED clientVars
    BY <1>2, DeviceTypeCorrect
       DEF TypeOK, PendingTypeOK, PendingFinite, ControlTypeOK, FlagTypeOK, clientVars
  <1>3. CASE LineNext /\ UNCHANGED <<clientVars, deviceVars>>
    BY <1>3, LineTypeCorrect
       DEF TypeOK, PendingTypeOK, PendingFinite, ControlTypeOK, FlagTypeOK,
           DeviceTypeOK, clientVars, deviceVars
  <1>4. CASE UNCHANGED vars
    BY <1>4 DEF TypeOK, LineTypeOK, PendingTypeOK, PendingFinite, ControlTypeOK,
                FlagTypeOK, DeviceTypeOK, vars, lineVars, clientVars, deviceVars
  <1> QED
    BY <1>1, <1>2, <1>3, <1>4 DEF Next

(* Every variable keeps its type.                                          *)
THEOREM TypeCorrect == Spec => []TypeOK
  BY InitTypeOK, StepTypeOK, PTL DEF Spec

-----------------------------------------------------------------------------
(***************************************************************************)
(* The 32 bits of an ack lead back to the entry they are meant for.  The   *)
(* invariant behind it is the window of live sequence numbers: the test of *)
(* MAX_SEQNUM_GAP when a message is issued keeps every live number within  *)
(* a quarter of the range of seqnum_t of the next one, and in such a       *)
(* window infer_full_seqnum is exact (InferFullSeqnumExact).              *)
(***************************************************************************)

LiveWindow == \A s \in LiveSeqnums : m_send_seq - s <= MAX_SEQNUM_GAP + 1

SeqnumInv == TypeOK /\ IssuedBelowNext /\ LiveWindow

-----------------------------------------------------------------------------

LEMMA GapIsQuarterRange == MAX_SEQNUM_GAP \in Nat /\ MAX_SEQNUM_GAP < SeqMod
  <1> DEFINE g == MAX_SEQNUM_GAP
  <1>1. SeqMod - 1 \in Nat
    BY SeqModAssumption
  <1>2. g \in Int /\ 4 * g <= SeqMod - 1 /\ SeqMod - 1 < 4 * g + 4
    BY <1>1 DEF MAX_SEQNUM_GAP
  <1> HIDE DEF g
  <1>3. g \in Nat /\ g < SeqMod
    BY <1>1, <1>2, SeqModAssumption
  <1> QED
    BY <1>3 DEF g

LEMMA InitSeqnumInv == Init => SeqnumInv
  BY InitTypeOK DEF Init, ClientInit, SeqnumInv, IssuedBelowNext, LiveWindow, LiveSeqnums

-----------------------------------------------------------------------------
(* A step either issues one message or makes nothing live.                 *)

NothingIssued ==
    /\ UNCHANGED m_send_seq
    /\ DOMAIN m_pending_requests' \subseteq DOMAIN m_pending_requests
    /\ DOMAIN m_pending_commands' \subseteq DOMAIN m_pending_commands

OneIssued ==
    /\ m_send_seq - oldest_live_seqnum <= MAX_SEQNUM_GAP
    /\ m_send_seq' = m_send_seq + 1
    /\ DOMAIN m_pending_requests' \subseteq DOMAIN m_pending_requests \cup {m_send_seq}
    /\ DOMAIN m_pending_commands' \subseteq DOMAIN m_pending_commands \cup {m_send_seq}

(* oldest_live_seqnum is not above the next number, nor any live one.      *)
LEMMA OldestIsOldest ==
    ASSUME TypeOK
    PROVE  /\ oldest_live_seqnum \in Nat
           /\ \A s \in LiveSeqnums \cup {m_send_seq} : oldest_live_seqnum <= s
  <1> DEFINE S == LiveSeqnums \cup {m_send_seq}
  <1>1. S \in SUBSET Nat /\ S # {}
    BY DEF TypeOK, PendingTypeOK, LiveSeqnums
  <1>2. oldest_live_seqnum = Min(S)
    BY DEF oldest_live_seqnum
  <1> HIDE DEF S
  <1>3. Min(S) \in S /\ \A y \in S : Min(S) <= y
    BY <1>1, MinIsLeast
  <1> QED
    BY <1>1, <1>2, <1>3 DEF S

LEMMA ThreadStepIssues ==
    ASSUME TypeOK, NEW t \in Threads, ThreadStep(t)
    PROVE  NothingIssued \/ OneIssued
  <1>1. CASE IssueRequest(t) \/ IssueCommand(t)
    <2>1. ~(m_send_seq - oldest_live_seqnum > MAX_SEQNUM_GAP)
      BY <1>1 DEF IssueRequest, IssueCommand, Throttled
    <2>2. m_send_seq - oldest_live_seqnum <= MAX_SEQNUM_GAP
      BY <2>1, OldestIsOldest, GapIsQuarterRange DEF TypeOK, PendingTypeOK
    <2> QED
      BY <1>1, <2>2 DEF IssueRequest, IssueCommand, With, OneIssued
  <1>2. CASE AwaitEnds(t)
    BY <1>2 DEF AwaitEnds, Without, Restrict, NothingIssued
  <1>3. CASE clear_all_active_commands(t)
    BY <1>3 DEF clear_all_active_commands, Restrict, NothingIssued
  <1> QED
    BY <1>1, <1>2, <1>3
       DEF ThreadStep, IssueThrows, IssueThrottled, IssueWaits, AwaitSleeps, WaitAllEnds,
           WaitAllSleeps, StopWakesEveryone, StopSends, StopCloses, NothingIssued

LEMMA ReceiverIssuesNothing ==
    ASSUME Receiver
    PROVE  NothingIssued
  <1>1. CASE process_ack_request
    BY <1>1 DEF process_ack_request, AckEntry, Receives, Without, Restrict, NothingIssued
  <1>2. CASE process_ack_command
    BY <1>2 DEF process_ack_command, Receives, NothingIssued
  <1>3. CASE process_command_finished
    BY <1>3 DEF process_command_finished, Receives, Without, Restrict, NothingIssued
  <1> QED
    BY <1>1, <1>2, <1>3
       DEF Receiver, process_missed_request, process_other, ReceiverNotifies,
           Receives, NothingIssued

LEMMA StepIssues ==
    ASSUME TypeOK, [Next]_vars
    PROVE  NothingIssued \/ OneIssued
  <1>1. ASSUME NEW t \in Threads, Calls(t)
        PROVE  NothingIssued
    BY <1>1 DEF Calls, CallIssue, CallWaitForAllRequests, CallStop, Cancel, Enter,
                NothingIssued
  <1>2. ASSUME NEW t \in Threads, SpuriousWakeup(t)
        PROVE  NothingIssued
    BY <1>2 DEF SpuriousWakeup, NothingIssued
  <1>3. CASE Retransmitter
    BY <1>3 DEF Retransmitter, RetransmitDue, RetransmitExits, RetransmitPass,
                NothingIssued
  <1>4. CASE UNCHANGED clientVars
    BY <1>4 DEF clientVars, NothingIssued
  <1> QED
    BY <1>1, <1>2, <1>3, <1>4, ThreadStepIssues, ReceiverIssuesNothing
       DEF Next, ClientNext, vars

LEMMA StepSeqnumInv == SeqnumInv /\ [Next]_vars => SeqnumInv'
  <1> SUFFICES ASSUME SeqnumInv, [Next]_vars PROVE SeqnumInv'
    OBVIOUS
  <1>1. TypeOK /\ TypeOK'
    BY StepTypeOK DEF SeqnumInv
  <1>2. LiveSeqnums \subseteq Nat /\ m_send_seq \in Nat
    BY <1>1 DEF TypeOK, PendingTypeOK, LiveSeqnums
  <1>3. IssuedBelowNext' /\ LiveWindow'
    <2>1. CASE NothingIssued
      BY <2>1 DEF NothingIssued, SeqnumInv, IssuedBelowNext, LiveWindow, LiveSeqnums
    <2>2. CASE OneIssued
      <3>1. LiveSeqnums' \subseteq LiveSeqnums \cup {m_send_seq}
        BY <2>2 DEF OneIssued, LiveSeqnums
      <3>2. m_send_seq' = m_send_seq + 1
            /\ m_send_seq - oldest_live_seqnum <= MAX_SEQNUM_GAP
        BY <2>2 DEF OneIssued
      <3>3. \A s \in LiveSeqnums \cup {m_send_seq} :
              s < m_send_seq + 1 /\ m_send_seq + 1 - s <= MAX_SEQNUM_GAP + 1
        <4> TAKE s \in LiveSeqnums \cup {m_send_seq}
        <4>1. oldest_live_seqnum \in Nat /\ oldest_live_seqnum <= s
          BY <1>1, OldestIsOldest
        <4>2. s \in Nat /\ s <= m_send_seq
          BY <1>2 DEF SeqnumInv, IssuedBelowNext
        <4> QED
          BY <1>2, <3>2, <4>1, <4>2, GapIsQuarterRange
      <3> QED
        <4>1. \A s \in LiveSeqnums' :
                s < m_send_seq' /\ m_send_seq' - s <= MAX_SEQNUM_GAP + 1
          <5> TAKE s \in LiveSeqnums'
          <5>1. s \in LiveSeqnums \cup {m_send_seq}
            BY <3>1
          <5>2. s < m_send_seq + 1 /\ m_send_seq + 1 - s <= MAX_SEQNUM_GAP + 1
            BY <5>1, <3>3
          <5>3. m_send_seq' = m_send_seq + 1
            BY <3>2
          <5> QED
            BY <1>2, <5>1, <5>2, <5>3, GapIsQuarterRange
        <4> QED
          BY <4>1 DEF IssuedBelowNext, LiveWindow
    <2> QED
      BY <1>1, <2>1, <2>2, StepIssues
  <1> QED
    BY <1>1, <1>3 DEF SeqnumInv

-----------------------------------------------------------------------------

(* In a set of numbers within the window, infer_full_seqnum is exact.      *)
LEMMA WindowResolves ==
    ASSUME NEW D \in SUBSET Nat, NEW next \in Nat,
           \A s \in D : s < next /\ next - s <= MAX_SEQNUM_GAP + 1
    PROVE  \A s \in D : InferFullSeqnum(Min(D), Max(D), Truncate(s)) = s
  <1> TAKE s \in D
  <1>1. Min(D) \in D /\ \A y \in D : Min(D) <= y
    BY MinIsLeast
  <1>2. Max(D) \in D /\ \A y \in D : y <= Max(D)
    <2>1. D # {} /\ \A y \in D : y <= next
      OBVIOUS
    <2> QED
      BY <2>1, MaxIsGreatest
  <1>3. Min(D) \in Nat /\ Max(D) \in Nat /\ s \in Nat
    BY <1>1, <1>2
  <1>4. Min(D) <= s /\ s <= Max(D)
    BY <1>1, <1>2
  <1>5. Max(D) - Min(D) < SeqMod
    <2>1. Max(D) < next /\ next - Min(D) <= MAX_SEQNUM_GAP + 1
      BY <1>1, <1>2
    <2> QED
      BY <1>3, <2>1, GapIsQuarterRange, SeqModAssumption
  <1> QED
    BY <1>3, <1>4, <1>5, InferFullSeqnumExact

(* An ack of a live request or command finds its own entry, however far    *)
(* the session has got and wherever the truncated number wraps around.     *)
THEOREM AcksFindTheirEntries == Spec => []LiveSeqnumsResolve
  <1>1. SeqnumInv => LiveSeqnumsResolve
    <2> SUFFICES ASSUME SeqnumInv PROVE LiveSeqnumsResolve
      OBVIOUS
    <2>1. m_send_seq \in Nat
          /\ DOMAIN m_pending_requests \in SUBSET Nat
          /\ DOMAIN m_pending_commands \in SUBSET Nat
      BY DEF SeqnumInv, TypeOK, PendingTypeOK
    <2>2. \A s \in DOMAIN m_pending_requests \cup DOMAIN m_pending_commands :
            s < m_send_seq /\ m_send_seq - s <= MAX_SEQNUM_GAP + 1
      BY DEF SeqnumInv, IssuedBelowNext, LiveWindow, LiveSeqnums
    <2>3. \A s \in DOMAIN m_pending_requests :
            InferFullSeqnum(Min(DOMAIN m_pending_requests),
                            Max(DOMAIN m_pending_requests), Truncate(s)) = s
      BY <2>1, <2>2, WindowResolves
    <2>4. \A s \in DOMAIN m_pending_commands :
            InferFullSeqnum(Min(DOMAIN m_pending_commands),
                            Max(DOMAIN m_pending_commands), Truncate(s)) = s
      BY <2>1, <2>2, WindowResolves
    <2> QED
      BY <2>3, <2>4 DEF LiveSeqnumsResolve, Inferred
  <1> QED
    BY InitSeqnumInv, StepSeqnumInv, <1>1, PTL DEF Spec

-----------------------------------------------------------------------------
(***************************************************************************)
(* The threads that wait for an answer: each owns its entry, and none      *)
(* sleeps through the ack.  The invariant that carries the proof says      *)
(* besides that every entry bears a number already handed out, which is    *)
(* why a new entry is never one that somebody waits for.                   *)
(***************************************************************************)

WaitInv == TypeOK /\ IssuedBelowNext /\ WaiterOwnsEntry /\ NoAckSleptThrough

-----------------------------------------------------------------------------
(* Steps that leave the requests alone.                                    *)

(* Nobody starts to wait, and whoever waits waits for the same request.    *)
NobodyStartsToWait ==
    \A t \in Threads :
        pc'[t] = "await" => pc[t] = "await" /\ handle'[t] = handle[t]

LEMMA RequestsUntouched ==
    ASSUME WaiterOwnsEntry, NobodyStartsToWait, UNCHANGED m_pending_requests
    PROVE  WaiterOwnsEntry'
  BY DEF WaiterOwnsEntry, NobodyStartsToWait

LEMMA SleepersUntouched ==
    ASSUME NoAckSleptThrough, NobodyStartsToWait, m_cv \subseteq Threads,
           UNCHANGED m_pending_requests, m_cv' \subseteq m_cv,
           receiver = "notify" => receiver' = "notify"
    PROVE  NoAckSleptThrough'
  BY DEF NoAckSleptThrough, NobodyStartsToWait

LEMMA NobodySleeps ==
    ASSUME m_cv' = {}
    PROVE  NoAckSleptThrough'
  BY DEF NoAckSleptThrough

LEMMA NumbersUntouched ==
    ASSUME IssuedBelowNext, UNCHANGED m_send_seq,
           DOMAIN m_pending_requests' \subseteq DOMAIN m_pending_requests,
           DOMAIN m_pending_commands' \subseteq DOMAIN m_pending_commands
    PROVE  IssuedBelowNext'
  BY DEF IssuedBelowNext, LiveSeqnums

(* Control that leaves a call, or moves to a place where nothing is waited *)
(* for.                                                                    *)
LEMMA ControlMoves ==
    ASSUME TypeOK, NEW t \in Threads,
           \/ Return(t)
           \/ \E at \in {"issue", "enter_wait", "stop_join", "stop_close"} : Goto(t, at)
           \/ \E o, at : at \in {"issue", "wait_all", "stop_wake"} /\ Enter(t, o, at)
    PROVE  NobodyStartsToWait
  BY DEF Return, Goto, Enter, NobodyStartsToWait, TypeOK, ControlTypeOK

-----------------------------------------------------------------------------
(* Initially nobody waits.                                                 *)
LEMMA InitWaitInv == Init => WaitInv
  <1> SUFFICES ASSUME Init PROVE WaitInv
    OBVIOUS
  <1>1. IssuedBelowNext
    BY DEF Init, ClientInit, IssuedBelowNext, LiveSeqnums
  <1>2. WaiterOwnsEntry
    BY DEF Init, ClientInit, WaiterOwnsEntry
  <1>3. NoAckSleptThrough
    BY DEF Init, ClientInit, NoAckSleptThrough
  <1> QED
    BY <1>1, <1>2, <1>3, InitTypeOK DEF WaitInv

(* A thread starts a call.                                                 *)
LEMMA CallsKeepWaitInv ==
    ASSUME WaitInv, NEW t \in Threads, Calls(t)
    PROVE  IssuedBelowNext' /\ WaiterOwnsEntry' /\ NoAckSleptThrough'
  <1>1. \E o, at : at \in {"issue", "wait_all", "stop_wake"} /\ Enter(t, o, at)
    BY DEF Calls, CallIssue, CallWaitForAllRequests, CallStop, Cancel
  <1>2. NobodyStartsToWait
    BY <1>1, ControlMoves DEF WaitInv
  <1>3. UNCHANGED <<m_send_seq, m_pending_requests, m_pending_commands, m_cv, receiver>>
    BY <1>1 DEF Enter
  <1> QED
    BY <1>2, <1>3, RequestsUntouched, SleepersUntouched, NumbersUntouched
       DEF WaitInv, TypeOK, FlagTypeOK

(* issue_request, with or without a wait to follow: the entry is new.      *)
LEMMA IssueRequestKeepsWaitInv ==
    ASSUME WaitInv, NEW t \in Threads, IssueRequest(t)
    PROVE  IssuedBelowNext' /\ WaiterOwnsEntry' /\ NoAckSleptThrough'
  <1> DEFINE entry == [state |-> "NOT_ACKED", silent_remove |-> SilentRemove(op[t]),
                       type |-> MessageType(op[t])]
  <1>1. /\ m_pending_requests' = With(m_pending_requests, m_send_seq, entry)
        /\ m_send_seq' = m_send_seq + 1
        /\ UNCHANGED <<m_pending_commands, m_cv, receiver>>
        /\ AfterIssue(t) /\ t \notin m_cv
    BY DEF IssueRequest, Awake
  <1>2. /\ DOMAIN m_pending_requests' = DOMAIN m_pending_requests \cup {m_send_seq}
        /\ m_pending_requests'[m_send_seq] = entry
        /\ \A s \in DOMAIN m_pending_requests \ {m_send_seq} :
             m_pending_requests'[s] = m_pending_requests[s]
    BY <1>1 DEF With
  <1>3. m_send_seq \in Nat /\ m_send_seq \notin LiveSeqnums
    BY DEF WaitInv, TypeOK, PendingTypeOK, IssuedBelowNext
  <1>4. IssuedBelowNext'
    BY <1>1, <1>2, <1>3 DEF WaitInv, IssuedBelowNext, LiveSeqnums, TypeOK, PendingTypeOK
  <1>5. \A u \in Threads \ {t} : pc'[u] = pc[u] /\ handle'[u] = handle[u]
    BY <1>1 DEF AfterIssue, Return, WaitInv, TypeOK, ControlTypeOK
  <1>6. pc'[t] = "await" => handle'[t] = m_send_seq /\ ~SilentRemove(op[t])
    BY <1>1 DEF AfterIssue, Return, WaitInv, TypeOK, ControlTypeOK
  <1>7. \A u \in Threads \ {t} : pc[u] = "await" =>
          /\ handle[u] \in DOMAIN m_pending_requests
          /\ handle[u] # m_send_seq
    BY <1>3 DEF WaitInv, WaiterOwnsEntry, LiveSeqnums
  <1>8. WaiterOwnsEntry'
    BY <1>2, <1>5, <1>6, <1>7 DEF WaitInv, WaiterOwnsEntry
  <1>9. NoAckSleptThrough'
    <2> SUFFICES ASSUME NEW u \in m_cv, pc'[u] = "await",
                        handle'[u] \in DOMAIN m_pending_requests',
                        m_pending_requests'[handle'[u]].state = "ACKED"
                 PROVE  receiver' = "notify"
      BY <1>1 DEF NoAckSleptThrough
    <2>1. u \in Threads \ {t}
      BY <1>1 DEF WaitInv, TypeOK, FlagTypeOK
    <2> QED
      BY <1>1, <1>2, <1>5, <1>7, <2>1 DEF WaitInv, NoAckSleptThrough
  <1> QED
    BY <1>4, <1>8, <1>9

(* issue_command: nobody waits for a command.                              *)
LEMMA IssueCommandKeepsWaitInv ==
    ASSUME WaitInv, NEW t \in Threads, IssueCommand(t)
    PROVE  IssuedBelowNext' /\ WaiterOwnsEntry' /\ NoAckSleptThrough'
  <1>1. /\ m_pending_commands' =
             With(m_pending_commands, m_send_seq, [state |-> "NOT_ACKED"])
        /\ m_send_seq' = m_send_seq + 1
        /\ UNCHANGED <<m_pending_requests, m_cv, receiver>>
        /\ AfterIssue(t) /\ op[t] \in CommandOps
    BY DEF IssueCommand
  <1>2. DOMAIN m_pending_commands' = DOMAIN m_pending_commands \cup {m_send_seq}
    BY <1>1 DEF With
  <1>3. IssuedBelowNext'
    BY <1>1, <1>2 DEF WaitInv, IssuedBelowNext, LiveSeqnums, TypeOK, PendingTypeOK
  <1>4. Return(t)
    BY <1>1 DEF AfterIssue, CommandOps, ClearOps, SilentRemove
  <1>5. NobodyStartsToWait
    BY <1>4, ControlMoves DEF WaitInv
  <1> QED
    BY <1>1, <1>3, <1>5, RequestsUntouched, SleepersUntouched
       DEF WaitInv, TypeOK, FlagTypeOK

(* wait_for_request takes its entry and wakes everyone.                    *)
LEMMA AwaitEndsKeepsWaitInv ==
    ASSUME WaitInv, NEW t \in Threads, AwaitEnds(t)
    PROVE  IssuedBelowNext' /\ WaiterOwnsEntry' /\ NoAckSleptThrough'
  <1>1. handle[t] \in DOMAIN m_pending_requests
    BY DEF AwaitEnds, Awake, WaitInv, WaiterOwnsEntry
  <1>2. /\ m_pending_requests' = Without(m_pending_requests, handle[t])
        /\ m_cv' = {}
        /\ UNCHANGED <<m_send_seq, m_pending_commands>>
        /\ Return(t) /\ pc[t] = "await"
    BY <1>1 DEF AwaitEnds, NotifyAll, Awake
  <1>3. /\ DOMAIN m_pending_requests' = DOMAIN m_pending_requests \ {handle[t]}
        /\ \A s \in DOMAIN m_pending_requests \ {handle[t]} :
             m_pending_requests'[s] = m_pending_requests[s]
    BY <1>2 DEF Without, Restrict
  <1>4. NobodyStartsToWait /\ pc'[t] # "await"
    BY <1>2, ControlMoves DEF WaitInv, Return, TypeOK, ControlTypeOK
  <1>5. WaiterOwnsEntry'
    BY <1>2, <1>3, <1>4 DEF WaitInv, WaiterOwnsEntry, NobodyStartsToWait
  <1>6. IssuedBelowNext'
    BY <1>2, <1>3, NumbersUntouched DEF WaitInv
  <1> QED
    BY <1>2, <1>5, <1>6, NobodySleeps

(* A thread that starts to sleep is not one whose request is answered.     *)
LEMMA SleepsKeepsWaitInv ==
    ASSUME WaitInv, NEW t \in Threads,
           AwaitSleeps(t) \/ WaitAllSleeps(t) \/ IssueWaits(t)
    PROVE  IssuedBelowNext' /\ WaiterOwnsEntry' /\ NoAckSleptThrough'
  <1>1. /\ UNCHANGED <<m_send_seq, m_pending_requests, m_pending_commands, receiver>>
        /\ m_cv' \subseteq m_cv \cup {t}
    BY DEF AwaitSleeps, WaitAllSleeps, IssueWaits, Sleep
  <1>2. NobodyStartsToWait
    <2>1. CASE IssueWaits(t)
      BY <2>1, ControlMoves DEF IssueWaits, WaitInv
    <2>2. CASE AwaitSleeps(t) \/ WaitAllSleeps(t)
      BY <2>2 DEF AwaitSleeps, WaitAllSleeps, NobodyStartsToWait
    <2> QED
      BY <2>1, <2>2
  <1>3. pc'[t] = "await" => m_pending_requests[handle[t]].state # "ACKED"
    BY DEF AwaitSleeps, WaitAllSleeps, IssueWaits, Awake, Return, Goto,
           WaitInv, TypeOK, ControlTypeOK
  <1>4. m_cv \subseteq Threads
    BY DEF WaitInv, TypeOK, FlagTypeOK
  <1>5. NoAckSleptThrough'
    BY <1>1, <1>2, <1>3, <1>4 DEF WaitInv, NoAckSleptThrough, NobodyStartsToWait
  <1> QED
    BY <1>1, <1>2, <1>5, RequestsUntouched, NumbersUntouched DEF WaitInv

(* The remaining steps of a thread change neither requests nor sleepers,   *)
(* but to wake them.                                                       *)
LEMMA LeavingKeepsWaitInv ==
    ASSUME WaitInv, NEW t \in Threads,
           \/ IssueThrows(t) \/ IssueThrottled(t) \/ WaitAllEnds(t)
           \/ clear_all_active_commands(t)
           \/ StopWakesEveryone(t) \/ StopSends(t) \/ StopCloses(t)
    PROVE  IssuedBelowNext' /\ WaiterOwnsEntry' /\ NoAckSleptThrough'
  <1>1. /\ UNCHANGED <<m_send_seq, m_pending_requests, receiver>>
        /\ m_cv' = m_cv \/ m_cv' = {}
    BY DEF IssueThrows, IssueThrottled, WaitAllEnds, clear_all_active_commands,
           StopWakesEveryone, StopSends, StopCloses, NotifyAll
  <1>2. DOMAIN m_pending_commands' \subseteq DOMAIN m_pending_commands
    BY DEF IssueThrows, IssueThrottled, WaitAllEnds, clear_all_active_commands,
           StopWakesEveryone, StopSends, StopCloses, Restrict
  <1>3. NobodyStartsToWait
    <2>1. \/ Return(t)
          \/ \E at \in {"issue", "enter_wait", "stop_join", "stop_close"} : Goto(t, at)
      BY DEF IssueThrows, IssueThrottled, WaitAllEnds, clear_all_active_commands,
             StopWakesEveryone, StopSends, StopCloses
    <2> QED
      BY <2>1, ControlMoves DEF WaitInv
  <1> QED
    BY <1>1, <1>2, <1>3, RequestsUntouched, SleepersUntouched, NobodySleeps,
       NumbersUntouched DEF WaitInv, TypeOK, FlagTypeOK

-----------------------------------------------------------------------------
(* The receiver.                                                           *)

(* process_ack_request erases no entry that somebody waits for, and starts *)
(* on a new message only after it has notified for the last one.           *)
LEMMA AckRequestKeepsWaitInv ==
    ASSUME WaitInv, process_ack_request
    PROVE  IssuedBelowNext' /\ WaiterOwnsEntry' /\ NoAckSleptThrough'
  <1> DEFINE seqnum == Head(toClient).seqnum
             s == Inferred(m_pending_requests, seqnum)
             fresh == /\ Known(m_pending_requests, seqnum)
                      /\ m_pending_requests[s].state = "NOT_ACKED"
  <1>1. /\ receiver = "read"
        /\ UNCHANGED <<m_send_seq, m_pending_commands, pc, handle, m_cv>>
        /\ receiver' = IF fresh THEN "notify" ELSE "read"
        /\ m_pending_requests' =
             IF fresh THEN AckEntry(m_pending_requests, s)
             ELSE m_pending_requests
    BY DEF process_ack_request, Receives
  <1>2. fresh => s \in DOMAIN m_pending_requests
    BY DEF Known
  <1>3. \A k \in DOMAIN m_pending_requests :
          m_pending_requests[k] \in PendingRequest
    BY DEF WaitInv, TypeOK, PendingTypeOK
  <1> HIDE DEF s, fresh
  <1>4. NobodyStartsToWait
    BY <1>1 DEF NobodyStartsToWait
  <1>5. CASE ~fresh
    BY <1>1, <1>4, <1>5, RequestsUntouched, SleepersUntouched, NumbersUntouched
       DEF WaitInv, TypeOK, FlagTypeOK
  <1>6. CASE fresh /\ m_pending_requests[s].silent_remove
    <2>1. /\ DOMAIN m_pending_requests' = DOMAIN m_pending_requests \ {s}
          /\ \A k \in DOMAIN m_pending_requests \ {s} :
               m_pending_requests'[k] = m_pending_requests[k]
      BY <1>1, <1>6 DEF AckEntry, Without, Restrict
    <2>2. \A t \in Threads : pc[t] = "await" => handle[t] # s
      BY <1>6 DEF WaitInv, WaiterOwnsEntry
    <2>3. WaiterOwnsEntry'
      BY <1>1, <2>1, <2>2 DEF WaitInv, WaiterOwnsEntry
    <2>4. NoAckSleptThrough'
      BY <1>1, <1>6 DEF NoAckSleptThrough
    <2> QED
      BY <1>1, <2>1, <2>3, <2>4, NumbersUntouched DEF WaitInv
  <1>7. CASE fresh /\ ~m_pending_requests[s].silent_remove
    <2>1. m_pending_requests' = [m_pending_requests EXCEPT ![s].state = "ACKED"]
      BY <1>1, <1>7 DEF AckEntry
    <2>2. DOMAIN m_pending_requests' = DOMAIN m_pending_requests
      BY <2>1
    <2>3. \A k \in DOMAIN m_pending_requests :
            m_pending_requests'[k].silent_remove = m_pending_requests[k].silent_remove
      BY <2>1, <1>3 DEF PendingRequest
    <2>4. WaiterOwnsEntry'
      BY <1>1, <2>2, <2>3 DEF WaitInv, WaiterOwnsEntry
    <2>5. NoAckSleptThrough'
      BY <1>1, <1>7 DEF NoAckSleptThrough
    <2> QED
      BY <1>1, <2>2, <2>4, <2>5, NumbersUntouched DEF WaitInv
  <1> QED
    BY <1>5, <1>6, <1>7

(* The other messages, and the notification.                               *)
LEMMA ReceiverKeepsWaitInv ==
    ASSUME WaitInv, Receiver
    PROVE  IssuedBelowNext' /\ WaiterOwnsEntry' /\ NoAckSleptThrough'
  <1>1. CASE process_ack_request
    BY <1>1, AckRequestKeepsWaitInv
  <1>2. CASE \/ process_ack_command \/ process_command_finished
             \/ process_missed_request \/ process_other \/ ReceiverNotifies
    <2>1. UNCHANGED <<m_send_seq, m_pending_requests, pc, handle>>
      BY <1>2 DEF process_ack_command, process_command_finished,
         process_missed_request, process_other, ReceiverNotifies, Receives
    <2>2. \/ m_cv' = {}
          \/ m_cv' = m_cv /\ (receiver = "notify" => receiver' = "notify")
      BY <1>2 DEF process_ack_command, process_command_finished, NotifyAll,
         process_missed_request, process_other, ReceiverNotifies, Receives
    <2>3. DOMAIN m_pending_commands' \subseteq DOMAIN m_pending_commands
      BY <1>2 DEF process_ack_command, process_command_finished, Without, Restrict,
         process_missed_request, process_other, ReceiverNotifies
    <2>4. NobodyStartsToWait
      BY <2>1 DEF NobodyStartsToWait
    <2> QED
      BY <2>1, <2>2, <2>3, <2>4, RequestsUntouched, SleepersUntouched,
         NobodySleeps, NumbersUntouched DEF WaitInv, TypeOK, FlagTypeOK
  <1> QED
    BY <1>1, <1>2 DEF Receiver

-----------------------------------------------------------------------------
(* Every step.                                                             *)
LEMMA StepWaitInv == WaitInv /\ [Next]_vars => WaitInv'
  <1> SUFFICES ASSUME WaitInv, [Next]_vars PROVE WaitInv'
    OBVIOUS
  <1>1. TypeOK'
    BY StepTypeOK DEF WaitInv
  <1>2. IssuedBelowNext' /\ WaiterOwnsEntry' /\ NoAckSleptThrough'
    <2>1. ASSUME NEW t \in Threads, Calls(t)
          PROVE  IssuedBelowNext' /\ WaiterOwnsEntry' /\ NoAckSleptThrough'
      BY <2>1, CallsKeepWaitInv
    <2>2. ASSUME NEW t \in Threads, ThreadStep(t)
          PROVE  IssuedBelowNext' /\ WaiterOwnsEntry' /\ NoAckSleptThrough'
      BY <2>2, IssueRequestKeepsWaitInv, IssueCommandKeepsWaitInv,
         AwaitEndsKeepsWaitInv, SleepsKeepsWaitInv, LeavingKeepsWaitInv
         DEF ThreadStep
    <2>3. CASE Receiver
      BY <2>3, ReceiverKeepsWaitInv
    <2>4. CASE UNCHANGED <<m_send_seq, m_pending_requests, m_pending_commands,
                           pc, handle, receiver>> /\ m_cv' \subseteq m_cv
      <3>1. NobodyStartsToWait
        BY <2>4 DEF NobodyStartsToWait
      <3> QED
        BY <2>4, <3>1, RequestsUntouched, SleepersUntouched, NumbersUntouched
           DEF WaitInv, TypeOK, FlagTypeOK
    <2>5. ASSUME NEW t \in Threads, SpuriousWakeup(t)
          PROVE  IssuedBelowNext' /\ WaiterOwnsEntry' /\ NoAckSleptThrough'
      BY <2>4, <2>5 DEF SpuriousWakeup
    <2>6. CASE Retransmitter
      BY <2>4, <2>6 DEF Retransmitter, RetransmitDue, RetransmitExits, RetransmitPass
    <2>7. CASE UNCHANGED clientVars
      BY <2>4, <2>7 DEF clientVars
    <2> QED
      BY <2>1, <2>2, <2>3, <2>5, <2>6, <2>7 DEF Next, ClientNext, vars
  <1> QED
    BY <1>1, <1>2 DEF WaitInv

(* wait_for_request finds the entry it was given until it takes it, for    *)
(* any number of threads, any limits and any line.                         *)
THEOREM WaitersOwnTheirEntries == Spec => []WaiterOwnsEntry
  <1>1. WaitInv => WaiterOwnsEntry
    BY DEF WaitInv
  <1> QED
    BY InitWaitInv, StepWaitInv, <1>1, PTL DEF Spec

(* A thread asleep in wait_for_request whose request has been answered is  *)
(* about to be notified.                                                   *)
THEOREM AcksAreNotSleptThrough == Spec => []NoAckSleptThrough
  <1>1. WaitInv => NoAckSleptThrough
    BY DEF WaitInv
  <1> QED
    BY InitWaitInv, StepWaitInv, <1>1, PTL DEF Spec

-----------------------------------------------------------------------------
(***************************************************************************)
(* The two ends: commands processed exactly once and in order (the         *)
(* refinement of ReliableStream), entries that leave only when they are    *)
(* done, no false alarm of a restart, no command dropped by a full queue.  *)
(*                                                                         *)
(* The invariant of all of it is StreamInv: what is on the line in either  *)
(* direction, what is pending and what the device has processed, in terms  *)
(* of the two ends' counters, Sent and Expected.                           *)
(***************************************************************************)

(* Numbers that travel truncated.                                          *)

LEMMA TruncateSmall ==
    ASSUME NEW x \in 0..(SeqMod - 1)
    PROVE  Truncate(x) = x /\ (x > 0 => Truncate(x - SeqMod) = x)
  BY SeqModAssumption, Z3 DEF Truncate

(* The remainder is the only one.                                          *)
LEMMA TruncateUnique ==
    ASSUME NEW q \in Nat, NEW r \in 0..(SeqMod - 1)
    PROVE  Truncate(q * SeqMod + r) = r
  <1> DEFINE n == q * SeqMod + r
             p == n \div SeqMod
             t == Truncate(n)
  <1>1. SeqMod \in Nat /\ q * SeqMod \in Nat /\ n \in Nat /\ n = q * SeqMod + r
    BY SeqModAssumption, Z3
  <1>2. p \in Nat /\ t \in 0..(SeqMod - 1) /\ n = p * SeqMod + t
    BY <1>1, Split
  <1>3. p * SeqMod \in Nat
    BY <1>1, <1>2
  <1> HIDE DEF p, t, n
  <1>4. t = r
    <2>1. CASE p < q
      BY <1>1, <1>2, <1>3, <2>1, MultiplesApart
    <2>2. CASE q < p
      BY <1>1, <1>2, <1>3, <2>2, MultiplesApart
    <2>3. CASE p = q
      BY <1>1, <1>2, <2>3
    <2> QED
      BY <1>2, <2>1, <2>2, <2>3
  <1> QED
    BY <1>4 DEF t, n

(* The successor of a truncated number.                                    *)
LEMMA TruncateNext ==
    ASSUME NEW a \in Nat
    PROVE  Truncate(Truncate(a) + 1) = Truncate(a + 1)
  <1> DEFINE q == a \div SeqMod
             t == Truncate(a)
  <1>1. SeqMod \in Nat \ {0} /\ q \in Nat /\ t \in 0..(SeqMod - 1) /\ a = q * SeqMod + t
    BY Split, SeqModAssumption
  <1> HIDE DEF q, t
  <1>2. CASE t + 1 < SeqMod
    <2>1. t + 1 \in 0..(SeqMod - 1)
      BY <1>1, <1>2
    <2>2. a + 1 = q * SeqMod + (t + 1)
      BY <1>1
    <2>3. Truncate(a + 1) = t + 1 /\ Truncate(t + 1) = t + 1
      BY <1>1, <2>1, <2>2, TruncateUnique, TruncateSmall
    <2> QED
      BY <2>3 DEF t
  <1>3. CASE ~(t + 1 < SeqMod)
    <2>1. a + 1 = (q + 1) * SeqMod + 0 /\ t + 1 = 1 * SeqMod + 0
      BY <1>1, <1>3
    <2>2. q + 1 \in Nat /\ 1 \in Nat /\ 0 \in 0..(SeqMod - 1)
      BY <1>1
    <2>3. Truncate(a + 1) = 0 /\ Truncate(t + 1) = 0
      BY <2>1, <2>2, TruncateUnique
    <2> QED
      BY <2>3 DEF t
  <1> QED
    BY <1>2, <1>3

(* Numbers less than a range apart are told apart by what is on the wire.  *)
LEMMA TruncateInjective ==
    ASSUME NEW a \in Nat, NEW b \in Nat, a - b < SeqMod, b - a < SeqMod,
           Truncate(a) = Truncate(b)
    PROVE  a = b
  <1>1. /\ SeqMod \in Nat /\ HighPart(a) \in Nat /\ HighPart(b) \in Nat
        /\ Truncate(a) \in 0..(SeqMod - 1) /\ Truncate(b) \in 0..(SeqMod - 1)
        /\ a = HighPart(a) + Truncate(a) /\ b = HighPart(b) + Truncate(b)
    BY HighPartBounds
  <1>2. \/ HighPart(a) = HighPart(b)
        \/ HighPart(a) + SeqMod <= HighPart(b)
        \/ HighPart(b) + SeqMod <= HighPart(a)
    BY HighPartsApart
  <1> QED
    BY <1>1, <1>2

(* Their distance, forwards, is that of the numbers on the wire.           *)
LEMMA WireDistance ==
    ASSUME NEW a \in Nat, NEW e \in Nat, a <= e, e - a < SeqMod
    PROVE  /\ Truncate(Truncate(e) - Truncate(a)) = e - a
           /\ a < e => Truncate(Truncate(a) - Truncate(e)) = SeqMod - (e - a)
  <1> DEFINE p == a \div SeqMod
             q == e \div SeqMod
             s == Truncate(a)
             t == Truncate(e)
  <1>1. /\ SeqMod \in Nat \ {0} /\ p \in Nat /\ q \in Nat
        /\ p * SeqMod \in Nat /\ q * SeqMod \in Nat
        /\ s \in 0..(SeqMod - 1) /\ a = p * SeqMod + s
        /\ t \in 0..(SeqMod - 1) /\ e = q * SeqMod + t
    BY Split, SeqModAssumption
  <1> HIDE DEF p, q, s, t
  <1>2. \/ q = p /\ t - s = e - a
        \/ q = p + 1 /\ t - s = e - a - SeqMod
    <2>1. CASE q = p
      BY <1>1, <2>1
    <2>2. CASE q = p + 1
      <3>1. q * SeqMod = p * SeqMod + SeqMod
        BY <1>1, <2>2
      <3> QED
        BY <1>1, <2>2, <3>1
    <2>3. CASE q < p
      <3>1. q * SeqMod + SeqMod <= p * SeqMod
        BY <1>1, <2>3, MultiplesApart
      <3> QED
        BY <1>1, <3>1
    <2>4. CASE p + 1 < q
      <3>1. /\ p * SeqMod + SeqMod <= (p + 1) * SeqMod
            /\ (p + 1) * SeqMod + SeqMod <= q * SeqMod
            /\ (p + 1) * SeqMod \in Nat
        BY <1>1, <2>4, MultiplesApart
      <3> QED
        BY <1>1, <3>1
    <2> QED
      BY <1>1, <2>1, <2>2, <2>3, <2>4
  <1>3. Truncate(t - s) = e - a
    <2>1. e - a \in 0..(SeqMod - 1) /\ (e - a > 0 \/ t - s = e - a)
      BY <1>1, <1>2
    <2> QED
      BY <1>2, <2>1, TruncateSmall
  <1>4. a < e => Truncate(s - t) = SeqMod - (e - a)
    <2> SUFFICES ASSUME a < e PROVE Truncate(s - t) = SeqMod - (e - a)
      OBVIOUS
    <2> DEFINE d == SeqMod - (e - a)
    <2>1. d \in 0..(SeqMod - 1) /\ d > 0 /\ (s - t = d \/ s - t = d - SeqMod)
      BY <1>1, <1>2
    <2> HIDE DEF d
    <2>2. Truncate(s - t) = d
      BY <2>1, TruncateSmall
    <2> QED
      BY <2>2 DEF d
  <1> QED
    BY <1>3, <1>4 DEF s, t

-----------------------------------------------------------------------------
(* What is on a line after a message has been put on it or taken from it.  *)

LEMMA SendElements ==
    ASSUME NEW S, NEW line \in Seq(S), NEW ms \in Seq(S)
    PROVE  /\ Send(line, ms) \in Seq(S)
           /\ \A i \in DOMAIN Send(line, ms) :
                \/ i \in DOMAIN line /\ Send(line, ms)[i] = line[i]
                \/ /\ i > Len(line) /\ i - Len(line) \in DOMAIN ms
                   /\ Send(line, ms)[i] = ms[i - Len(line)]
  <1> DEFINE all == line \o ms
             n == IF Len(all) < MaxLine THEN Len(all) ELSE MaxLine
  <1>1. /\ all \in Seq(S) /\ Len(all) = Len(line) + Len(ms)
        /\ \A i \in 1..Len(all) : all[i] = IF i <= Len(line) THEN line[i]
                                           ELSE ms[i - Len(line)]
    BY ConcatProperties
  <1>2. n \in Nat /\ n <= Len(all)
    BY <1>1, LineAssumption, LenProperties
  <1>3. Send(line, ms) = SubSeq(all, 1, n)
    BY DEF Send
  <1>4. /\ Send(line, ms) \in Seq(S)
        /\ DOMAIN Send(line, ms) = 1..n
        /\ \A i \in 1..n : Send(line, ms)[i] = all[i]
    <2> HIDE DEF all, n
    <2>1. \A i \in 1..n : all[i] \in S
      BY <1>1, <1>2, ElementOfSeq
    <2> QED
      BY <1>2, <1>3, <2>1, SubSeqProperties
  <1> HIDE DEF all, n
  <1>5. /\ Len(line) \in Nat /\ Len(ms) \in Nat
        /\ DOMAIN line = 1..Len(line) /\ DOMAIN ms = 1..Len(ms)
    BY LenProperties
  <1>6. ASSUME NEW i \in 1..n
        PROVE  \/ i \in DOMAIN line /\ Send(line, ms)[i] = line[i]
               \/ /\ i > Len(line) /\ i - Len(line) \in DOMAIN ms
                  /\ Send(line, ms)[i] = ms[i - Len(line)]
    <2>1. i \in 1..Len(all)
      BY <1>1, <1>2, <1>5
    <2> QED
      BY <1>1, <1>4, <1>5, <2>1
  <1> QED
    BY <1>4, <1>6

LEMMA SendOneElements ==
    ASSUME NEW S, NEW line \in Seq(S), NEW m \in S
    PROVE  /\ Send(line, <<m>>) \in Seq(S)
           /\ \A i \in DOMAIN Send(line, <<m>>) :
                \/ i \in DOMAIN line /\ Send(line, <<m>>)[i] = line[i]
                \/ i > Len(line) /\ Send(line, <<m>>)[i] = m
  <1> DEFINE ms == <<m>>
  <1>1. ms \in Seq(S) /\ \A j \in DOMAIN ms : ms[j] = m
    OBVIOUS
  <1> HIDE DEF ms
  <1>2. /\ Send(line, ms) \in Seq(S)
        /\ \A i \in DOMAIN Send(line, ms) :
             \/ i \in DOMAIN line /\ Send(line, ms)[i] = line[i]
             \/ i > Len(line) /\ Send(line, ms)[i] = m
    BY <1>1, SendElements
  <1> QED
    BY <1>2 DEF ms

LEMMA TailElements ==
    ASSUME NEW S, NEW line \in Seq(S), line # <<>>
    PROVE  /\ Tail(line) \in Seq(S) /\ Head(line) = line[1] /\ 1 \in DOMAIN line
           /\ \A i \in DOMAIN Tail(line) :
                i \in Nat \ {0} /\ i + 1 \in DOMAIN line /\ Tail(line)[i] = line[i + 1]
  BY HeadTailProperties, LenProperties

-----------------------------------------------------------------------------
(***************************************************************************)
(* The client by itself, whatever the device does.                         *)
(***************************************************************************)

(* A session is shorter than half the range of seqnum_t (rule 9 of         *)
(* MessageProtocol.h lets the device tell old numbers from new ones over   *)
(* that distance): 2^31 messages in the code.                              *)
ShortSession ==
    /\ FirstSeq <= MaxSeq + 1
    /\ 2 * (MaxSeq + 2 - FirstSeq) <= SeqMod

Issuing == {t \in Threads : pc[t] \in {"issue", "enter_wait"}}

(* The bound on the numbers handed out, as SeqnumLeft maintains it.        *)
NumbersLeft == m_send_seq + Cardinality(Issuing) <= MaxSeq + 1

(* Numbers start at FirstSeq.                                              *)
NumbersFrom == FirstSeq <= m_send_seq /\ \A s \in LiveSeqnums : FirstSeq <= s

(* The compare-and-swap of stop() lets one thread in.                      *)
StopPcs == {"stop_wake", "stop_join", "stop_close"}
OneStopper ==
    /\ \A t \in Threads : pc[t] \in StopPcs =>
         m_state = "STOPPING" /\ \A u \in Threads \ {t} : pc[u] \notin StopPcs
    /\ "shutdown" \notin Ops =>
         m_state = "RUNNING" /\ \A t \in Threads : pc[t] \notin StopPcs

(* Only the calls in Ops are made.                                         *)
CallsAllowed ==
    \A t \in Threads :
        op[t] \in Ops \cup {"none"} /\ (pc[t] = "clear" => op[t] \in ClearOps)

(* A stop or interrupt that is about to clear the commands has a number of *)
(* its own, and one that has been handed out.                              *)
ClearsOlder ==
    \A t \in Threads : pc[t] = "clear" =>
        handle[t] < m_send_seq /\ handle[t] \notin DOMAIN m_pending_commands

(* Nothing is issued before connect() has returned but its own reset, and  *)
(* that once: the first number of all.                                     *)
ConnectsFirst ==
    /\ ~ready => FirstSeq = 1
    /\ \A t \in Threads : op[t] = "connect" =>
         ~ready /\ \A u \in Threads \ {t} : op[u] # "connect"
    /\ ready => \A s \in DOMAIN m_pending_requests :
                  m_pending_requests[s].type # "reset"
    /\ ~ready =>
         /\ \A t \in Threads :
              pc[t] \in {"issue", "enter_wait", "await"} => op[t] = "connect"
         /\ DOMAIN m_pending_commands = {}
         /\ \A s \in DOMAIN m_pending_requests :
              s = FirstSeq /\ m_pending_requests[s].type = "reset"
         /\ \/ m_send_seq = FirstSeq
            \/ /\ m_send_seq = FirstSeq + 1
               /\ \/ m_error \/ m_state # "RUNNING"
                  \/ \E t \in Threads : pc[t] = "await"

ClientInv ==
    /\ SeqnumInv /\ WaitInv
    /\ NumbersLeft /\ NumbersFrom /\ OneStopper /\ CallsAllowed /\ ClearsOlder
    /\ ConnectsFirst

LEMMA InitClientInv ==
    ASSUME ShortSession, Init
    PROVE  ClientInv
  <1> USE DEF Init, ClientInit
  <1>1. NumbersLeft
    <2>1. Issuing = {}
      BY DEF Issuing
    <2> QED
      BY <2>1, FS_EmptySet, ClientAssumption DEF NumbersLeft, ShortSession
  <1>2. NumbersFrom /\ OneStopper /\ CallsAllowed /\ ClearsOlder
    BY ClientAssumption DEF NumbersFrom, OneStopper, CallsAllowed, ClearsOlder, LiveSeqnums, StopPcs
  <1>3. ConnectsFirst
    <2>1. ~ready => FirstSeq = 1
      BY Zenon
    <2>2. /\ \A t \in Threads : op[t] = "none" /\ pc[t] = "idle"
          /\ DOMAIN m_pending_requests = {} /\ DOMAIN m_pending_commands = {}
          /\ m_send_seq = FirstSeq
      OBVIOUS
    <2> HIDE DEF Init, ClientInit
    <2> QED
      BY <2>1, <2>2 DEF ConnectsFirst
  <1> QED
    BY <1>1, <1>2, <1>3, InitSeqnumInv, InitWaitInv DEF ClientInv

(* The steps, by what they do to the threads.                              *)
LEMMA StepKinds ==
    ASSUME [Next]_vars
    PROVE  \/ \E t \in Threads : Calls(t) /\ UNCHANGED deviceVars
           \/ \E t \in Threads : ThreadStep(t) /\ UNCHANGED deviceVars
           \/ Receiver /\ UNCHANGED deviceVars
           \/ UNCHANGED <<m_send_seq, m_pending_requests, m_pending_commands,
                          m_state, m_error, pc, op, handle, ready>>
  BY DEF Next, ClientNext, vars, clientVars, SpuriousWakeup, Retransmitter,
         RetransmitDue, RetransmitExits, RetransmitPass

LEMMA ReceiverKeepsControl ==
    ASSUME Receiver
    PROVE  UNCHANGED <<m_send_seq, m_state, pc, op, handle, ready>>
  BY DEF Receiver, process_ack_request, process_ack_command, process_command_finished,
         process_missed_request, process_other, ReceiverNotifies, Receives

LEMMA StepNumbersLeft ==
    ASSUME TypeOK, NumbersLeft, [Next]_vars
    PROVE  NumbersLeft'
  <1> USE DEF TypeOK, ControlTypeOK, PendingTypeOK
  <1>1. /\ m_send_seq \in Nat /\ MaxSeq \in Nat
        /\ IsFiniteSet(Issuing) /\ Cardinality(Issuing) \in Nat
    BY ClientAssumption, FS_Subset, FS_CardinalityType DEF Issuing
  <1>2. ASSUME m_send_seq' = m_send_seq, Issuing' \subseteq Issuing
        PROVE  NumbersLeft'
    <2>1. Cardinality(Issuing') \in Nat /\ Cardinality(Issuing') <= Cardinality(Issuing)
      BY <1>1, <1>2, FS_Subset, FS_CardinalityType
    <2> QED
      BY <1>1, <1>2, <2>1 DEF NumbersLeft
  <1>3. ASSUME NEW t \in Threads, Calls(t)
        PROVE  NumbersLeft'
    <2>1. CASE Issuing' \subseteq Issuing
      <3>1. m_send_seq' = m_send_seq
        BY <1>3 DEF Calls, CallIssue, CallWaitForAllRequests, CallStop, Cancel, Enter
      <3> QED
        BY <1>2, <2>1, <3>1
    <2>2. CASE SeqnumLeft /\ Issuing' \subseteq Issuing \cup {t} /\ m_send_seq' = m_send_seq
      <3> DEFINE D == Issuing \cup {t}
      <3>1. IsFiniteSet(D) /\ Cardinality(D) <= Cardinality(Issuing) + 1
        <4>1. /\ IsFiniteSet(D)
              /\ \/ Cardinality(D) = Cardinality(Issuing)
                 \/ Cardinality(D) = Cardinality(Issuing) + 1
          BY <1>1, FS_AddElement
        <4> QED
          BY <1>1, <4>1
      <3>2. Cardinality(Issuing') <= Cardinality(Issuing) + 1 /\ Cardinality(Issuing') \in Nat
        <4>1. Issuing' \subseteq D
          BY <2>2
        <4> HIDE DEF D
        <4>2. /\ Cardinality(Issuing') <= Cardinality(D) /\ Cardinality(D) \in Nat
              /\ Cardinality(Issuing') \in Nat
          BY <3>1, <4>1, FS_Subset, FS_CardinalityType
        <4> QED
          BY <1>1, <3>1, <4>2
      <3>3. m_send_seq + Cardinality(Issuing) <= MaxSeq
        BY <2>2 DEF SeqnumLeft, Issuing
      <3> QED
        BY <1>1, <2>2, <3>2, <3>3 DEF NumbersLeft
    <2> QED
      BY <1>3, <2>1, <2>2
         DEF Calls, CallIssue, CallWaitForAllRequests, CallStop, Cancel, Enter, Issuing
  <1>4. ASSUME NEW t \in Threads, ThreadStep(t)
        PROVE  NumbersLeft'
    <2>1. CASE IssueRequest(t) \/ IssueCommand(t)
      <3>1. t \in Issuing /\ m_send_seq' = m_send_seq + 1
        BY <2>1 DEF IssueRequest, IssueCommand, Awake, Issuing
      <3>2. Issuing' \subseteq Issuing \ {t}
        BY <2>1 DEF IssueRequest, IssueCommand, AfterIssue, Return, Issuing
      <3>3. /\ IsFiniteSet(Issuing \ {t})
            /\ Cardinality(Issuing \ {t}) = Cardinality(Issuing) - 1
            /\ Cardinality(Issuing \ {t}) \in Nat
        BY <1>1, <3>1, FS_RemoveElement, FS_CardinalityType
      <3>4. Cardinality(Issuing') <= Cardinality(Issuing) - 1 /\ Cardinality(Issuing') \in Nat
        BY <1>1, <3>2, <3>3, FS_Subset, FS_CardinalityType
      <3> QED
        BY <1>1, <3>1, <3>4 DEF NumbersLeft
    <2>2. CASE ~(IssueRequest(t) \/ IssueCommand(t))
      <3>1. m_send_seq' = m_send_seq
        BY <1>4, <2>2
           DEF ThreadStep, IssueThrows, IssueThrottled, IssueWaits, AwaitEnds, AwaitSleeps,
               WaitAllEnds, WaitAllSleeps, clear_all_active_commands, StopWakesEveryone,
               StopSends, StopCloses
      <3>2. Issuing' \subseteq Issuing
        BY <1>4, <2>2
           DEF ThreadStep, IssueThrows, IssueThrottled, IssueWaits, AwaitEnds, AwaitSleeps,
               WaitAllEnds, WaitAllSleeps, clear_all_active_commands, StopWakesEveryone,
               StopSends, StopCloses, Issuing, Return, Goto, Awake
      <3> QED
        BY <1>2, <3>1, <3>2
    <2> QED
      BY <2>1, <2>2
  <1>5. CASE Receiver
    BY <1>2, <1>5, ReceiverKeepsControl DEF Issuing
  <1> QED
    BY <1>2, <1>3, <1>4, <1>5, StepKinds DEF Issuing

LEMMA StepNumbersFrom ==
    ASSUME TypeOK, NumbersFrom, [Next]_vars
    PROVE  NumbersFrom'
  BY StepIssues, ClientAssumption
     DEF NothingIssued, OneIssued, NumbersFrom, LiveSeqnums, TypeOK, PendingTypeOK

LEMMA StepOneStopper ==
    ASSUME TypeOK, OneStopper, [Next]_vars
    PROVE  OneStopper'
  <1> USE DEF TypeOK, ControlTypeOK, OneStopper, StopPcs
  <1>1. ASSUME NEW t \in Threads, Calls(t)
        PROVE  OneStopper'
    BY <1>1 DEF Calls, CallIssue, CallWaitForAllRequests, CallStop, Cancel, Enter
  <1>2. ASSUME NEW t \in Threads, ThreadStep(t)
        PROVE  OneStopper'
    <2>1. CASE StopWakesEveryone(t) \/ StopSends(t) \/ StopCloses(t)
      BY <2>1 DEF StopWakesEveryone, StopSends, StopCloses, Goto, Return, Awake
    <2>2. CASE IssueRequest(t) \/ IssueCommand(t)
      BY <2>2 DEF IssueRequest, IssueCommand, AfterIssue, Return
    <2> QED
      BY <1>2, <2>1, <2>2
         DEF ThreadStep, IssueThrows, IssueThrottled, IssueWaits, AwaitEnds, AwaitSleeps,
             WaitAllEnds, WaitAllSleeps, clear_all_active_commands, Return, Goto
  <1> QED
    BY <1>1, <1>2, StepKinds, ReceiverKeepsControl

LEMMA StepCallsAllowed ==
    ASSUME TypeOK, CallsAllowed, [Next]_vars
    PROVE  CallsAllowed'
  <1> USE DEF TypeOK, ControlTypeOK, CallsAllowed
  <1>1. ASSUME NEW t \in Threads, Calls(t)
        PROVE  CallsAllowed'
    BY <1>1 DEF Calls, CallIssue, CallWaitForAllRequests, CallStop, Cancel, Enter
  <1>2. ASSUME NEW t \in Threads, ThreadStep(t)
        PROVE  CallsAllowed'
    <2>1. CASE IssueRequest(t) \/ IssueCommand(t)
      BY <2>1 DEF IssueRequest, IssueCommand, AfterIssue, Return
    <2> QED
      BY <1>2, <2>1
         DEF ThreadStep, IssueThrows, IssueThrottled, IssueWaits, AwaitEnds, AwaitSleeps,
             WaitAllEnds, WaitAllSleeps, clear_all_active_commands, StopWakesEveryone,
             StopSends, StopCloses, Return, Goto
  <1> QED
    BY <1>1, <1>2, StepKinds, ReceiverKeepsControl

LEMMA StepClearsOlder ==
    ASSUME TypeOK, IssuedBelowNext, ClearsOlder, [Next]_vars
    PROVE  ClearsOlder'
  <1> USE DEF TypeOK, ControlTypeOK, PendingTypeOK, ClearsOlder
  <1>1. ASSUME \A t \in Threads : pc'[t] = "clear" => pc[t] = "clear" /\ handle'[t] = handle[t]
        PROVE  ClearsOlder'
    BY <1>1, StepIssues DEF NothingIssued, OneIssued
  <1>2. ASSUME NEW t \in Threads, Calls(t)
        PROVE  ClearsOlder'
    BY <1>1, <1>2 DEF Calls, CallIssue, CallWaitForAllRequests, CallStop, Cancel, Enter
  <1>3. ASSUME NEW t \in Threads, ThreadStep(t)
        PROVE  ClearsOlder'
    <2>1. CASE IssueRequest(t)
      <3>1. m_send_seq \notin DOMAIN m_pending_commands
        BY DEF IssuedBelowNext, LiveSeqnums
      <3> QED
        BY <2>1, <3>1 DEF IssueRequest, AfterIssue, Return
    <2>2. CASE IssueCommand(t)
      <3>1. Return(t)
        BY <2>2 DEF IssueCommand, AfterIssue, CommandOps, ClearOps, SilentRemove
      <3> QED
        BY <1>1, <3>1 DEF Return
    <2> QED
      BY <1>1, <1>3, <2>1, <2>2
         DEF ThreadStep, IssueThrows, IssueThrottled, IssueWaits, AwaitEnds, AwaitSleeps,
             WaitAllEnds, WaitAllSleeps, clear_all_active_commands, StopWakesEveryone,
             StopSends, StopCloses, Return, Goto
  <1> QED
    BY <1>1, <1>2, <1>3, StepKinds, ReceiverKeepsControl

(* The receiver changes no entry's type, and never takes m_error back.     *)
LEMMA ReceiverKeepsEntries ==
    ASSUME TypeOK, Receiver
    PROVE  /\ DOMAIN m_pending_requests' \subseteq DOMAIN m_pending_requests
           /\ \A s \in DOMAIN m_pending_requests' :
                m_pending_requests'[s].type = m_pending_requests[s].type
           /\ DOMAIN m_pending_commands' \subseteq DOMAIN m_pending_commands
           /\ m_error => m_error'
  <1>1. CASE process_ack_request
    <2> DEFINE s == Inferred(m_pending_requests, Head(toClient).seqnum)
    <2>1. \/ m_pending_requests' = m_pending_requests
          \/ m_pending_requests' = Without(m_pending_requests, s)
          \/ m_pending_requests' = [m_pending_requests EXCEPT ![s].state = "ACKED"]
      BY <1>1 DEF process_ack_request, AckEntry
    <2>2. UNCHANGED <<m_pending_commands, m_error>>
      BY <1>1 DEF process_ack_request
    <2>3. \A k \in DOMAIN m_pending_requests : m_pending_requests[k] \in PendingRequest
      BY DEF TypeOK, PendingTypeOK
    <2> HIDE DEF s
    <2> QED
      BY <2>1, <2>2, <2>3 DEF Without, Restrict, PendingRequest
  <1>2. CASE process_ack_command
    BY <1>2 DEF process_ack_command
  <1>3. CASE process_command_finished
    BY <1>3 DEF process_command_finished, Without, Restrict
  <1>4. CASE process_missed_request
    BY <1>4 DEF process_missed_request
  <1>5. CASE process_other \/ ReceiverNotifies
    BY <1>5 DEF process_other, ReceiverNotifies
  <1> QED
    BY <1>1, <1>2, <1>3, <1>4, <1>5 DEF Receiver

LEMMA ConnectIsReset ==
    ASSUME NEW o, MessageType(o) = "reset"
    PROVE  o = "connect"
  BY DEF MessageType

LEMMA IssueRequestConnectsFirst ==
    ASSUME TypeOK, IssuedBelowNext, ConnectsFirst, NEW t \in Threads, IssueRequest(t)
    PROVE  ConnectsFirst'
  <1> USE DEF TypeOK, ControlTypeOK, PendingTypeOK
  <1> DEFINE entry == [state |-> "NOT_ACKED", silent_remove |-> SilentRemove(op[t]),
                       type |-> MessageType(op[t])]
  <1>1. /\ m_pending_requests' = With(m_pending_requests, m_send_seq, entry)
        /\ m_send_seq' = m_send_seq + 1
        /\ UNCHANGED <<m_pending_commands, m_state, m_error, ready>>
        /\ AfterIssue(t) /\ pc[t] = "issue" /\ m_state = "RUNNING" /\ ~m_error
    BY DEF IssueRequest, Awake, IssueRefused
  <1>2. /\ DOMAIN m_pending_requests' = DOMAIN m_pending_requests \cup {m_send_seq}
        /\ m_pending_requests'[m_send_seq].type = MessageType(op[t])
        /\ \A s \in DOMAIN m_pending_requests \ {m_send_seq} :
             m_pending_requests'[s] = m_pending_requests[s]
    BY <1>1 DEF With
  <1>3. /\ \A u \in Threads \ {t} : pc'[u] = pc[u] /\ op'[u] = op[u]
        /\ op'[t] \in {op[t], "none"}
        /\ pc'[t] \in {"clear", "await", "idle"}
        /\ pc'[t] = "await" => op'[t] = op[t]
        /\ op[t] = "connect" => pc'[t] = "await"
    BY <1>1 DEF AfterIssue, Return, SilentRemove, ClearOps
  <1>4. CASE ready
    <2>1. MessageType(op[t]) # "reset"
      BY <1>4, ConnectIsReset DEF ConnectsFirst
    <2> QED
      BY <1>1, <1>2, <1>3, <1>4, <2>1 DEF ConnectsFirst
  <1>5. CASE ~ready
    <2>1. op[t] = "connect" /\ MessageType(op[t]) = "reset"
      <3>1. op[t] = "connect"
        BY <1>1, <1>5 DEF ConnectsFirst
      <3>2. MessageType("connect") = "reset"
        BY DEF MessageType, RequestOps, CommandOps
      <3> QED
        BY <3>1, <3>2
    <2>2. m_send_seq = FirstSeq
      BY <1>1, <1>5, <2>1 DEF ConnectsFirst
    <2>3. ~ready' /\ FirstSeq = 1 /\ m_send_seq' = FirstSeq + 1
      BY <1>1, <1>5, <2>2 DEF ConnectsFirst
    <2>4. \A u \in Threads : op'[u] = "connect" =>
            ~ready' /\ \A v \in Threads \ {u} : op'[v] # "connect"
      BY <1>3, <2>1, <2>3 DEF ConnectsFirst
    <2>5. /\ \A u \in Threads : pc'[u] \in {"issue", "enter_wait", "await"} => op'[u] = "connect"
          /\ \E u \in Threads : pc'[u] = "await"
      <3>1. pc'[t] = "await" /\ op'[t] = "connect"
        BY <1>3, <2>1
      <3> QED
        BY <1>3, <1>5, <3>1 DEF ConnectsFirst
    <2>6. /\ DOMAIN m_pending_commands' = {}
          /\ \A s \in DOMAIN m_pending_requests' :
               s = FirstSeq /\ m_pending_requests'[s].type = "reset"
      BY <1>1, <1>2, <1>5, <2>1, <2>2 DEF ConnectsFirst
    <2> QED
      BY <2>3, <2>4, <2>5, <2>6 DEF ConnectsFirst
  <1> QED
    BY <1>4, <1>5

LEMMA AwaitEndsConnectsFirst ==
    ASSUME TypeOK, WaiterOwnsEntry, ConnectsFirst, NEW t \in Threads, AwaitEnds(t)
    PROVE  ConnectsFirst'
  <1> USE DEF TypeOK, ControlTypeOK, PendingTypeOK, FlagTypeOK
  <1> DEFINE acked == m_pending_requests[handle[t]].state = "ACKED"
             failed == m_state # "RUNNING" \/ m_error
  <1>1. handle[t] \in DOMAIN m_pending_requests /\ pc[t] = "await"
    BY DEF AwaitEnds, Awake, WaiterOwnsEntry
  <1>2. /\ m_pending_requests' = Without(m_pending_requests, handle[t])
        /\ failed \/ acked
        /\ UNCHANGED <<m_send_seq, m_pending_commands, m_error, m_state>>
        /\ Return(t)
    BY <1>1 DEF AwaitEnds
  <1>3. ready' = (ready \/ (op[t] = "connect" /\ acked /\ ~failed))
    BY <1>1 DEF AwaitEnds
  <1>4. /\ DOMAIN m_pending_requests' = DOMAIN m_pending_requests \ {handle[t]}
        /\ \A s \in DOMAIN m_pending_requests' :
             m_pending_requests'[s] = m_pending_requests[s]
    BY <1>2 DEF Without, Restrict
  <1>5. /\ \A u \in Threads \ {t} : pc'[u] = pc[u] /\ op'[u] = op[u]
        /\ op'[t] = "none" /\ pc'[t] = "idle"
    BY <1>2 DEF Return
  <1>6. CASE ready
    <2>1. ready'
      BY <1>3, <1>6
    <2> QED
      BY <1>4, <1>5, <1>6, <2>1 DEF ConnectsFirst
  <1>7. CASE ~ready /\ ready'
    <2>1. DOMAIN m_pending_requests' = {}
      BY <1>1, <1>4, <1>7 DEF ConnectsFirst
    <2>2. op[t] = "connect"
      BY <1>1, <1>7 DEF ConnectsFirst
    <2> QED
      BY <1>5, <1>7, <2>1, <2>2 DEF ConnectsFirst
  <1>8. CASE ~ready /\ ~ready'
    <2>1. op[t] = "connect"
      BY <1>1, <1>8 DEF ConnectsFirst
    <2>2. failed
      BY <1>2, <1>3, <1>8, <2>1
    <2> QED
      BY <1>2, <1>4, <1>5, <1>8, <2>2 DEF ConnectsFirst
  <1> QED
    BY <1>6, <1>7, <1>8

LEMMA StepConnectsFirst ==
    ASSUME TypeOK, IssuedBelowNext, WaiterOwnsEntry, ConnectsFirst, [Next]_vars
    PROVE  ConnectsFirst'
  <1> USE DEF TypeOK, ControlTypeOK, PendingTypeOK, FlagTypeOK
  <1>1. ASSUME NEW t \in Threads, Calls(t)
        PROVE  ConnectsFirst'
    BY <1>1 DEF Calls, CallIssue, CallWaitForAllRequests, CallStop, Cancel, Enter,
                ConnectsFirst
  <1>2. ASSUME NEW t \in Threads, ThreadStep(t)
        PROVE  ConnectsFirst'
    <2>1. CASE IssueCommand(t)
      <3>1. Return(t) /\ op[t] # "connect" /\ pc[t] = "issue"
        BY <2>1 DEF IssueCommand, AfterIssue, CommandOps, ClearOps, SilentRemove, Awake
      <3>2. ready
        BY <3>1 DEF ConnectsFirst
      <3> QED
        BY <2>1, <3>1, <3>2 DEF ConnectsFirst, IssueCommand, Return
    <2>2. CASE clear_all_active_commands(t)
      <3>1. DOMAIN m_pending_commands' \subseteq DOMAIN m_pending_commands
        BY <2>2 DEF clear_all_active_commands, Restrict
      <3> QED
        BY <2>2, <3>1 DEF ConnectsFirst, clear_all_active_commands, Return, Awake
    <2>3. CASE StopWakesEveryone(t) \/ StopSends(t) \/ StopCloses(t)
      BY <2>3 DEF StopWakesEveryone, StopSends, StopCloses, Return, Goto, Awake, ConnectsFirst
    <2>4. CASE AwaitSleeps(t) \/ WaitAllSleeps(t)
      BY <2>4 DEF AwaitSleeps, WaitAllSleeps, ConnectsFirst
    <2>5. CASE \/ IssueThrows(t) \/ IssueThrottled(t) \/ IssueWaits(t)
               \/ WaitAllEnds(t)
      <3>1. UNCHANGED <<m_send_seq, m_pending_requests, m_pending_commands,
                        m_state, m_error, ready>>
        BY <2>5 DEF IssueThrows, IssueThrottled, IssueWaits, WaitAllEnds
      <3>2. /\ pc[t] \in {"issue", "enter_wait", "wait_all"}
            /\ \/ Return(t)
               \/ /\ Goto(t, "enter_wait") \/ Goto(t, "issue")
                  /\ pc[t] \in {"issue", "enter_wait"}
        BY <2>5 DEF IssueThrows, IssueThrottled, IssueWaits, WaitAllEnds, Awake
      <3>3. /\ \A u \in Threads \ {t} : pc'[u] = pc[u] /\ op'[u] = op[u]
            /\ pc[t] # "await" /\ pc'[t] # "await"
            /\ \/ op'[t] = "none" /\ pc'[t] = "idle"
               \/ op'[t] = op[t] /\ pc[t] \in {"issue", "enter_wait"}
        BY <3>2 DEF Return, Goto
      <3> HIDE DEF TypeOK, ControlTypeOK, PendingTypeOK, FlagTypeOK
      <3>4. CASE ready
        BY <3>1, <3>3, <3>4 DEF ConnectsFirst
      <3>5. CASE ~ready
        BY <3>1, <3>3, <3>5 DEF ConnectsFirst
      <3> QED
        BY <3>4, <3>5
    <2> QED
      BY <1>2, <2>1, <2>2, <2>3, <2>4, <2>5, IssueRequestConnectsFirst, AwaitEndsConnectsFirst
         DEF ThreadStep
  <1>3. CASE Receiver
    <2>1. UNCHANGED <<m_send_seq, m_state, pc, op, handle, ready>>
      BY <1>3, ReceiverKeepsControl
    <2>2. /\ DOMAIN m_pending_requests' \subseteq DOMAIN m_pending_requests
          /\ \A s \in DOMAIN m_pending_requests' :
               m_pending_requests'[s].type = m_pending_requests[s].type
          /\ DOMAIN m_pending_commands' \subseteq DOMAIN m_pending_commands
          /\ m_error => m_error'
      BY <1>3, ReceiverKeepsEntries
    <2> QED
      BY <2>1, <2>2 DEF ConnectsFirst
  <1> QED
    BY <1>1, <1>2, <1>3, StepKinds DEF ConnectsFirst

LEMMA StepClientInv ==
    ASSUME ClientInv, [Next]_vars
    PROVE  ClientInv'
  BY StepSeqnumInv, StepWaitInv, StepNumbersLeft, StepNumbersFrom, StepOneStopper,
     StepCallsAllowed, StepClearsOlder, StepConnectsFirst
     DEF ClientInv, SeqnumInv, WaitInv

-----------------------------------------------------------------------------
(***************************************************************************)
(* The client, the line and the device together, while the device does not *)
(* restart.  The numbers on the line are truncated; what carries the proof *)
(* is the full number that each of them stands for.                        *)
(***************************************************************************)

(* A new session finds the device in any state and begins with a reset; a  *)
(* session that goes on has left the device waiting for its next number.   *)
DeviceInStep == FirstSeq # 1 => DeviceStart \subseteq {FirstSeq}

(* stop() sends a request without reserving its number: if connect() has   *)
(* not returned by then, the device may never see the number before.       *)
ConnectedBeforeStop == FirstSeq = 1 => "shutdown" \notin Ops

Session == ShortSession /\ DeviceInStep /\ ConnectedBeforeStop

(* The number after the last one on the wire, to which stop() adds one     *)
(* without reserving it, and the next one to process.                      *)
StopSent ==
    m_state = "STOPPED" \/ \E t \in Threads : pc[t] = "stop_close"
Sent == m_send_seq + (IF StopSent THEN 1 ELSE 0)
Expected == FirstSeq + Len(processed)

InOrder ==
    /\ Expected <= Sent
    /\ processed = [i \in 1..Len(processed) |-> FirstSeq + i - 1]

LineNumbered ==
    \A i \in DOMAIN toDevice : toDevice[i].type # "finish_ack" =>
        /\ toDevice[i].id \in FirstSeq..(Sent - 1)
        /\ toDevice[i].seqnum = Truncate(toDevice[i].id)

ExpectsNext ==
    dev_expected = Truncate(Expected) \/ (FirstSeq = 1 /\ processed = <<>>)

(* A reset is never behind a message of another kind: it cannot set the    *)
(* device back.                                                            *)
ResetOrFinish(message) == message.type \in {"reset", "finish_ack"}
ResetsFirst ==
    /\ ~ready => \A i \in DOMAIN toDevice : ResetOrFinish(toDevice[i])
    /\ ready /\ FirstSeq = 1 => Len(processed) > 0
    /\ \A j \in DOMAIN toDevice : toDevice[j].type = "reset" =>
         /\ FirstSeq = 1 /\ toDevice[j].id = FirstSeq /\ Len(processed) <= 1
         /\ \A i \in 1..j : ResetOrFinish(toDevice[i])

(* The device acknowledges nothing that it has not processed.              *)
Answers(message) ==
    \E a \in FirstSeq..(Expected - 1) : message.seqnum = Truncate(a)
AcksProcessed ==
    /\ \A i \in DOMAIN toClient :
         toClient[i].type \in {"ack_request", "ack_command"} => Answers(toClient[i])
    /\ \A s \in DOMAIN m_pending_requests :
         m_pending_requests[s].state = "ACKED" => s < Expected
    /\ \A s \in DOMAIN m_pending_commands :
         m_pending_commands[s].state = "ACKED" => s < Expected

StreamParts ==
    InOrder /\ LineNumbered /\ ExpectsNext /\ ResetsFirst /\ AcksProcessed

StreamInv == ClientInv /\ (reboots = 0 => StreamParts)

LEMMA SentType ==
    ASSUME ClientInv
    PROVE  /\ Sent \in Nat /\ Expected \in Nat /\ FirstSeq \in Nat \ {0}
           /\ m_send_seq \in Nat /\ Len(processed) \in Nat
           /\ FirstSeq <= m_send_seq /\ m_send_seq <= Sent
           /\ Sent <= m_send_seq + 1
           /\ m_send_seq <= MaxSeq + 1 /\ MaxSeq \in Nat
  <1>1. /\ m_send_seq \in Nat /\ FirstSeq <= m_send_seq /\ Len(processed) \in Nat
    BY LenProperties DEF ClientInv, SeqnumInv, TypeOK, PendingTypeOK, DeviceTypeOK, NumbersFrom
  <1>2. m_send_seq <= MaxSeq + 1
    <2>1. Cardinality(Issuing) \in Nat
      BY ClientAssumption, FS_Subset, FS_CardinalityType DEF Issuing
    <2> QED
      BY <1>1, <2>1, ClientAssumption DEF ClientInv, NumbersLeft
  <1> QED
    BY <1>1, <1>2, ClientAssumption DEF Sent, Expected

(* All numbers of a session are less than half a range apart.              *)
LEMMA SessionResolves ==
    ASSUME ClientInv, ShortSession,
           NEW a \in FirstSeq..Sent, NEW b \in FirstSeq..Sent
    PROVE  /\ a \in Nat /\ b \in Nat
           /\ Truncate(a) = Truncate(b) => a = b
           /\ a <= b => b - a <= SeqMod \div 2
           /\ a < Sent => 2 * (a - b) <= SeqMod - 2
  <1>1. SeqMod \in Nat \ {0} /\ 2 * (Sent - FirstSeq) <= SeqMod
    BY SentType, SeqModAssumption DEF ShortSession
  <1>2. /\ a \in Nat /\ b \in Nat /\ 2 * (a - b) <= SeqMod /\ 2 * (b - a) <= SeqMod
        /\ a < Sent => 2 * (a - b) <= SeqMod - 2
    BY <1>1, SentType
  <1>3. a <= b => b - a <= SeqMod \div 2
    BY <1>1, <1>2
  <1> QED
    BY <1>1, <1>2, <1>3, TruncateInjective

(* StopSent changes once, with the step that sends the stop request.       *)
LEMMA StepSent ==
    ASSUME ClientInv, [Next]_vars
    PROVE  \/ Sent' = Sent
           \/ Sent' = Sent + 1 /\ UNCHANGED deviceVars
  <1> USE DEF ClientInv, SeqnumInv, TypeOK, ControlTypeOK, PendingTypeOK, OneStopper, StopPcs
  <1>1. ASSUME NEW t \in Threads, Calls(t)
        PROVE  Sent' = Sent
    BY <1>1 DEF Calls, CallIssue, CallWaitForAllRequests, CallStop, Cancel, Enter,
                Sent, StopSent
  <1>2. ASSUME NEW t \in Threads, ThreadStep(t)
        PROVE  Sent' = Sent \/ Sent' = Sent + 1
    <2>1. CASE IssueRequest(t) \/ IssueCommand(t)
      <3>1. ~StopSent /\ m_send_seq' = m_send_seq + 1
        BY <2>1 DEF IssueRequest, IssueCommand, IssueRefused, StopSent
      <3>2. ~StopSent'
        BY <2>1, <3>1 DEF IssueRequest, IssueCommand, AfterIssue, Return, StopSent
      <3> QED
        BY <3>1, <3>2 DEF Sent
    <2>2. CASE StopSends(t)
      <3>1. ~StopSent /\ UNCHANGED m_send_seq
        BY <2>2 DEF StopSends, Awake, StopSent
      <3>2. StopSent'
        BY <2>2 DEF StopSends, Goto, StopSent
      <3> QED
        BY <3>1, <3>2 DEF Sent
    <2>3. CASE StopCloses(t)
      <3>1. StopSent /\ StopSent' /\ UNCHANGED m_send_seq
        BY <2>3 DEF StopCloses, Awake, StopSent
      <3> QED
        BY <3>1 DEF Sent
    <2>4. CASE StopWakesEveryone(t) \/ clear_all_active_commands(t) \/ AwaitEnds(t)
      <3>1. /\ UNCHANGED <<m_send_seq, m_state>> /\ pc[t] # "stop_close" /\ pc'[t] # "stop_close"
            /\ \A u \in Threads \ {t} : pc'[u] = pc[u]
        BY <2>4 DEF StopWakesEveryone, clear_all_active_commands, AwaitEnds, Awake, Goto, Return
      <3> QED
        BY <3>1 DEF Sent, StopSent
    <2>5. CASE \/ IssueThrows(t) \/ IssueThrottled(t) \/ IssueWaits(t) \/ AwaitSleeps(t)
               \/ WaitAllEnds(t) \/ WaitAllSleeps(t)
      <3>1. /\ UNCHANGED <<m_send_seq, m_state>> /\ pc[t] # "stop_close" /\ pc'[t] # "stop_close"
            /\ \A u \in Threads \ {t} : pc'[u] = pc[u]
        BY <2>5 DEF IssueThrows, IssueThrottled, IssueWaits, AwaitSleeps, WaitAllEnds,
                    WaitAllSleeps, Awake, Goto, Return
      <3> QED
        BY <3>1 DEF Sent, StopSent
    <2> QED
      BY <1>2, <2>1, <2>2, <2>3, <2>4, <2>5 DEF ThreadStep
  <1>3. CASE UNCHANGED <<m_send_seq, m_state, pc>>
    BY <1>3 DEF Sent, StopSent
  <1> QED
    BY <1>1, <1>2, <1>3, StepKinds, ReceiverKeepsControl

(* What the client may put on the line: the message of a pending entry, or *)
(* the one that stop() sends.                                              *)
OfPending(message) ==
    \/ /\ message.id \in DOMAIN m_pending_requests'
       /\ message.type = m_pending_requests'[message.id].type
    \/ message.id \in DOMAIN m_pending_commands' /\ message.type = "command"
    \/ message.id = m_send_seq /\ message.type = "stop" /\ StopSent'

Fresh(message) ==
    \/ message.type = "finish_ack"
    \/ /\ message.id \in FirstSeq..(Sent' - 1)
       /\ message.seqnum = Truncate(message.id)
       /\ message.type = "reset" => ~ready /\ message.id = FirstSeq
       /\ ~ready => message.type = "reset"
       /\ OfPending(message)

LineGrows(old, new) ==
    \A i \in DOMAIN new :
        \/ i \in DOMAIN old /\ new[i] = old[i]
        \/ i > Len(old) /\ Fresh(new[i])

(* A message of a request or command that is pending.                      *)
LEMMA PendingIsFresh ==
    ASSUME ClientInv, [Next]_vars, UNCHANGED <<m_pending_requests, m_pending_commands>>
    PROVE  /\ \A s \in DOMAIN m_pending_requests :
                /\ Message(m_pending_requests[s].type, s) \in DeviceMessage
                /\ Fresh(Message(m_pending_requests[s].type, s))
           /\ \A s \in DOMAIN m_pending_commands :
                /\ Message("command", s) \in DeviceMessage
                /\ Fresh(Message("command", s))
  <1>1. ASSUME NEW s \in LiveSeqnums
        PROVE  s \in Nat /\ s \in FirstSeq..(Sent' - 1)
    <2>1. s \in Nat /\ FirstSeq <= s /\ s < m_send_seq
      BY <1>1 DEF ClientInv, SeqnumInv, NumbersFrom, IssuedBelowNext, TypeOK, PendingTypeOK,
                  LiveSeqnums
    <2>2. /\ Sent' = Sent \/ Sent' = Sent + 1
          /\ Sent \in Nat /\ m_send_seq \in Nat /\ m_send_seq <= Sent
          /\ FirstSeq \in Nat
      BY StepSent, SentType
    <2> QED
      BY <2>1, <2>2
  <1>2. ASSUME NEW s \in DOMAIN m_pending_requests
        PROVE  /\ Message(m_pending_requests[s].type, s) \in DeviceMessage
               /\ Fresh(Message(m_pending_requests[s].type, s))
    <2>1. s \in Nat /\ s \in FirstSeq..(Sent' - 1)
      BY <1>1, <1>2 DEF LiveSeqnums
    <2>2. m_pending_requests[s].type \in RequestTypes
      BY <1>2 DEF ClientInv, SeqnumInv, TypeOK, PendingTypeOK, PendingRequest
    <2>3. /\ m_pending_requests[s].type = "reset" => ~ready /\ s = FirstSeq
          /\ ~ready => m_pending_requests[s].type = "reset"
      BY <1>2 DEF ClientInv, ConnectsFirst
    <2>4. OfPending(Message(m_pending_requests[s].type, s))
      BY <1>2 DEF OfPending, Message
    <2> QED
      BY <2>1, <2>2, <2>3, <2>4, MessageIsDeviceMessage DEF Fresh, Message
  <1>3. ASSUME NEW s \in DOMAIN m_pending_commands
        PROVE  Message("command", s) \in DeviceMessage /\ Fresh(Message("command", s))
    <2>1. s \in Nat /\ s \in FirstSeq..(Sent' - 1)
      BY <1>1, <1>3 DEF LiveSeqnums
    <2>2. ready
      BY <1>3 DEF ClientInv, ConnectsFirst, SeqnumInv, TypeOK, FlagTypeOK
    <2>3. OfPending(Message("command", s))
      BY <1>3 DEF OfPending, Message
    <2> QED
      BY <2>1, <2>2, <2>3, MessageIsDeviceMessage DEF Fresh, Message
  <1> QED
    BY <1>2, <1>3

(* One message more.                                                       *)
LEMMA SendsFresh ==
    ASSUME TypeOK, NEW message \in DeviceMessage, Fresh(message),
           toDevice' = Send(toDevice, <<message>>)
    PROVE  LineGrows(toDevice, toDevice')
  BY SendOneElements DEF TypeOK, LineTypeOK, LineGrows

LEMMA IssueWrites ==
    ASSUME ClientInv, [Next]_vars, NEW t \in Threads, IssueRequest(t) \/ IssueCommand(t)
    PROVE  LineGrows(toDevice, toDevice')
  <1>1. PICK type \in RequestTypes \cup {"command"} :
          /\ toDevice' = Send(toDevice, <<Message(type, m_send_seq)>>)
          /\ \/ type = MessageType(op[t]) /\ op[t] \notin CommandOps
             \/ type = "command" /\ op[t] \in CommandOps
    BY MessageTypeType DEF IssueRequest, IssueCommand
  <1>2. /\ m_send_seq' = m_send_seq + 1 /\ pc[t] = "issue"
        /\ m_state = "RUNNING" /\ ~m_error
    BY DEF IssueRequest, IssueCommand, Awake, IssueRefused
  <1>3. m_send_seq \in FirstSeq..(Sent' - 1)
    <2>1. m_send_seq \in Nat /\ FirstSeq \in Nat /\ FirstSeq <= m_send_seq
      BY SentType
    <2>2. Sent' = m_send_seq + 1 \/ Sent' = m_send_seq + 2
      BY <1>2, <2>1 DEF Sent
    <2> QED
      BY <2>1, <2>2
  <1>4. type = "reset" => op[t] = "connect"
    BY <1>1, ConnectIsReset
  <1>5. op[t] = "connect" => ~ready
    BY DEF ConnectsFirst, ClientInv
  <1>6. ~ready => op[t] = "connect"
    BY <1>2 DEF ConnectsFirst, ClientInv
  <1>7. op[t] = "connect" => type = "reset"
    BY <1>1 DEF MessageType, RequestOps, CommandOps
  <1>8. ~ready => m_send_seq = FirstSeq
    BY <1>2, <1>6 DEF ConnectsFirst, ClientInv
  <1>9. Fresh(Message(type, m_send_seq))
    <2>1. \/ /\ m_send_seq \in DOMAIN m_pending_requests'
             /\ m_pending_requests'[m_send_seq].type = type
          \/ m_send_seq \in DOMAIN m_pending_commands' /\ type = "command"
      <3>1. CASE IssueRequest(t)
        BY <1>1, <3>1 DEF IssueRequest, With
      <3>2. CASE IssueCommand(t)
        BY <1>1, <3>2 DEF IssueCommand, With
      <3> QED
        BY <3>1, <3>2
    <2>2. OfPending(Message(type, m_send_seq))
      BY <2>1 DEF OfPending, Message
    <2> QED
      BY <1>3, <1>4, <1>5, <1>6, <1>7, <1>8, <2>2 DEF Fresh, Message
  <1>10. Message(type, m_send_seq) \in DeviceMessage
    BY SentType, MessageIsDeviceMessage
  <1> QED
    BY <1>1, <1>9, <1>10, SendsFresh DEF ClientInv, SeqnumInv

LEMMA StopWrites ==
    ASSUME ClientInv, ConnectedBeforeStop, [Next]_vars, NEW t \in Threads, StopSends(t)
    PROVE  LineGrows(toDevice, toDevice')
  <1>1. /\ toDevice' = Send(toDevice, <<Message("stop", m_send_seq)>>)
        /\ UNCHANGED m_send_seq
        /\ pc[t] = "stop_join" /\ pc'[t] = "stop_close"
    BY DEF StopSends, Awake, Goto, ClientInv, SeqnumInv, TypeOK, ControlTypeOK
  <1>2. ready
    BY <1>1 DEF ClientInv, ConnectsFirst, ConnectedBeforeStop, OneStopper, StopPcs
  <1>3. StopSent'
    BY <1>1 DEF StopSent
  <1>4. m_send_seq \in FirstSeq..(Sent' - 1)
    BY <1>1, <1>3, SentType DEF Sent
  <1>5. Fresh(Message("stop", m_send_seq))
    <2>1. OfPending(Message("stop", m_send_seq))
      BY <1>3 DEF OfPending, Message
    <2> QED
      BY <1>2, <1>4, <2>1 DEF Fresh, Message
  <1>6. Message("stop", m_send_seq) \in DeviceMessage
    BY SentType, MessageIsDeviceMessage DEF RequestTypes
  <1> QED
    BY <1>1, <1>5, <1>6, SendsFresh DEF ClientInv, SeqnumInv

LEMMA FinishWrites ==
    ASSUME TypeOK, process_command_finished
    PROVE  LineGrows(toDevice, toDevice')
  <1> DEFINE ack == [type |-> "finish_ack", seqnum |-> Head(toClient).seqnum, id |-> 0]
  <1>1. toDevice' = Send(toDevice, <<ack>>) /\ toClient # <<>>
    BY DEF process_command_finished, Receives
  <1>2. Head(toClient) \in ClientMessage
    BY <1>1, HeadTailProperties DEF TypeOK, LineTypeOK
  <1>3. ack \in DeviceMessage /\ Fresh(ack)
    BY <1>2 DEF ClientMessage, DeviceMessage, Fresh
  <1> HIDE DEF ack
  <1> QED
    BY <1>1, <1>3, SendsFresh

(* A pass of the retransmit thread.                                        *)
LEMMA PassWrites ==
    ASSUME ClientInv, [Next]_vars, RetransmitPass
    PROVE  LineGrows(toDevice, toDevice')
  <1> USE DEF ClientInv, SeqnumInv
  <1>1. PICK R \in SUBSET DOMAIN m_pending_requests,
             C \in SUBSET DOMAIN m_pending_commands :
          \E rs \in Increasing(R), cs \in Increasing(C) :
            toDevice' =
              Send(toDevice,
                   [i \in DOMAIN rs |-> Message(m_pending_requests[rs[i]].type, rs[i])]
                   \o [i \in DOMAIN cs |-> Message("command", cs[i])])
    BY DEF RetransmitPass, NotAcked
  <1>2. PICK rs \in Increasing(R), cs \in Increasing(C) :
            toDevice' =
              Send(toDevice,
                   [i \in DOMAIN rs |-> Message(m_pending_requests[rs[i]].type, rs[i])]
                   \o [i \in DOMAIN cs |-> Message("command", cs[i])])
    BY <1>1
  <1> DEFINE ms == [i \in DOMAIN rs |-> Message(m_pending_requests[rs[i]].type, rs[i])]
             ns == [i \in DOMAIN cs |-> Message("command", cs[i])]
  <1>3. /\ Cardinality(R) \in Nat /\ rs \in [1..Cardinality(R) -> R]
        /\ Cardinality(C) \in Nat /\ cs \in [1..Cardinality(C) -> C]
    BY FS_Subset, FS_CardinalityType DEF TypeOK, PendingFinite, Increasing
  <1>4. ms \in Seq(DeviceMessage) /\ \A i \in DOMAIN ms : Fresh(ms[i])
    <2>1. \A i \in DOMAIN rs : Message(m_pending_requests[rs[i]].type, rs[i]) \in DeviceMessage
                               /\ Fresh(Message(m_pending_requests[rs[i]].type, rs[i]))
      BY <1>3, PendingIsFresh DEF RetransmitPass
    <2> QED
      BY <1>3, <2>1
  <1>5. ns \in Seq(DeviceMessage) /\ \A i \in DOMAIN ns : Fresh(ns[i])
    <2>1. \A i \in DOMAIN cs : Message("command", cs[i]) \in DeviceMessage
                               /\ Fresh(Message("command", cs[i]))
      BY <1>3, PendingIsFresh DEF RetransmitPass
    <2> QED
      BY <1>3, <2>1
  <1>6. toDevice' = Send(toDevice, ms \o ns)
    BY <1>2
  <1> HIDE DEF ms, ns
  <1>7. ms \o ns \in Seq(DeviceMessage) /\ \A i \in DOMAIN (ms \o ns) : Fresh((ms \o ns)[i])
    BY <1>4, <1>5, ConcatProperties, LenProperties
  <1> DEFINE all == ms \o ns
  <1>8. toDevice' = Send(toDevice, all) /\ all \in Seq(DeviceMessage)
        /\ \A i \in DOMAIN all : Fresh(all[i])
    BY <1>6, <1>7
  <1> HIDE DEF all
  <1>9. \A i \in DOMAIN toDevice' :
           \/ i \in DOMAIN toDevice /\ toDevice'[i] = toDevice[i]
           \/ i > Len(toDevice) /\ i - Len(toDevice) \in DOMAIN all
              /\ toDevice'[i] = all[i - Len(toDevice)]
    BY <1>8, SendElements DEF TypeOK, LineTypeOK
  <1> QED
    BY <1>8, <1>9 DEF LineGrows

LEMMA ClientWrites ==
    ASSUME ClientInv, ConnectedBeforeStop, [Next]_vars, ClientNext
    PROVE  LineGrows(toDevice, toDevice')
  <1>1. ASSUME UNCHANGED toDevice
        PROVE  LineGrows(toDevice, toDevice')
    BY <1>1 DEF LineGrows
  <1>2. ASSUME NEW t \in Threads, ThreadStep(t)
        PROVE  LineGrows(toDevice, toDevice')
    <2>1. CASE IssueRequest(t) \/ IssueCommand(t)
      BY <2>1, IssueWrites
    <2>2. CASE StopSends(t)
      BY <2>2, StopWrites
    <2> QED
      BY <1>1, <1>2, <2>1, <2>2
         DEF ThreadStep, IssueThrows, IssueThrottled, IssueWaits, AwaitEnds, AwaitSleeps,
             WaitAllEnds, WaitAllSleeps, clear_all_active_commands, StopWakesEveryone,
             StopCloses, lineVars
  <1>3. ASSUME NEW t \in Threads, Calls(t) \/ SpuriousWakeup(t)
        PROVE  LineGrows(toDevice, toDevice')
    BY <1>1, <1>3 DEF Calls, CallIssue, CallWaitForAllRequests, CallStop, Cancel, Enter,
                      SpuriousWakeup, lineVars
  <1>4. CASE Receiver
    <2>1. CASE process_command_finished
      BY <2>1, FinishWrites DEF ClientInv, SeqnumInv
    <2> QED
      BY <1>1, <1>4, <2>1 DEF Receiver, process_ack_request, process_ack_command,
         process_missed_request, process_other, ReceiverNotifies, lineVars
  <1>5. CASE Retransmitter
    BY <1>1, <1>5, PassWrites DEF Retransmitter, RetransmitDue, RetransmitExits, lineVars
  <1> QED
    BY <1>2, <1>3, <1>4, <1>5 DEF ClientNext

LEMMA ClientReads ==
    ASSUME ClientNext
    PROVE  \/ UNCHANGED toClient
           \/ toClient # <<>> /\ toClient' = Tail(toClient) /\ Receiver
  <1>1. ASSUME NEW t \in Threads, ThreadStep(t)
        PROVE  UNCHANGED toClient
    BY <1>1
       DEF ThreadStep, IssueThrows, IssueThrottled, IssueWaits, AwaitEnds, AwaitSleeps,
           WaitAllEnds, WaitAllSleeps, clear_all_active_commands, StopWakesEveryone,
           StopSends, StopCloses, IssueRequest, IssueCommand, lineVars
  <1>2. ASSUME NEW t \in Threads, Calls(t) \/ SpuriousWakeup(t)
        PROVE  UNCHANGED toClient
    BY <1>2 DEF Calls, CallIssue, CallWaitForAllRequests, CallStop, Cancel, Enter,
                SpuriousWakeup, lineVars
  <1>3. CASE Receiver
    BY <1>3 DEF Receiver, process_ack_request, process_ack_command,
         process_command_finished, process_missed_request, process_other, Receives,
         ReceiverNotifies, lineVars
  <1>4. CASE Retransmitter
    BY <1>4 DEF Retransmitter, RetransmitDue, RetransmitExits, RetransmitPass, lineVars
  <1> QED
    BY <1>1, <1>2, <1>3, <1>4 DEF ClientNext

LEMMA InitStreamInv ==
    ASSUME Session, Init
    PROVE  StreamInv
  <1>1. ClientInv
    BY InitClientInv DEF Session
  <1>2. /\ processed = <<>> /\ toDevice = <<>> /\ toClient = <<>>
        /\ DOMAIN m_pending_requests = {} /\ DOMAIN m_pending_commands = {}
        /\ ready = (FirstSeq # 1)
        /\ dev_expected \in {Truncate(s) : s \in DeviceStart}
    BY DEF Init, LineInit, ClientInit, DeviceInit
  <1>3. Len(processed) = 0 /\ FirstSeq \in Nat
    BY <1>2, ClientAssumption
  <1>4. InOrder
    <2>1. Expected <= Sent
      BY <1>1, <1>3, SentType DEF Expected
    <2>2. processed = [i \in 1..0 |-> FirstSeq + i - 1]
      BY <1>2
    <2> QED
      BY <1>3, <2>1, <2>2 DEF InOrder
  <1>5. LineNumbered
    BY <1>2 DEF LineNumbered
  <1>6. ExpectsNext
    <2>1. CASE FirstSeq # 1
      BY <1>2, <1>3, <2>1 DEF Session, DeviceInStep, ExpectsNext, Expected
    <2>2. CASE FirstSeq = 1
      BY <1>2, <2>2 DEF ExpectsNext
    <2> QED
      BY <2>1, <2>2
  <1>7. ResetsFirst
    <2>1. ready => FirstSeq # 1
      BY <1>2, Zenon
    <2> QED
      BY <1>2, <2>1 DEF ResetsFirst
  <1>8. AcksProcessed
    BY <1>2 DEF AcksProcessed
  <1> QED
    BY <1>1, <1>4, <1>5, <1>6, <1>7, <1>8 DEF StreamInv, StreamParts

-----------------------------------------------------------------------------
(* The client's steps.                                                     *)

(* What infer_full_seqnum makes of a number on the wire has those bits.    *)
LEMMA InferredTruncates ==
    ASSUME NEW lo \in Nat, NEW hi \in Nat, NEW x \in 0..(SeqMod - 1)
    PROVE  Truncate(InferFullSeqnum(lo, hi, x)) = x
  <1>1. /\ lo \div SeqMod \in Nat /\ HighPart(lo) = (lo \div SeqMod) * SeqMod
        /\ hi \div SeqMod \in Nat /\ HighPart(hi) = (hi \div SeqMod) * SeqMod
    BY Split
  <1>2. Truncate(HighPart(lo) + x) = x /\ Truncate(HighPart(hi) + x) = x
    BY <1>1, TruncateUnique
  <1> QED
    BY <1>2 DEF InferFullSeqnum

(* The entry that the answer to message a is taken for is that of a.       *)
LEMMA AnswerIsForItsOwn ==
    ASSUME ClientInv, ShortSession, NEW map, DOMAIN map \subseteq LiveSeqnums,
           NEW a \in FirstSeq..Sent, Known(map, Truncate(a))
    PROVE  Inferred(map, Truncate(a)) = a /\ a \in DOMAIN map
  <1> DEFINE D == DOMAIN map
             s == Inferred(map, Truncate(a))
  <1>1. s \in D /\ D # {}
    BY DEF Known
  <1>2. D \in SUBSET Nat /\ \A k \in D : FirstSeq <= k /\ k < m_send_seq
    BY DEF ClientInv, SeqnumInv, NumbersFrom, IssuedBelowNext, TypeOK, PendingTypeOK,
           LiveSeqnums
  <1>3. /\ a \in Nat /\ Truncate(a) \in 0..(SeqMod - 1) /\ m_send_seq \in Nat
        /\ m_send_seq <= Sent /\ FirstSeq \in Nat /\ Sent \in Nat
    <2>1. /\ a \in Nat /\ m_send_seq \in Nat /\ m_send_seq <= Sent
          /\ FirstSeq \in Nat /\ Sent \in Nat
      BY SentType
    <2> QED
      BY <2>1, HighPartBounds
  <1>4. s = InferFullSeqnum(Min(D), Max(D), Truncate(a))
    BY DEF Inferred
  <1> HIDE DEF D, s
  <1>5. Min(D) \in Nat /\ Max(D) \in Nat
    <2>1. \A k \in D : k <= m_send_seq
      BY <1>2, <1>3
    <2> QED
      BY <1>1, <1>2, <1>3, <2>1, MinIsLeast, MaxIsGreatest
  <1>6. Truncate(s) = Truncate(a)
    BY <1>3, <1>4, <1>5, InferredTruncates
  <1>7. s \in FirstSeq..Sent
    BY <1>1, <1>2, <1>3
  <1>8. s = a
    BY <1>6, <1>7, SessionResolves
  <1> QED
    BY <1>1, <1>8 DEF s, D

(* What an ack in the client's hands is worth.                             *)
LEMMA AckIsOfProcessed ==
    ASSUME StreamInv, ShortSession, reboots = 0, toClient # <<>>,
           Head(toClient).type \in {"ack_request", "ack_command"},
           NEW map, DOMAIN map \subseteq LiveSeqnums,
           Known(map, Head(toClient).seqnum)
    PROVE  /\ Inferred(map, Head(toClient).seqnum) < Expected
           /\ Inferred(map, Head(toClient).seqnum) \in DOMAIN map
  <1>1. toClient \in Seq(ClientMessage)
    BY DEF StreamInv, ClientInv, SeqnumInv, TypeOK, LineTypeOK
  <1>2. Head(toClient) = toClient[1] /\ 1 \in DOMAIN toClient
    BY <1>1, TailElements
  <1>3. PICK a \in FirstSeq..(Expected - 1) : Head(toClient).seqnum = Truncate(a)
    BY <1>2 DEF StreamInv, StreamParts, AcksProcessed, Answers
  <1>4. Expected \in Nat /\ Sent \in Nat /\ Expected <= Sent /\ FirstSeq \in Nat
    BY SentType DEF StreamInv, StreamParts, InOrder
  <1>5. a \in FirstSeq..Sent /\ a < Expected
    BY <1>3, <1>4
  <1> QED
    BY <1>3, <1>5, AnswerIsForItsOwn DEF StreamInv

LEMMA ReceiverKeepsAcked ==
    ASSUME StreamInv, ShortSession, reboots = 0, Receiver
    PROVE  /\ \A s \in DOMAIN m_pending_requests' :
                m_pending_requests'[s].state = "ACKED" => s < Expected
           /\ \A s \in DOMAIN m_pending_commands' :
                m_pending_commands'[s].state = "ACKED" => s < Expected
  <1> DEFINE AckedRequests(map) ==
               \A s \in DOMAIN map : map[s].state = "ACKED" => s < Expected
  <1>1. AckedRequests(m_pending_requests) /\ AckedRequests(m_pending_commands)
    BY DEF StreamInv, StreamParts, AcksProcessed
  <1>2. /\ DOMAIN m_pending_requests \subseteq LiveSeqnums
        /\ DOMAIN m_pending_commands \subseteq LiveSeqnums
    BY DEF LiveSeqnums
  <1>3. CASE process_ack_request
    <2> DEFINE s == Inferred(m_pending_requests, Head(toClient).seqnum)
    <2>1. /\ UNCHANGED m_pending_commands
          /\ toClient # <<>> /\ Head(toClient).type = "ack_request"
      BY <1>3 DEF process_ack_request, Receives
    <2>2. \/ m_pending_requests' = m_pending_requests
          \/ /\ Known(m_pending_requests, Head(toClient).seqnum)
             /\ \/ m_pending_requests' = Without(m_pending_requests, s)
                \/ m_pending_requests' = [m_pending_requests EXCEPT ![s].state = "ACKED"]
      BY <1>3 DEF process_ack_request, AckEntry
    <2>3. Known(m_pending_requests, Head(toClient).seqnum) => s < Expected
      BY <1>2, <2>1, AckIsOfProcessed
    <2> HIDE DEF s
    <2>4. AckedRequests(m_pending_requests')
      BY <1>1, <2>2, <2>3 DEF Without, Restrict
    <2> QED
      BY <1>1, <2>1, <2>4
  <1>4. CASE process_ack_command
    <2> DEFINE s == Inferred(m_pending_commands, Head(toClient).seqnum)
    <2>1. /\ UNCHANGED m_pending_requests
          /\ toClient # <<>> /\ Head(toClient).type = "ack_command"
      BY <1>4 DEF process_ack_command, Receives
    <2>2. \/ m_pending_commands' = m_pending_commands
          \/ /\ Known(m_pending_commands, Head(toClient).seqnum)
             /\ m_pending_commands' = [m_pending_commands EXCEPT ![s].state = "ACKED"]
      BY <1>4 DEF process_ack_command
    <2>3. Known(m_pending_commands, Head(toClient).seqnum) => s < Expected
      BY <1>2, <2>1, AckIsOfProcessed
    <2> HIDE DEF s
    <2>4. AckedRequests(m_pending_commands')
      BY <1>1, <2>2, <2>3
    <2> QED
      BY <1>1, <2>1, <2>4
  <1>5. CASE process_command_finished
    <2>1. /\ UNCHANGED m_pending_requests
          /\ \/ m_pending_commands' = m_pending_commands
             \/ m_pending_commands' =
                  Without(m_pending_commands, Inferred(m_pending_commands, Head(toClient).command))
      BY <1>5 DEF process_command_finished
    <2> QED
      BY <1>1, <2>1 DEF Without, Restrict
  <1>6. CASE process_missed_request \/ process_other \/ ReceiverNotifies
    BY <1>1, <1>6 DEF process_missed_request, process_other, ReceiverNotifies
  <1> QED
    BY <1>3, <1>4, <1>5, <1>6 DEF Receiver

(* A thread acknowledges nothing.                                          *)
LEMMA ThreadsKeepAcked ==
    ASSUME TypeOK, NEW E, NEW t \in Threads, ThreadStep(t),
           \A s \in DOMAIN m_pending_requests : m_pending_requests[s].state = "ACKED" => s < E,
           \A s \in DOMAIN m_pending_commands : m_pending_commands[s].state = "ACKED" => s < E
    PROVE  /\ \A s \in DOMAIN m_pending_requests' :
                m_pending_requests'[s].state = "ACKED" => s < E
           /\ \A s \in DOMAIN m_pending_commands' :
                m_pending_commands'[s].state = "ACKED" => s < E
  <1>1. CASE IssueRequest(t)
    BY <1>1 DEF IssueRequest, With
  <1>2. CASE IssueCommand(t)
    BY <1>2 DEF IssueCommand, With
  <1>3. CASE AwaitEnds(t)
    BY <1>3 DEF AwaitEnds, Without, Restrict
  <1>4. CASE clear_all_active_commands(t)
    BY <1>4 DEF clear_all_active_commands, Restrict
  <1> QED
    BY <1>1, <1>2, <1>3, <1>4
       DEF ThreadStep, IssueThrows, IssueThrottled, IssueWaits, AwaitSleeps, WaitAllEnds,
           WaitAllSleeps, StopWakesEveryone, StopSends, StopCloses

(* connect() returns with the device's ack.                                *)
LEMMA ConnectedIsProcessed ==
    ASSUME StreamInv, reboots = 0, [Next]_vars, ~ready, ready'
    PROVE  Len(processed) > 0
  <1>1. PICK t \in Threads : AwaitEnds(t)
    BY StepKinds, ReceiverKeepsControl
       DEF Calls, CallIssue, CallWaitForAllRequests, CallStop, Cancel, Enter,
           ThreadStep, IssueThrows, IssueThrottled, IssueWaits, AwaitSleeps, WaitAllEnds,
           WaitAllSleeps, StopWakesEveryone, StopSends, StopCloses, IssueRequest,
           IssueCommand, clear_all_active_commands
  <1>2. handle[t] \in DOMAIN m_pending_requests /\ m_pending_requests[handle[t]].state = "ACKED"
    BY <1>1 DEF AwaitEnds
  <1>3. FirstSeq <= handle[t] /\ handle[t] < Expected /\ handle[t] \in Nat
    BY <1>2 DEF StreamInv, StreamParts, AcksProcessed, ClientInv, NumbersFrom, LiveSeqnums,
                SeqnumInv, TypeOK, PendingTypeOK
  <1> QED
    BY <1>3, SentType DEF StreamInv, Expected

LEMMA ReadyStays ==
    ASSUME [Next]_vars, ready
    PROVE  ready'
  BY StepKinds, ReceiverKeepsControl
     DEF Calls, CallIssue, CallWaitForAllRequests, CallStop, Cancel, Enter,
         ThreadStep, IssueThrows, IssueThrottled, IssueWaits, AwaitEnds, AwaitSleeps,
         WaitAllEnds, WaitAllSleeps, StopWakesEveryone, StopSends, StopCloses,
         IssueRequest, IssueCommand, clear_all_active_commands

LEMMA ClientKeepsStream ==
    ASSUME StreamInv, Session, reboots = 0, [Next]_vars, ClientNext, UNCHANGED deviceVars
    PROVE  StreamParts'
  <1>1. ClientInv /\ StreamParts /\ ClientInv'
    BY StepClientInv DEF StreamInv
  <1>2. UNCHANGED <<processed, dev_expected>> /\ Expected' = Expected
    BY DEF deviceVars, Expected
  <1>3. /\ Sent' = Sent \/ Sent' = Sent + 1
        /\ Sent \in Nat /\ Expected \in Nat /\ FirstSeq \in Nat /\ Len(processed) \in Nat
        /\ m_send_seq \in Nat /\ m_send_seq <= Sent /\ FirstSeq <= m_send_seq
    BY <1>1, StepSent, SentType
  <1>4. InOrder'
    BY <1>1, <1>2, <1>3 DEF StreamParts, InOrder
  <1>5. LineGrows(toDevice, toDevice')
    BY <1>1, ClientWrites DEF Session
  <1>6. LineNumbered'
    <2> SUFFICES ASSUME NEW i \in DOMAIN toDevice', toDevice'[i].type # "finish_ack"
                 PROVE  /\ toDevice'[i].id \in FirstSeq..(Sent' - 1)
                        /\ toDevice'[i].seqnum = Truncate(toDevice'[i].id)
      BY DEF LineNumbered
    <2>1. CASE i \in DOMAIN toDevice /\ toDevice'[i] = toDevice[i]
      BY <1>1, <1>3, <2>1 DEF StreamParts, LineNumbered
    <2>2. CASE Fresh(toDevice'[i])
      BY <2>2 DEF Fresh
    <2> QED
      BY <1>5, <2>1, <2>2 DEF LineGrows
  <1>7. ExpectsNext'
    BY <1>1, <1>2 DEF StreamParts, ExpectsNext
  <1>8. ResetsFirst'
    <2>1. ASSUME NEW i \in DOMAIN toDevice', ~ready
          PROVE  ResetOrFinish(toDevice'[i])
      <3>1. CASE i \in DOMAIN toDevice /\ toDevice'[i] = toDevice[i]
        BY <1>1, <2>1, <3>1 DEF StreamParts, ResetsFirst
      <3>2. CASE Fresh(toDevice'[i])
        BY <2>1, <3>2 DEF Fresh, ResetOrFinish
      <3> QED
        BY <1>5, <3>1, <3>2 DEF LineGrows
    <2>2. ready' /\ FirstSeq = 1 => Len(processed) > 0
      <3>1. CASE ready
        BY <1>1, <3>1 DEF StreamParts, ResetsFirst
      <3>2. CASE ~ready
        BY <3>2, ConnectedIsProcessed
      <3> QED
        BY <3>1, <3>2
    <2>3. ASSUME NEW j \in DOMAIN toDevice', toDevice'[j].type = "reset"
          PROVE  /\ FirstSeq = 1 /\ toDevice'[j].id = FirstSeq /\ Len(processed) <= 1
                 /\ \A i \in 1..j : ResetOrFinish(toDevice'[i])
      <3>1. /\ toDevice \in Seq(DeviceMessage) /\ toDevice' \in Seq(DeviceMessage)
            /\ DOMAIN toDevice = 1..Len(toDevice) /\ DOMAIN toDevice' = 1..Len(toDevice')
            /\ Len(toDevice) \in Nat /\ Len(toDevice') \in Nat
        BY <1>1, LenProperties DEF ClientInv, SeqnumInv, TypeOK, LineTypeOK
      <3>2. 1..j \subseteq DOMAIN toDevice'
        BY <3>1
      <3>3. CASE j \in DOMAIN toDevice /\ toDevice'[j] = toDevice[j]
        <4>1. \A i \in 1..j : i \in DOMAIN toDevice /\ toDevice'[i] = toDevice[i]
          BY <1>5, <3>1, <3>2, <3>3 DEF LineGrows
        <4> QED
          BY <1>1, <2>3, <3>3, <4>1 DEF StreamParts, ResetsFirst
      <3>4. CASE Fresh(toDevice'[j])
        <4>1. ~ready /\ toDevice'[j].id = FirstSeq
          BY <2>3, <3>4 DEF Fresh
        <4>2. FirstSeq = 1 /\ m_send_seq <= FirstSeq + 1
          BY <1>1, <1>3, <4>1 DEF ClientInv, ConnectsFirst
        <4>3. ~StopSent
          BY <1>1, <4>2 DEF ClientInv, OneStopper, StopPcs, Session, ConnectedBeforeStop, StopSent
        <4>4. Len(processed) <= 1
          BY <1>1, <1>3, <4>2, <4>3 DEF StreamParts, InOrder, Sent, Expected
        <4> QED
          BY <2>1, <3>2, <4>1, <4>2, <4>4
      <3> QED
        BY <1>5, <3>3, <3>4 DEF LineGrows
    <2> QED
      BY <1>2, <2>1, <2>2, <2>3, ReadyStays DEF ResetsFirst
  <1>9. AcksProcessed'
    <2>1. \A i \in DOMAIN toClient' :
            toClient'[i].type \in {"ack_request", "ack_command"} =>
              \E a \in FirstSeq..(Expected - 1) : toClient'[i].seqnum = Truncate(a)
      <3>1. \A i \in DOMAIN toClient :
              toClient[i].type \in {"ack_request", "ack_command"} =>
                \E a \in FirstSeq..(Expected - 1) : toClient[i].seqnum = Truncate(a)
        BY <1>1 DEF StreamParts, AcksProcessed, Answers
      <3>2. toClient \in Seq(ClientMessage)
        BY <1>1 DEF ClientInv, SeqnumInv, TypeOK, LineTypeOK
      <3>3. CASE UNCHANGED toClient
        BY <3>1, <3>3
      <3>4. CASE toClient # <<>> /\ toClient' = Tail(toClient)
        BY <3>1, <3>2, <3>4, TailElements
      <3> QED
        BY <3>3, <3>4, ClientReads
    <2>2. /\ \A s \in DOMAIN m_pending_requests' :
               m_pending_requests'[s].state = "ACKED" => s < Expected
          /\ \A s \in DOMAIN m_pending_commands' :
               m_pending_commands'[s].state = "ACKED" => s < Expected
      <3>1. CASE Receiver
        BY <3>1, ReceiverKeepsAcked DEF Session
      <3>2. ASSUME NEW t \in Threads, ThreadStep(t)
            PROVE  /\ \A s \in DOMAIN m_pending_requests' :
                        m_pending_requests'[s].state = "ACKED" => s < Expected
                   /\ \A s \in DOMAIN m_pending_commands' :
                        m_pending_commands'[s].state = "ACKED" => s < Expected
        BY <1>1, <3>2, ThreadsKeepAcked
           DEF ClientInv, SeqnumInv, StreamParts, AcksProcessed
      <3>3. CASE UNCHANGED <<m_pending_requests, m_pending_commands>>
        BY <1>1, <3>3 DEF StreamParts, AcksProcessed
      <3> QED
        BY <3>1, <3>2, <3>3, StepKinds
           DEF Calls, CallIssue, CallWaitForAllRequests, CallStop, Cancel, Enter
    <2> QED
      BY <1>2, <2>1, <2>2 DEF AcksProcessed, Answers
  <1> QED
    BY <1>4, <1>6, <1>7, <1>8, <1>9 DEF StreamParts

-----------------------------------------------------------------------------
(* The device's steps.                                                     *)

(* What the device makes of the first message on the line: it recognises   *)
(* the one it waits for, and tells the old ones from the new.              *)
LEMMA HeadOfLine ==
    ASSUME StreamInv, Session, reboots = 0, NEW message, DeviceTakes(message)
    PROVE  /\ toDevice \in Seq(DeviceMessage) /\ message \in DeviceMessage
           /\ 1 \in DOMAIN toDevice /\ message = toDevice[1]
           /\ message.type # "finish_ack" =>
                /\ message.id \in FirstSeq..(Sent - 1)
                /\ message.seqnum = Truncate(message.id)
           /\ message.type \notin {"reset", "finish_ack"} =>
                /\ ready /\ dev_expected = Truncate(Expected)
                /\ \A j \in DOMAIN toDevice : toDevice[j].type # "reset"
                /\ message.seqnum = dev_expected => message.id = Expected
                /\ IsOld(message.seqnum) => message.id < Expected
                /\ message.seqnum # dev_expected /\ ~IsOld(message.seqnum) =>
                     Expected < message.id
  <1>1. ClientInv /\ StreamParts
    BY DEF StreamInv
  <1>2. /\ toDevice \in Seq(DeviceMessage) /\ toDevice # <<>>
        /\ message = Head(toDevice)
    BY <1>1 DEF ClientInv, SeqnumInv, TypeOK, LineTypeOK, DeviceTakes
  <1>3. 1 \in DOMAIN toDevice /\ message = toDevice[1] /\ message \in DeviceMessage
    BY <1>2, TailElements, HeadTailProperties
  <1>4. message.type # "finish_ack" =>
          message.id \in FirstSeq..(Sent - 1) /\ message.seqnum = Truncate(message.id)
    BY <1>1, <1>3 DEF StreamParts, LineNumbered
  <1>5. ASSUME message.type \notin {"reset", "finish_ack"}
        PROVE  /\ ready /\ dev_expected = Truncate(Expected)
               /\ \A j \in DOMAIN toDevice : toDevice[j].type # "reset"
               /\ message.seqnum = dev_expected => message.id = Expected
               /\ IsOld(message.seqnum) => message.id < Expected
               /\ message.seqnum # dev_expected /\ ~IsOld(message.seqnum) =>
                    Expected < message.id
    <2>1. ready
      BY <1>1, <1>3, <1>5 DEF StreamParts, ResetsFirst, ResetOrFinish, ClientInv, SeqnumInv,
                              TypeOK, FlagTypeOK
    <2>2. dev_expected = Truncate(Expected)
      <3>1. processed = <<>> => Len(processed) = 0
        OBVIOUS
      <3> QED
        BY <1>1, <2>1, <3>1, SentType DEF StreamParts, ResetsFirst, ExpectsNext
    <2>3. ASSUME NEW j \in DOMAIN toDevice
          PROVE  toDevice[j].type # "reset"
      <3>1. 1 \in 1..j
        BY <1>2, LenProperties
      <3> QED
        BY <1>1, <1>3, <1>5, <3>1 DEF StreamParts, ResetsFirst, ResetOrFinish
    <2> DEFINE a == message.id
    <2>4. /\ a \in FirstSeq..Sent /\ a < Sent /\ message.seqnum = Truncate(a)
          /\ Expected \in FirstSeq..Sent
          /\ FirstSeq \in Nat /\ Sent \in Nat /\ SeqMod \in Nat \ {0}
      BY <1>1, <1>4, <1>5, SentType, SeqModAssumption DEF StreamParts, InOrder, Expected
    <2>5. a \in Nat /\ Expected \in Nat
      BY <2>4
    <2> HIDE DEF a
    <2>6. Truncate(a) = Truncate(Expected) => a = Expected
      BY <1>1, <2>4, SessionResolves DEF Session
    <2>7. a <= Expected => Expected - a <= SeqMod \div 2
      BY <1>1, <2>4, SessionResolves DEF Session
    <2>8. 2 * (a - Expected) <= SeqMod - 2
      BY <1>1, <2>4, SessionResolves DEF Session
    <2>9. SeqMod \div 2 \in Nat /\ 2 * (SeqMod \div 2) <= SeqMod
      BY <2>4
    <2>10. CASE a < Expected
      <3>1. Expected - a < SeqMod
        BY <2>4, <2>5, <2>7, <2>9, <2>10
      <3>2. Truncate(Truncate(Expected) - Truncate(a)) = Expected - a
        BY <2>5, <2>10, <3>1, WireDistance
      <3>3. Expected - a \in 1..(SeqMod \div 2)
        BY <2>5, <2>7, <2>9, <2>10
      <3>4. IsOld(message.seqnum)
        BY <2>2, <2>4, <3>2, <3>3 DEF IsOld
      <3> QED
        BY <2>1, <2>2, <2>3, <2>4, <2>6, <2>10, <3>4 DEF a
    <2>11. CASE a = Expected
      <3>1. Truncate(Truncate(Expected) - Truncate(a)) = 0
        BY <2>4, <2>5, <2>11, WireDistance
      <3>2. ~IsOld(message.seqnum)
        BY <2>2, <2>4, <3>1 DEF IsOld
      <3> QED
        BY <2>1, <2>2, <2>3, <2>4, <2>11, <3>2 DEF a
    <2>12. CASE Expected < a
      <3>1. a - Expected < SeqMod /\ SeqMod \div 2 < SeqMod - (a - Expected)
        BY <2>4, <2>5, <2>8, <2>9
      <3>2. Truncate(Truncate(Expected) - Truncate(a)) = SeqMod - (a - Expected)
        BY <2>5, <2>12, <3>1, WireDistance
      <3>3. ~IsOld(message.seqnum)
        BY <2>2, <2>4, <2>5, <2>9, <3>1, <3>2 DEF IsOld
      <3> QED
        BY <2>1, <2>2, <2>3, <2>4, <2>6, <2>12, <3>3 DEF a
    <2> QED
      BY <2>5, <2>10, <2>11, <2>12
  <1> QED
    BY <1>2, <1>3, <1>4, <1>5

(* A message taken from the line leaves the rest in order.                 *)
LEMMA DeviceTakesKeeps ==
    ASSUME StreamInv, Session, reboots = 0, NEW message, DeviceTakes(message),
           UNCHANGED clientVars,
           Len(processed') \in Nat, Len(processed) <= Len(processed'),
           \/ Len(processed') <= 1
           \/ UNCHANGED processed
           \/ message.type \notin {"reset", "finish_ack"}
    PROVE  LineNumbered' /\ ResetsFirst'
  <1>1. ClientInv /\ StreamParts
    BY DEF StreamInv
  <1>2. UNCHANGED ready /\ Sent' = Sent
    BY DEF clientVars, Sent, StopSent
  <1>3. /\ toDevice \in Seq(DeviceMessage) /\ toDevice # <<>>
        /\ toDevice' = Tail(toDevice)
        /\ 1 \in DOMAIN toDevice /\ message = toDevice[1]
    BY HeadOfLine DEF DeviceTakes
  <1>4. \A i \in DOMAIN toDevice' :
          i \in Nat \ {0} /\ i + 1 \in DOMAIN toDevice /\ toDevice'[i] = toDevice[i + 1]
    BY <1>3, TailElements
  <1>5. LineNumbered'
    BY <1>1, <1>2, <1>4 DEF StreamParts, LineNumbered
  <1>6. ASSUME NEW j \in DOMAIN toDevice', toDevice'[j].type = "reset"
        PROVE  /\ FirstSeq = 1 /\ toDevice'[j].id = FirstSeq /\ Len(processed') <= 1
               /\ \A i \in 1..j : ResetOrFinish(toDevice'[i])
    <2>1. j + 1 \in DOMAIN toDevice /\ toDevice[j + 1] = toDevice'[j] /\ j \in Nat
      BY <1>4
    <2>2. /\ FirstSeq = 1 /\ toDevice'[j].id = FirstSeq /\ Len(processed) <= 1
          /\ \A i \in 1..(j + 1) : ResetOrFinish(toDevice[i])
      BY <1>1, <1>6, <2>1 DEF StreamParts, ResetsFirst
    <2>3. message.type \in {"reset", "finish_ack"}
      BY <1>6, <2>1, HeadOfLine
    <2>4. Len(processed') <= 1
      BY <2>2, <2>3
    <2>5. ASSUME NEW i \in 1..j
          PROVE  ResetOrFinish(toDevice'[i])
      <3>1. i \in DOMAIN toDevice'
        <4>1. toDevice' \in Seq(DeviceMessage)
          BY <1>3, TailElements
        <4> QED
          BY <4>1, <2>1, LenProperties
      <3>2. toDevice'[i] = toDevice[i + 1] /\ i + 1 \in 1..(j + 1)
        BY <1>4, <2>1, <3>1
      <3> QED
        BY <2>2, <3>2
    <2> QED
      BY <2>2, <2>4, <2>5
  <1>7. ResetsFirst'
    <2>1. ~ready => \A i \in DOMAIN toDevice' : ResetOrFinish(toDevice'[i])
      BY <1>1, <1>4 DEF StreamParts, ResetsFirst
    <2>2. ready /\ FirstSeq = 1 => Len(processed') > 0
      BY <1>1, SentType DEF StreamParts, ResetsFirst
    <2> QED
      BY <1>2, <1>6, <2>1, <2>2 DEF ResetsFirst
  <1> QED
    BY <1>5, <1>7

(* The device adds one answer to its line.                                 *)
LEMMA DeviceAnswers ==
    ASSUME StreamInv, reboots = 0, UNCHANGED clientVars, NEW reply \in ClientMessage,
           toClient' = Send(toClient, <<reply>>),
           Expected' \in Nat, Expected <= Expected',
           reply.type \in {"ack_request", "ack_command"} =>
             \E a \in FirstSeq..(Expected' - 1) : reply.seqnum = Truncate(a)
    PROVE  AcksProcessed'
  <1>1. ClientInv /\ StreamParts
    BY DEF StreamInv
  <1>2. Expected \in Nat /\ FirstSeq \in Nat
    BY <1>1, SentType
  <1>3. UNCHANGED <<m_pending_requests, m_pending_commands>>
    BY DEF clientVars
  <1>4. FirstSeq..(Expected - 1) \subseteq FirstSeq..(Expected' - 1)
    <2> DEFINE E == Expected'
    <2>1. E \in Nat /\ Expected <= E
      OBVIOUS
    <2> HIDE DEF E
    <2>2. FirstSeq..(Expected - 1) \subseteq FirstSeq..(E - 1)
      BY <1>2, <2>1
    <2> QED
      BY <2>2 DEF E
  <1>5. \A i \in DOMAIN toClient' :
          \/ i \in DOMAIN toClient /\ toClient'[i] = toClient[i]
          \/ toClient'[i] = reply
    BY <1>1, SendOneElements DEF ClientInv, SeqnumInv, TypeOK, LineTypeOK
  <1>6. \A i \in DOMAIN toClient' :
          toClient'[i].type \in {"ack_request", "ack_command"} =>
            \E a \in FirstSeq..(Expected' - 1) : toClient'[i].seqnum = Truncate(a)
    BY <1>1, <1>4, <1>5 DEF StreamParts, AcksProcessed, Answers
  <1>7. \A s \in Nat : s < Expected => s < Expected'
    BY <1>2
  <1>8. DOMAIN m_pending_requests \subseteq Nat /\ DOMAIN m_pending_commands \subseteq Nat
    BY <1>1 DEF ClientInv, SeqnumInv, TypeOK, PendingTypeOK
  <1>9. /\ \A s \in DOMAIN m_pending_requests :
             m_pending_requests[s].state = "ACKED" => s < Expected'
        /\ \A s \in DOMAIN m_pending_commands :
             m_pending_commands[s].state = "ACKED" => s < Expected'
    BY <1>1, <1>7, <1>8 DEF StreamParts, AcksProcessed
  <1> QED
    BY <1>3, <1>6, <1>9 DEF AcksProcessed, Answers

(* The next message of all is processed, and none but that one.            *)
LEMMA AppendInOrder ==
    ASSUME StreamInv, reboots = 0, processed' = Append(processed, Expected)
    PROVE  /\ Len(processed') = Len(processed) + 1 /\ Expected' = Expected + 1
           /\ processed' = [i \in 1..Len(processed') |-> FirstSeq + i - 1]
  <1>1. /\ processed \in Seq(Nat) /\ Expected \in Nat /\ FirstSeq \in Nat
        /\ Len(processed) \in Nat
        /\ processed = [i \in 1..Len(processed) |-> FirstSeq + i - 1]
    BY SentType DEF StreamInv, StreamParts, InOrder, ClientInv, SeqnumInv, TypeOK, DeviceTypeOK
  <1> DEFINE n == Len(processed)
             q == Append(processed, Expected)
  <1>2. /\ q \in Seq(Nat) /\ Len(q) = n + 1
        /\ \A i \in 1..n : q[i] = processed[i]
        /\ q[n + 1] = Expected
    BY <1>1, AppendProperties
  <1>3. n \in Nat /\ Expected = FirstSeq + n
    BY <1>1 DEF Expected
  <1>4. \A i \in 1..n : processed[i] = FirstSeq + i - 1
    BY <1>1
  <1> HIDE DEF q, n
  <1>5. \A i \in 1..(n + 1) : q[i] = FirstSeq + i - 1
    <2> TAKE i \in 1..(n + 1)
    <2>1. CASE i = n + 1
      BY <1>1, <1>2, <1>3, <2>1
    <2>2. CASE i # n + 1
      <3>1. i \in 1..n
        BY <1>3, <2>2
      <3> QED
        BY <1>2, <1>4, <3>1
    <2> QED
      BY <2>1, <2>2
  <1>6. q = [i \in 1..(n + 1) |-> FirstSeq + i - 1]
    <2>1. q = [i \in 1..Len(q) |-> q[i]]
      BY <1>2
    <2> QED
      BY <1>2, <1>5, <2>1
  <1>7. processed' = q
    BY DEF q
  <1>8. Expected' = FirstSeq + Len(processed')
    BY DEF Expected
  <1> QED
    BY <1>1, <1>2, <1>3, <1>6, <1>7, <1>8 DEF n

(* DeviceAccepts.                                                          *)
LEMMA AcceptKeepsStream ==
    ASSUME StreamInv, Session, reboots = 0, UNCHANGED clientVars,
           NEW message, DeviceAccepts(message)
    PROVE  StreamParts' /\ message.id = Expected /\ Expected < Sent
           /\ processed' = Append(processed, Expected)
  <1>1. DeviceTakes(message) /\ message.type \notin {"reset", "finish_ack"}
        /\ message.seqnum = dev_expected /\ Accept(message)
    BY DEF DeviceAccepts
  <1>2. /\ message \in DeviceMessage /\ message.id = Expected
        /\ message.id \in FirstSeq..(Sent - 1) /\ message.seqnum = Truncate(message.id)
        /\ ready /\ dev_expected = Truncate(Expected)
    BY <1>1, HeadOfLine
  <1>3. /\ dev_expected' = Truncate(message.seqnum + 1)
        /\ processed' = Append(processed, Expected)
        /\ toClient' = Send(toClient, <<AckOf(message)>>)
    BY <1>1, <1>2 DEF Accept
  <1>4. /\ Len(processed') = Len(processed) + 1 /\ Expected' = Expected + 1
        /\ processed' = [i \in 1..Len(processed') |-> FirstSeq + i - 1]
    BY <1>3, AppendInOrder
  <1>5. /\ Expected \in Nat /\ Sent \in Nat /\ Len(processed) \in Nat /\ FirstSeq \in Nat
        /\ Expected < Sent /\ FirstSeq <= Expected
    BY <1>2, SentType DEF StreamInv, Expected
  <1>6. Sent' = Sent
    BY DEF clientVars, Sent, StopSent
  <1>7. InOrder'
    BY <1>4, <1>5, <1>6 DEF InOrder
  <1>8. ExpectsNext'
    <2>1. Truncate(message.seqnum + 1) = Truncate(Expected + 1)
      BY <1>2, <1>5, TruncateNext
    <2> QED
      BY <1>3, <1>4, <2>1 DEF ExpectsNext
  <1>9. LineNumbered' /\ ResetsFirst'
    BY <1>1, <1>4, <1>5, DeviceTakesKeeps
  <1>10. AcksProcessed'
    <2>1. AckOf(message) \in ClientMessage /\ AckOf(message).seqnum = message.seqnum
      BY <1>2, AckOfType DEF AckOf, Reply
    <2>2. Expected \in FirstSeq..(Expected' - 1) /\ Expected' \in Nat /\ Expected <= Expected'
      BY <1>4, <1>5
    <2> QED
      BY <1>2, <1>3, <2>1, <2>2, DeviceAnswers
  <1> QED
    BY <1>2, <1>3, <1>5, <1>7, <1>8, <1>9, <1>10 DEF StreamParts

(* DeviceResets.                                                           *)
LEMMA ResetKeepsStream ==
    ASSUME StreamInv, Session, reboots = 0, UNCHANGED clientVars,
           NEW message, DeviceResets(message)
    PROVE  /\ StreamParts'
           /\ \/ UNCHANGED processed
              \/ Expected < Sent /\ processed' = Append(processed, Expected)
  <1>1. DeviceTakes(message) /\ message.type = "reset"
    BY DEF DeviceResets
  <1>2. /\ message \in DeviceMessage /\ message = toDevice[1] /\ 1 \in DOMAIN toDevice
        /\ message.id \in FirstSeq..(Sent - 1) /\ message.seqnum = Truncate(message.id)
    BY <1>1, HeadOfLine
  <1>3. FirstSeq = 1 /\ message.id = FirstSeq /\ Len(processed) <= 1
    BY <1>1, <1>2 DEF StreamInv, StreamParts, ResetsFirst
  <1>4. /\ Expected \in Nat /\ Sent \in Nat /\ Len(processed) \in Nat /\ FirstSeq \in Nat
        /\ Expected = FirstSeq + Len(processed) /\ FirstSeq < Sent
        /\ processed = [i \in 1..Len(processed) |-> FirstSeq + i - 1]
    BY <1>2, SentType DEF StreamInv, StreamParts, InOrder, Expected
  <1>5. Sent' = Sent
    BY DEF clientVars, Sent, StopSent
  <1>6. /\ dev_expected' = Truncate(FirstSeq + 1)
        /\ toClient' = Send(toClient, <<AckOf(message)>>)
    BY <1>2, <1>3, <1>4, TruncateNext DEF DeviceResets
  <1>7. /\ Expected' = FirstSeq + 1 /\ Len(processed') = 1 /\ InOrder'
        /\ \/ UNCHANGED processed
           \/ Expected < Sent /\ processed' = Append(processed, Expected)
    <2>1. CASE Len(processed) = 0
      <3>1. message.id \notin Range(processed) /\ Expected = FirstSeq
        BY <1>4, <2>1 DEF Range
      <3>2. processed' = Append(processed, Expected)
        BY <1>3, <3>1 DEF DeviceResets
      <3>3. /\ Len(processed') = Len(processed) + 1 /\ Expected' = Expected + 1
            /\ processed' = [i \in 1..Len(processed') |-> FirstSeq + i - 1]
        BY <3>2, AppendInOrder
      <3> QED
        BY <1>4, <1>5, <2>1, <3>1, <3>2, <3>3 DEF InOrder
    <2>2. CASE Len(processed) = 1
      <3>1. 1 \in DOMAIN processed /\ processed[1] = FirstSeq
        BY <1>4, <2>2
      <3>2. message.id \in Range(processed)
        BY <1>3, <3>1 DEF Range
      <3>3. UNCHANGED processed
        BY <3>2 DEF DeviceResets
      <3>4. Len(processed') = 1
        BY <2>2, <3>3
      <3>5. Expected' = FirstSeq + Len(processed')
        BY DEF Expected
      <3>6. Expected' = FirstSeq + 1 /\ Expected' <= Sent'
        BY <1>4, <1>5, <3>4, <3>5
      <3>7. processed' = [i \in 1..Len(processed') |-> FirstSeq + i - 1]
        BY <1>4, <3>3
      <3> QED
        BY <3>3, <3>4, <3>6, <3>7 DEF InOrder
    <2> QED
      BY <1>3, <1>4, <2>1, <2>2
  <1>8. ExpectsNext'
    BY <1>6, <1>7 DEF ExpectsNext
  <1>9. LineNumbered' /\ ResetsFirst'
    BY <1>1, <1>3, <1>4, <1>7, DeviceTakesKeeps
  <1>10. AcksProcessed'
    <2>1. AckOf(message) \in ClientMessage /\ AckOf(message).seqnum = message.seqnum
      BY <1>2, AckOfType DEF AckOf, Reply
    <2>2. FirstSeq \in FirstSeq..(Expected' - 1) /\ Expected' \in Nat /\ Expected <= Expected'
      BY <1>3, <1>4, <1>7
    <2> QED
      BY <1>2, <1>3, <1>6, <2>1, <2>2, DeviceAnswers
  <1> QED
    BY <1>7, <1>8, <1>9, <1>10 DEF StreamParts

(* The steps that process nothing.                                         *)
LEMMA NothingProcessed ==
    ASSUME StreamInv, UNCHANGED clientVars, UNCHANGED <<processed, dev_expected>>
    PROVE  /\ Expected' = Expected
           /\ StreamParts => InOrder' /\ ExpectsNext'
           /\ StreamParts /\ UNCHANGED toClient => AcksProcessed'
           /\ StreamParts /\ UNCHANGED toDevice => LineNumbered' /\ ResetsFirst'
  <1>1. Sent' = Sent /\ Expected' = Expected
    BY DEF clientVars, Sent, StopSent, Expected
  <1>2. StreamParts => InOrder' /\ ExpectsNext'
    BY <1>1 DEF StreamParts, InOrder, ExpectsNext
  <1>3. StreamParts /\ UNCHANGED toClient => AcksProcessed'
    BY <1>1 DEF StreamParts, AcksProcessed, Answers, clientVars
  <1>4. StreamParts /\ UNCHANGED toDevice => LineNumbered' /\ ResetsFirst'
    BY <1>1 DEF StreamParts, LineNumbered, ResetsFirst, clientVars
  <1> QED
    BY <1>1, <1>2, <1>3, <1>4

LEMMA OtherReceiptsKeepStream ==
    ASSUME StreamInv, Session, reboots = 0, UNCHANGED clientVars, NEW message,
           \/ DeviceDrops(message) \/ DeviceAcksAgain(message)
           \/ DeviceMissed(message) \/ DeviceFinishAcked(message)
    PROVE  StreamParts' /\ UNCHANGED processed
  <1>1. DeviceTakes(message) /\ UNCHANGED <<processed, dev_expected>>
    BY DEF DeviceDrops, DeviceAcksAgain, DeviceMissed, DeviceFinishAcked
  <1>2. /\ message \in DeviceMessage
        /\ Expected \in Nat /\ FirstSeq \in Nat
        /\ StreamParts /\ Len(processed) \in Nat
    BY <1>1, HeadOfLine, SentType DEF StreamInv
  <1>3. Expected' = Expected /\ InOrder' /\ ExpectsNext'
    BY <1>1, <1>2, NothingProcessed
  <1>4. LineNumbered' /\ ResetsFirst'
    BY <1>1, <1>2, DeviceTakesKeeps
  <1>5. AcksProcessed'
    <2>1. CASE DeviceDrops(message)
      <3> DEFINE reply == Reply("dropped", message.seqnum)
      <3>1. reply \in ClientMessage /\ reply.type = "dropped"
        BY <1>2 DEF Reply, ClientMessage, DeviceMessage
      <3>2. toClient' = Send(toClient, <<reply>>)
        BY <2>1 DEF DeviceDrops
      <3> HIDE DEF reply
      <3> QED
        BY <1>2, <1>3, <3>1, <3>2, DeviceAnswers
    <2>2. CASE DeviceMissed(message)
      <3> DEFINE reply == Reply("missed", dev_expected)
      <3>1. dev_expected \in Nat
        BY DEF StreamInv, ClientInv, SeqnumInv, TypeOK, DeviceTypeOK
      <3>2. reply \in ClientMessage /\ reply.type = "missed"
        BY <3>1 DEF Reply, ClientMessage
      <3>3. toClient' = Send(toClient, <<reply>>)
        BY <2>2 DEF DeviceMissed
      <3> HIDE DEF reply
      <3> QED
        BY <1>2, <1>3, <3>2, <3>3, DeviceAnswers
    <2>3. CASE DeviceAcksAgain(message)
      <3>1. message.type \notin {"reset", "finish_ack"} /\ IsOld(message.seqnum)
        BY <2>3 DEF DeviceAcksAgain
      <3>2. /\ message.id \in FirstSeq..(Sent - 1) /\ message.id < Expected
            /\ message.seqnum = Truncate(message.id)
        BY <1>1, <3>1, HeadOfLine
      <3>3. message.id \in FirstSeq..(Expected - 1)
        BY <1>2, <3>2, SentType DEF StreamInv
      <3>4. AckOf(message) \in ClientMessage /\ AckOf(message).seqnum = message.seqnum
        BY <1>2, AckOfType DEF AckOf, Reply
      <3>5. toClient' = Send(toClient, <<AckOf(message)>>)
        BY <2>3 DEF DeviceAcksAgain
      <3> QED
        BY <1>2, <1>3, <3>2, <3>3, <3>4, <3>5, DeviceAnswers
    <2>4. CASE DeviceFinishAcked(message)
      BY <1>1, <1>2, <2>4, NothingProcessed DEF DeviceFinishAcked
    <2> QED
      BY <2>1, <2>2, <2>3, <2>4
  <1> QED
    BY <1>1, <1>3, <1>4, <1>5 DEF StreamParts

LEMMA FinishKeepsStream ==
    ASSUME StreamInv, Session, reboots = 0, UNCHANGED clientVars,
           DeviceFinishes \/ \E seqnum \in dev_finished : DeviceResendsFinish(seqnum)
    PROVE  StreamParts' /\ UNCHANGED processed
  <1>1. /\ UNCHANGED <<processed, dev_expected, toDevice>>
        /\ \E seqnum \in Nat : toClient' = Send(toClient, <<FinishMessage(seqnum)>>)
    <2>1. CASE DeviceFinishes
      <3>1. Head(dev_queue) \in Nat
        BY <2>1, HeadTailProperties
           DEF DeviceFinishes, StreamInv, ClientInv, SeqnumInv, TypeOK, DeviceTypeOK
      <3> QED
        BY <2>1, <3>1 DEF DeviceFinishes
    <2>2. CASE \E seqnum \in dev_finished : DeviceResendsFinish(seqnum)
      BY <2>2 DEF DeviceResendsFinish, deviceVars, StreamInv, ClientInv, SeqnumInv, TypeOK,
                  DeviceTypeOK
    <2> QED
      BY <2>1, <2>2
  <1>2. PICK seqnum \in Nat : toClient' = Send(toClient, <<FinishMessage(seqnum)>>)
    BY <1>1
  <1>3. FinishMessage(seqnum) \in ClientMessage /\ FinishMessage(seqnum).type = "finished"
    BY DEF FinishMessage, ClientMessage
  <1>4. StreamParts /\ Expected \in Nat
    BY SentType DEF StreamInv
  <1>5. /\ Expected' = Expected /\ InOrder' /\ ExpectsNext'
        /\ LineNumbered' /\ ResetsFirst'
    BY <1>1, <1>4, NothingProcessed
  <1>6. AcksProcessed'
    BY <1>2, <1>3, <1>4, <1>5, DeviceAnswers
  <1> QED
    BY <1>1, <1>5, <1>6 DEF StreamParts

-----------------------------------------------------------------------------
(* The line's steps, and the whole.                                        *)

LEMMA LossKeepsStream ==
    ASSUME StreamInv, reboots = 0, UNCHANGED <<clientVars, deviceVars>>, LineNext
    PROVE  StreamParts'
  <1>1. ClientInv /\ StreamParts
    BY DEF StreamInv
  <1>2. UNCHANGED <<processed, dev_expected, ready>> /\ Sent' = Sent
    BY DEF deviceVars, clientVars, Sent, StopSent
  <1>3. toDevice \in Seq(DeviceMessage) /\ toClient \in Seq(ClientMessage)
    BY <1>1 DEF ClientInv, SeqnumInv, TypeOK, LineTypeOK
  <1>4. Expected' = Expected /\ InOrder' /\ ExpectsNext'
    BY <1>1, <1>2, NothingProcessed
  <1>5. LineNumbered' /\ ResetsFirst'
    <2>1. CASE UNCHANGED toDevice
      BY <1>1, <1>2, <2>1, NothingProcessed
    <2>2. CASE toDevice # <<>> /\ toDevice' = Tail(toDevice)
      <3>1. \A i \in DOMAIN toDevice' :
              /\ i \in Nat \ {0} /\ i + 1 \in DOMAIN toDevice
              /\ toDevice'[i] = toDevice[i + 1]
        BY <1>3, <2>2, TailElements
      <3>2. LineNumbered'
        BY <1>1, <1>2, <3>1 DEF StreamParts, LineNumbered
      <3>3. ~ready => \A i \in DOMAIN toDevice' : ResetOrFinish(toDevice'[i])
        BY <1>1, <3>1 DEF StreamParts, ResetsFirst
      <3>4. ASSUME NEW j \in DOMAIN toDevice', toDevice'[j].type = "reset"
            PROVE  /\ FirstSeq = 1 /\ toDevice'[j].id = FirstSeq /\ Len(processed) <= 1
                   /\ \A i \in 1..j : ResetOrFinish(toDevice'[i])
        <4>1. j + 1 \in DOMAIN toDevice /\ toDevice[j + 1] = toDevice'[j] /\ j \in Nat
          BY <3>1, <3>4
        <4>2. /\ FirstSeq = 1 /\ toDevice'[j].id = FirstSeq /\ Len(processed) <= 1
              /\ \A i \in 1..(j + 1) : ResetOrFinish(toDevice[i])
          BY <1>1, <3>4, <4>1 DEF StreamParts, ResetsFirst
        <4>3. toDevice' \in Seq(DeviceMessage)
          BY <1>3, <2>2, TailElements
        <4>4. \A i \in 1..j : i \in DOMAIN toDevice' /\ i + 1 \in 1..(j + 1)
          BY <3>4, <4>1, <4>3, LenProperties
        <4>5. \A i \in 1..j : ResetOrFinish(toDevice'[i])
          BY <3>1, <4>2, <4>4
        <4> QED
          BY <4>2, <4>5
      <3>5. ready /\ FirstSeq = 1 => Len(processed) > 0
        BY <1>1 DEF StreamParts, ResetsFirst
      <3> QED
        BY <1>2, <3>2, <3>3, <3>4, <3>5 DEF ResetsFirst
    <2> QED
      BY <2>1, <2>2 DEF LineNext, LoseToDevice, LoseToClient
  <1>6. AcksProcessed'
    <2>1. UNCHANGED <<m_pending_requests, m_pending_commands>>
      BY DEF clientVars
    <2>2. \A i \in DOMAIN toClient' :
            \E k \in DOMAIN toClient : toClient'[i] = toClient[k]
      <3>1. CASE UNCHANGED toClient
        BY <3>1
      <3>2. CASE toClient # <<>> /\ toClient' = Tail(toClient)
        BY <1>3, <3>2, TailElements
      <3> QED
        BY <3>1, <3>2 DEF LineNext, LoseToDevice, LoseToClient
    <2> QED
      BY <1>1, <1>4, <2>1, <2>2 DEF StreamParts, AcksProcessed, Answers
  <1> QED
    BY <1>4, <1>5, <1>6 DEF StreamParts

(* What a step does to the stream: the device processes the next message   *)
(* of all, or nothing.                                                     *)
Processes == Expected < Sent /\ processed' = Append(processed, Expected)

LEMMA StepStream ==
    ASSUME StreamInv, Session, reboots = 0, reboots' = 0, [Next]_vars
    PROVE  /\ StreamParts'
           /\ UNCHANGED processed \/ (Processes /\ UNCHANGED clientVars)
  <1>1. CASE ClientNext /\ UNCHANGED deviceVars
    <2>1. UNCHANGED processed
      BY <1>1 DEF deviceVars
    <2>2. StreamParts'
      BY <1>1, ClientKeepsStream
    <2> QED
      BY <2>1, <2>2
  <1>2. CASE DeviceNext /\ UNCHANGED clientVars
    <2>1. ~DeviceReboots
      BY DEF DeviceReboots
    <2>2. ASSUME NEW message, DeviceAccepts(message)
          PROVE  StreamParts' /\ Processes
      BY <1>2, <2>2, AcceptKeepsStream DEF Processes
    <2>3. ASSUME NEW message, DeviceResets(message)
          PROVE  StreamParts' /\ (UNCHANGED processed \/ Processes)
      BY <1>2, <2>3, ResetKeepsStream DEF Processes
    <2>4. ASSUME NEW message,
                 \/ DeviceDrops(message) \/ DeviceAcksAgain(message)
                 \/ DeviceMissed(message) \/ DeviceFinishAcked(message)
          PROVE  StreamParts' /\ UNCHANGED processed
      BY <1>2, <2>4, OtherReceiptsKeepStream
    <2>5. CASE DeviceFinishes \/ \E seqnum \in dev_finished : DeviceResendsFinish(seqnum)
      BY <1>2, <2>5, FinishKeepsStream
    <2> QED
      BY <1>2, <2>1, <2>2, <2>3, <2>4, <2>5 DEF DeviceNext, DeviceReceives
  <1>3. CASE LineNext /\ UNCHANGED <<clientVars, deviceVars>>
    BY <1>3, LossKeepsStream DEF deviceVars
  <1>4. CASE UNCHANGED vars
    <2>1. UNCHANGED <<clientVars, deviceVars, processed, dev_expected, toDevice, toClient>>
      BY <1>4 DEF vars, lineVars, deviceVars
    <2> QED
      BY <2>1, NothingProcessed DEF StreamParts, StreamInv
  <1> QED
    BY <1>1, <1>2, <1>3, <1>4 DEF Next

LEMMA StepReboots ==
    ASSUME TypeOK, [Next]_vars
    PROVE  /\ reboots' = reboots \/ (reboots' = reboots + 1 /\ reboots < MaxReboots)
           /\ reboots # 0 => reboots' # 0
  <1>1. reboots \in Nat
    BY DEF TypeOK, DeviceTypeOK
  <1>2. reboots' = reboots \/ (reboots' = reboots + 1 /\ reboots < MaxReboots)
    <2>1. DeviceReceives => reboots' = reboots
      BY DEF DeviceReceives, DeviceAccepts, DeviceDrops, DeviceResets, DeviceAcksAgain,
             DeviceMissed, DeviceFinishAcked, DeviceTakes
    <2>2. DeviceFinishes => reboots' = reboots
      BY DEF DeviceFinishes
    <2>3. DeviceReboots => reboots' = reboots + 1 /\ reboots < MaxReboots
      BY DEF DeviceReboots
    <2>4. \A seqnum \in dev_finished : DeviceResendsFinish(seqnum) => reboots' = reboots
      BY DEF DeviceResendsFinish, deviceVars
    <2>5. UNCHANGED deviceVars => reboots' = reboots
      BY DEF deviceVars
    <2>6. DeviceNext => reboots' = reboots \/ (reboots' = reboots + 1 /\ reboots < MaxReboots)
      BY <2>1, <2>2, <2>3, <2>4 DEF DeviceNext
    <2>7. UNCHANGED vars => UNCHANGED deviceVars
      BY DEF vars
    <2> QED
      BY <2>5, <2>6, <2>7, Zenon DEF Next
  <1> QED
    BY <1>1, <1>2

LEMMA StepStreamInv ==
    ASSUME StreamInv, Session, [Next]_vars
    PROVE  StreamInv'
  <1>1. ClientInv'
    BY StepClientInv DEF StreamInv
  <1>2. ASSUME reboots' = 0
        PROVE  StreamParts'
    <2>1. reboots = 0
      BY <1>2, StepReboots DEF StreamInv, ClientInv, SeqnumInv
    <2> QED
      BY <1>2, <2>1, StepStream
  <1> QED
    BY <1>1, <1>2 DEF StreamInv

(***************************************************************************)
(* The stream invariant, over a session in which the device keeps its      *)
(* power.                                                                  *)
(***************************************************************************)
PoweredInv == StreamInv /\ reboots = 0

LEMMA InitPoweredInv ==
    ASSUME Session, Init
    PROVE  PoweredInv
  BY InitStreamInv DEF PoweredInv, Init, DeviceInit

LEMMA StepPoweredInv ==
    ASSUME Session, MaxReboots = 0, PoweredInv, [Next]_vars
    PROVE  PoweredInv'
  <1>1. StreamInv' /\ TypeOK
    BY StepStreamInv DEF PoweredInv, StreamInv, ClientInv, SeqnumInv
  <1>2. reboots' = 0
    BY <1>1, StepReboots DEF PoweredInv
  <1> QED
    BY <1>1, <1>2 DEF PoweredInv

(* The commands among the messages.  Whatever is processed is processed in *)
(* the order of the numbers, requests too, as far as this device goes; the *)
(* protocol's word is for commands.                                        *)

(* What is issued is the last message so far, and the device does nothing. *)
LEMMA IssuedLast ==
    ASSUME ClientInv, [Next]_vars, m_send_seq' # m_send_seq
    PROVE  Sent = m_send_seq /\ UNCHANGED deviceVars
  <1>1. m_send_seq \in Nat
    BY SentType
  <1>2. ASSUME NEW t \in Threads, Calls(t)
        PROVE  FALSE
    BY <1>2 DEF Calls, CallIssue, CallWaitForAllRequests, CallStop, Cancel, Enter
  <1>3. ~ Receiver
    BY ReceiverKeepsControl
  <1>4. PICK t \in Threads : ThreadStep(t) /\ UNCHANGED deviceVars
    BY <1>2, <1>3, StepKinds
  <1>5. IssueRequest(t) \/ IssueCommand(t)
    BY <1>4 DEF ThreadStep, IssueThrows, IssueThrottled, IssueWaits, AwaitEnds, AwaitSleeps,
                WaitAllEnds, WaitAllSleeps, clear_all_active_commands, StopWakesEveryone,
                StopSends, StopCloses
  <1>6. m_state = "RUNNING"
    BY <1>5 DEF IssueRequest, IssueCommand, IssueRefused
  <1>7. ~ StopSent
    BY <1>6 DEF StopSent, ClientInv, OneStopper, StopPcs
  <1> QED
    BY <1>1, <1>4, <1>7 DEF Sent

CommandsNumbered ==
    /\ DOMAIN m_pending_commands \subseteq commands
    /\ commands \subseteq FirstSeq..(m_send_seq - 1)

LEMMA InitCommands ==
    ASSUME Session, HistoryInit
    PROVE  CommandsNumbered /\ Stream!Init
  BY DEF HistoryInit, Init, ClientInit, DeviceInit, CommandsNumbered, Stream!Init

(* A step issues no command, or the one with the next number.              *)
LEMMA StepCommands ==
    ASSUME ClientInv, CommandsNumbered, Next,
           commands' = commands \cup DOMAIN m_pending_commands'
    PROVE  /\ CommandsNumbered'
           /\ \/ commands' = commands
              \/ commands' = commands \cup {m_send_seq} /\ m_send_seq' = m_send_seq + 1
  <1>1. /\ m_send_seq \in Nat /\ FirstSeq \in Nat /\ FirstSeq <= m_send_seq /\ TypeOK
    BY SentType DEF ClientInv, SeqnumInv
  <1>2. CASE NothingIssued
    BY <1>1, <1>2 DEF NothingIssued, CommandsNumbered
  <1>3. CASE OneIssued
    <2>1. /\ m_send_seq' = m_send_seq + 1
          /\ DOMAIN m_pending_commands' \subseteq commands \cup {m_send_seq}
      BY <1>3 DEF OneIssued, CommandsNumbered
    <2>2. commands' = commands \/ commands' = commands \cup {m_send_seq}
      BY <2>1
    <2>3. commands' \subseteq FirstSeq..(m_send_seq' - 1)
      <3>1. m_send_seq \in FirstSeq..(m_send_seq' - 1)
        BY <1>1, <2>1
      <3>2. commands \subseteq FirstSeq..(m_send_seq' - 1)
        BY <1>1, <2>1 DEF CommandsNumbered
      <3> QED
        BY <2>2, <3>1, <3>2
    <2>4. DOMAIN m_pending_commands' \subseteq commands'
      OBVIOUS
    <2> QED
      BY <2>1, <2>2, <2>3, <2>4 DEF CommandsNumbered
  <1> QED
    BY <1>1, <1>2, <1>3, StepIssues

(* The numbers that have been processed are those before the next one.     *)
LEMMA ProcessedIs ==
    ASSUME ClientInv, InOrder
    PROVE  /\ Range(processed) = FirstSeq..(Expected - 1)
           /\ Expected \in Nat /\ Sent \in Nat /\ FirstSeq \in Nat /\ Expected <= Sent
  <1>1. /\ Len(processed) \in Nat /\ FirstSeq \in Nat /\ Expected = FirstSeq + Len(processed)
        /\ Sent \in Nat /\ Expected <= Sent
    BY SentType DEF Expected, InOrder
  <1>2. /\ DOMAIN processed = 1..Len(processed)
        /\ \A i \in 1..Len(processed) : processed[i] = FirstSeq + i - 1
    <2>1. processed = [i \in 1..Len(processed) |-> FirstSeq + i - 1]
      BY DEF InOrder
    <2> QED
      BY <2>1
  <1>3. ASSUME NEW x \in FirstSeq..(Expected - 1)
        PROVE  x \in Range(processed)
    <2>1. x - FirstSeq + 1 \in 1..Len(processed) /\ x = FirstSeq + (x - FirstSeq + 1) - 1
      BY <1>1
    <2> QED
      BY <1>2, <2>1 DEF Range
  <1>4. ASSUME NEW x \in Range(processed)
        PROVE  x \in FirstSeq..(Expected - 1)
    BY <1>1, <1>2 DEF Range
  <1>5. Range(processed) = FirstSeq..(Expected - 1)
    BY <1>3, <1>4, Zenon
  <1>6. Expected \in Nat
    BY SentType
  <1> QED
    BY <1>1, <1>5, <1>6

LEMMA StepRefinesStream ==
    ASSUME Session, MaxReboots = 0, PoweredInv, CommandsNumbered, Next,
           commands' = commands \cup DOMAIN m_pending_commands'
    PROVE  [Stream!Next]_<<commands, processed>>
  <1>1. StreamInv /\ ClientInv /\ InOrder /\ reboots = 0 /\ reboots' = 0
    BY StepPoweredInv DEF PoweredInv, StreamInv, StreamParts
  <1>2. /\ Range(processed) = FirstSeq..(Expected - 1)
        /\ Expected \in Nat /\ Sent \in Nat /\ FirstSeq \in Nat /\ Expected <= Sent
    BY <1>1, ProcessedIs
  <1>2a. /\ Stream!Range(processed) = Range(processed)
         /\ Stream!Range(processed') = Range(processed')
         /\ Stream!Awaited = commands \ Range(processed)
    BY DEF Stream!Awaited, Stream!Range, Range
  <1>3. UNCHANGED processed \/ (Processes /\ UNCHANGED clientVars)
    BY <1>1, StepStream
  <1>4. \/ commands' = commands
        \/ commands' = commands \cup {m_send_seq} /\ m_send_seq' = m_send_seq + 1
    BY <1>1, StepCommands
  <1>5. CASE commands' = commands \cup {m_send_seq} /\ m_send_seq' = m_send_seq + 1
    <2>1. Sent = m_send_seq /\ UNCHANGED processed
      BY <1>1, <1>5, SentType, IssuedLast DEF deviceVars
    <2>2. \A d \in commands \cup Range(processed) : d < m_send_seq
      BY <1>2, <2>1 DEF CommandsNumbered
    <2>3. Stream!Issue
      BY <1>2a, <1>5, <2>1, <2>2 DEF Stream!Issue
    <2> QED
      BY <2>3 DEF Stream!Next
  <1>6. CASE commands' = commands /\ Processes
    <2>1. processed' = Append(processed, Expected) /\ processed \in Seq(Nat)
      BY <1>1, <1>6 DEF Processes, ClientInv, SeqnumInv, TypeOK, DeviceTypeOK
    <2>2. Expected \in Range(processed')
      <3>1. /\ Len(processed) + 1 \in DOMAIN processed'
            /\ processed'[Len(processed) + 1] = Expected
        BY <1>2, <2>1
      <3> QED
        BY <3>1 DEF Range
    <2>3. Expected \in commands => Expected \in Stream!Awaited
      BY <1>2, <1>2a
    <2>4. ASSUME NEW c \in Stream!Awaited
          PROVE  Expected <= c
      <3>1. c \in FirstSeq..(m_send_seq - 1) /\ c \notin FirstSeq..(Expected - 1)
        BY <1>2, <1>2a, <2>4 DEF CommandsNumbered
      <3> QED
        BY <1>1, <1>2, <3>1, SentType
    <2>5. Stream!Process
      BY <1>2a, <1>6, <2>1, <2>2, <2>3, <2>4 DEF Stream!Process
    <2> QED
      BY <2>5 DEF Stream!Next
  <1> QED
    BY <1>3, <1>4, <1>5, <1>6

(* MessageProtocol.h: "all commands are processed in order exactly once".  *)
(* Over any losses and retransmissions, any line and any number of threads *)
(* that call into the class, the device processes the commands in the      *)
(* order they were issued, none twice, none skipped and none out of turn:  *)
(* PABotBase, the line and a device that keeps its power implement         *)
(* ReliableStream, in a session shorter than half the range of seqnum_t.   *)
THEOREM ExactlyOnce ==
    ASSUME Session, MaxReboots = 0
    PROVE  HistorySpec => CommandsOnceInOrder
  <1> DEFINE HistoryInv == PoweredInv /\ CommandsNumbered
  <1>1. HistoryInit => HistoryInv /\ Stream!Init
    BY InitPoweredInv, InitCommands DEF HistoryInit
  <1>2. HistoryInv /\ [HistoryNext]_<<vars, commands>> =>
           HistoryInv' /\ [Stream!Next]_<<commands, processed>>
    <2>1. ASSUME HistoryInv, HistoryNext
          PROVE  HistoryInv' /\ [Stream!Next]_<<commands, processed>>
      <3>1. ClientInv
        BY <2>1 DEF PoweredInv, StreamInv
      <3> QED
        BY <2>1, <3>1, StepPoweredInv, StepCommands, StepRefinesStream DEF HistoryNext
    <2>2. ASSUME HistoryInv, UNCHANGED <<vars, commands>>
          PROVE  HistoryInv' /\ UNCHANGED <<commands, processed>>
      <3>1. PoweredInv'
        BY <2>2, StepPoweredInv
      <3>2. UNCHANGED <<m_pending_commands, m_send_seq, commands, processed>>
        BY <2>2 DEF vars, clientVars, deviceVars
      <3> QED
        BY <2>2, <3>1, <3>2 DEF CommandsNumbered
    <2> QED
      BY <2>1, <2>2
  <1> HIDE DEF HistoryInv
  <1> QED
    BY <1>1, <1>2, PTL DEF HistorySpec, CommandsOnceInOrder, Stream!Spec

-----------------------------------------------------------------------------
(***************************************************************************)
(* The commands on the device: what it reports finished is a command of    *)
(* this session that it has finished.                                      *)
(***************************************************************************)

(* The number on the wire of a message that has been processed, and of a   *)
(* command that is not in the queue any more.                              *)
Accepted(x) == \E a \in FirstSeq..(Expected - 1) : x = Truncate(a)
Ended(x) == Accepted(x) /\ x \notin Range(dev_queue)

(* The commands whose finish message is on the line.                       *)
Reported ==
    {toClient[k].command : k \in {i \in DOMAIN toClient : toClient[i].type = "finished"}}

QueueParts ==
    /\ \A x \in Range(dev_queue) : Accepted(x)
    /\ \A i, j \in DOMAIN dev_queue : dev_queue[i] = dev_queue[j] => i = j
    /\ \A x \in dev_finished \cup Reported : Ended(x)

QueueInv == PoweredInv /\ QueueParts

LEMMA InitQueueInv ==
    ASSUME Session, Init
    PROVE  QueueInv
  <1>1. dev_queue = <<>> /\ dev_finished = {} /\ toClient = <<>>
    BY DEF Init, DeviceInit, LineInit
  <1> QED
    BY <1>1, InitPoweredInv DEF QueueInv, QueueParts, Range, Reported

LEMMA QueueSteps ==
    ASSUME [Next]_vars, reboots' = reboots, reboots = 0
    PROVE  \/ UNCHANGED dev_queue /\ dev_finished' \subseteq dev_finished
           \/ DeviceFinishes
           \/ (\E message : DeviceAccepts(message)) /\ UNCHANGED clientVars
  <1>1. CASE UNCHANGED deviceVars
    BY <1>1 DEF deviceVars
  <1>2. CASE DeviceReceives /\ UNCHANGED clientVars
    <2>1. ASSUME NEW message,
                 \/ DeviceDrops(message) \/ DeviceResets(message)
                 \/ DeviceAcksAgain(message) \/ DeviceMissed(message)
                 \/ DeviceFinishAcked(message)
          PROVE  UNCHANGED dev_queue /\ dev_finished' \subseteq dev_finished
      BY <2>1 DEF DeviceDrops, DeviceResets, DeviceAcksAgain, DeviceMissed, DeviceFinishAcked
    <2> QED
      BY <1>2, <2>1 DEF DeviceReceives
  <1>3. ASSUME NEW seqnum \in dev_finished, DeviceResendsFinish(seqnum)
        PROVE  UNCHANGED deviceVars
    BY <1>3 DEF DeviceResendsFinish
  <1>4. ~DeviceReboots
    BY DEF DeviceReboots
  <1>5. UNCHANGED vars => UNCHANGED deviceVars
    BY DEF vars
  <1> QED
    BY <1>1, <1>2, <1>3, <1>4, <1>5 DEF Next, DeviceNext

(* What is new on the line to the client, and which step of the device it  *)
(* comes from.                                                             *)
NewReply(reply) ==
    \/ reply.type \in {"ack_request", "ack_command"}
    \/ reply.type = "finished" /\ reply.command \in dev_finished'
    \/ reply = Reply("missed", dev_expected) /\ \E message : DeviceMissed(message)
    \/ reply.type = "dropped" /\ \E message : DeviceDrops(message)

LEMMA RepliesAreNew ==
    ASSUME TypeOK, [Next]_vars, NEW k \in DOMAIN toClient'
    PROVE  \/ \E i \in DOMAIN toClient : toClient'[k] = toClient[i]
           \/ NewReply(toClient'[k]) /\ UNCHANGED clientVars
  <1> DEFINE Goal == \/ \E i \in DOMAIN toClient : toClient'[k] = toClient[i]
                     \/ NewReply(toClient'[k])
  <1>1. toClient \in Seq(ClientMessage) /\ toDevice \in Seq(DeviceMessage)
    BY DEF TypeOK, LineTypeOK
  <1>2. ASSUME UNCHANGED toClient
        PROVE  Goal
    BY <1>2
  <1>3. ASSUME toClient # <<>> /\ toClient' = Tail(toClient)
        PROVE  Goal
    BY <1>1, <1>3, TailElements
  <1>4. ASSUME NEW reply \in ClientMessage, toClient' = Send(toClient, <<reply>>),
               NewReply(reply)
        PROVE  Goal
    BY <1>1, <1>4, SendOneElements
  <1>5. ASSUME DeviceReceives
        PROVE  Goal
    <2>1. PICK message \in Range(toDevice) :
            \/ DeviceAccepts(message) \/ DeviceDrops(message)
            \/ DeviceResets(message) \/ DeviceAcksAgain(message)
            \/ DeviceMissed(message) \/ DeviceFinishAcked(message)
      BY <1>5 DEF DeviceReceives
    <2>2. message \in DeviceMessage /\ dev_expected \in Nat
      BY <1>1, <2>1 DEF Range, TypeOK, DeviceTypeOK
    <2>3. CASE \/ DeviceAccepts(message) \/ DeviceResets(message)
               \/ DeviceAcksAgain(message)
      <3>1. toClient' = Send(toClient, <<AckOf(message)>>)
        BY <2>3 DEF DeviceAccepts, Accept, DeviceResets, DeviceAcksAgain
      <3>2. AckOf(message) \in ClientMessage /\ NewReply(AckOf(message))
        BY <2>2 DEF AckOf, Reply, ClientMessage, DeviceMessage, NewReply
      <3> QED
        BY <1>4, <3>1, <3>2
    <2>4. CASE DeviceDrops(message)
      <3> DEFINE reply == Reply("dropped", message.seqnum)
      <3>1. toClient' = Send(toClient, <<reply>>)
        BY <2>4 DEF DeviceDrops
      <3>2. reply \in ClientMessage /\ reply.type = "dropped"
        BY <2>2 DEF Reply, ClientMessage, DeviceMessage
      <3>3. NewReply(reply)
        BY <2>4, <3>2 DEF NewReply
      <3> QED
        BY <1>4, <3>1, <3>2, <3>3
    <2>5. CASE DeviceMissed(message)
      <3> DEFINE reply == Reply("missed", dev_expected)
      <3>1. toClient' = Send(toClient, <<reply>>)
        BY <2>5 DEF DeviceMissed
      <3>2. reply \in ClientMessage
        BY <2>2 DEF Reply, ClientMessage
      <3>3. NewReply(reply)
        BY <2>5 DEF NewReply
      <3> QED
        BY <1>4, <3>1, <3>2, <3>3
    <2>6. CASE DeviceFinishAcked(message)
      BY <1>2, <2>6 DEF DeviceFinishAcked
    <2> QED
      BY <2>1, <2>3, <2>4, <2>5, <2>6
  <1>6. ASSUME NEW seqnum \in Nat, seqnum \in dev_finished',
               toClient' = Send(toClient, <<FinishMessage(seqnum)>>)
        PROVE  Goal
    <2>1. FinishMessage(seqnum) \in ClientMessage /\ NewReply(FinishMessage(seqnum))
      BY <1>6 DEF FinishMessage, ClientMessage, NewReply
    <2> QED
      BY <1>4, <1>6, <2>1
  <1>7. ASSUME DeviceFinishes
        PROVE  Goal
    <2>1. /\ Head(dev_queue) \in Nat /\ Head(dev_queue) \in dev_finished'
          /\ toClient' = Send(toClient, <<FinishMessage(Head(dev_queue))>>)
      BY <1>7, HeadTailProperties DEF DeviceFinishes, TypeOK, DeviceTypeOK
    <2> QED
      BY <1>6, <2>1
  <1>8. ASSUME NEW seqnum \in dev_finished, DeviceResendsFinish(seqnum)
        PROVE  Goal
    <2>1. /\ seqnum \in Nat /\ dev_finished' = dev_finished
          /\ toClient' = Send(toClient, <<FinishMessage(seqnum)>>)
      BY <1>8 DEF DeviceResendsFinish, deviceVars, TypeOK, DeviceTypeOK
    <2> QED
      BY <1>6, <2>1
  <1>9. ASSUME DeviceReboots
        PROVE  Goal
    BY <1>2, <1>9 DEF DeviceReboots, lineVars
  <1>10. CASE ClientNext \/ LineNext \/ UNCHANGED vars
    <2>1. UNCHANGED toClient \/ (toClient # <<>> /\ toClient' = Tail(toClient))
      BY <1>10, ClientReads DEF LineNext, LoseToDevice, LoseToClient, vars, lineVars
    <2> QED
      BY <1>1, <2>1, TailElements
  <1> HIDE DEF Goal
  <1>11. CASE DeviceNext /\ UNCHANGED clientVars
    <2>1. Goal
      BY <1>5, <1>7, <1>8, <1>9, <1>11 DEF DeviceNext
    <2> QED
      BY <1>11, <2>1 DEF Goal
  <1> QED
    BY <1>10, <1>11 DEF Next

LEMMA FinishedMessages ==
    ASSUME TypeOK, [Next]_vars
    PROVE  Reported' \subseteq Reported \cup dev_finished'
  <1> SUFFICES ASSUME NEW k \in DOMAIN toClient', toClient'[k].type = "finished"
               PROVE  \/ \E i \in DOMAIN toClient : toClient'[k] = toClient[i]
                      \/ toClient'[k].command \in dev_finished'
    BY DEF Reported
  <1> QED
    BY RepliesAreNew DEF NewReply, Reply

LEMMA ExpectedGrows ==
    ASSUME PoweredInv, Session, MaxReboots = 0, [Next]_vars
    PROVE  /\ Expected' \in Nat /\ Expected \in Nat /\ FirstSeq \in Nat
           /\ Expected' = Expected \/ Expected' = Expected + 1
           /\ \A x : Accepted(x) => Accepted(x)'
  <1>1. /\ StreamInv /\ reboots = 0 /\ reboots' = 0 /\ FirstSeq \in Nat
        /\ Expected \in Nat /\ Len(processed) \in Nat
    BY StepPoweredInv, SentType DEF PoweredInv, StreamInv
  <1>2. Expected' = Expected \/ Expected' = Expected + 1
    <2>1. CASE UNCHANGED processed
      BY <2>1 DEF Expected
    <2>2. CASE Processes
      BY <1>1, <2>2, AppendInOrder DEF Processes
    <2> QED
      BY <1>1, <2>1, <2>2, StepStream
  <1>3. ASSUME NEW x, Accepted(x)
        PROVE  Accepted(x)'
    <2> DEFINE E == Expected'
    <2>1. E = Expected \/ E = Expected + 1
      BY <1>2
    <2> HIDE DEF E
    <2>2. FirstSeq..(Expected - 1) \subseteq FirstSeq..(E - 1)
      BY <1>1, <2>1
    <2>3. \E a \in FirstSeq..(E - 1) : x = Truncate(a)
      BY <1>3, <2>2 DEF Accepted
    <2> QED
      BY <2>3 DEF Accepted, E
  <1> QED
    BY <1>1, <1>2, <1>3

LEMMA StepQueueInv ==
    ASSUME QueueInv, Session, MaxReboots = 0, [Next]_vars
    PROVE  QueueInv'
  <1>1. /\ PoweredInv /\ PoweredInv' /\ QueueParts /\ TypeOK
        /\ reboots = 0 /\ reboots' = 0
    BY StepPoweredInv DEF QueueInv, PoweredInv, StreamInv, ClientInv, SeqnumInv
  <1>2. \A x : Accepted(x) => Accepted(x)'
    BY <1>1, ExpectedGrows
  <1>3. dev_queue \in Seq(Nat) /\ DOMAIN dev_queue = 1..Len(dev_queue)
    BY <1>1, LenProperties DEF TypeOK, DeviceTypeOK
  <1>4. ASSUME \A x : Ended(x) => Ended(x)',
               \A x \in dev_finished' : Ended(x)'
        PROVE  \A x \in dev_finished' \cup Reported' : Ended(x)'
    BY <1>1, <1>4, FinishedMessages DEF QueueParts
  <1>5. CASE UNCHANGED dev_queue /\ dev_finished' \subseteq dev_finished
    <2>1. Range(dev_queue') = Range(dev_queue)
      BY <1>5
    <2>2. \A x : Ended(x) => Ended(x)'
      BY <1>2, <2>1 DEF Ended
    <2>3. \A x \in dev_finished' : Ended(x)'
      BY <1>1, <1>5, <2>2 DEF QueueParts
    <2>4. \A x \in Range(dev_queue') : Accepted(x)'
      BY <1>1, <1>2, <2>1 DEF QueueParts
    <2>5. \A i, j \in DOMAIN dev_queue' : dev_queue'[i] = dev_queue'[j] => i = j
      BY <1>1, <1>5 DEF QueueParts
    <2>6. \A x \in dev_finished' \cup Reported' : Ended(x)'
      BY <1>4, <2>2, <2>3
    <2> QED
      BY <1>1, <2>4, <2>5, <2>6 DEF QueueParts, QueueInv
  <1>6. CASE DeviceFinishes
    <2>1. /\ dev_queue # <<>> /\ dev_queue' = Tail(dev_queue)
          /\ dev_finished' = dev_finished \cup {dev_queue[1]} /\ 1 \in DOMAIN dev_queue
          /\ \A i \in DOMAIN dev_queue' :
               i \in Nat \ {0} /\ i + 1 \in DOMAIN dev_queue /\ dev_queue'[i] = dev_queue[i + 1]
      BY <1>3, <1>6, TailElements DEF DeviceFinishes
    <2>2. Range(dev_queue') \subseteq Range(dev_queue)
      BY <2>1 DEF Range
    <2>3. \A x : Ended(x) => Ended(x)'
      BY <1>2, <2>2 DEF Ended
    <2>4. dev_queue[1] \notin Range(dev_queue')
      <3> SUFFICES ASSUME NEW i \in DOMAIN dev_queue', dev_queue'[i] = dev_queue[1]
                   PROVE  FALSE
        BY DEF Range
      <3>1. i + 1 = 1 /\ i \in Nat \ {0}
        BY <1>1, <2>1 DEF QueueParts
      <3> QED
        BY <3>1
    <2>5. ASSUME NEW x, x = dev_queue[1]
          PROVE  Ended(x)'
      <3>1. Accepted(x)
        BY <1>1, <2>1, <2>5 DEF QueueParts, Range
      <3> QED
        BY <1>2, <2>4, <2>5, <3>1 DEF Ended
    <2>6. ASSUME NEW i \in DOMAIN dev_queue', NEW j \in DOMAIN dev_queue',
                 dev_queue'[i] = dev_queue'[j]
          PROVE  i = j
      <3>1. i + 1 = j + 1 /\ i \in Nat /\ j \in Nat
        BY <1>1, <2>1, <2>6 DEF QueueParts
      <3> QED
        BY <3>1
    <2>7. \A x \in dev_finished' : Ended(x)'
      BY <1>1, <2>1, <2>3, <2>5 DEF QueueParts
    <2>8. \A x \in Range(dev_queue') : Accepted(x)'
      BY <1>1, <1>2, <2>2 DEF QueueParts
    <2>9. \A x \in dev_finished' \cup Reported' : Ended(x)'
      BY <1>4, <2>3, <2>7
    <2> QED
      BY <1>1, <2>6, <2>8, <2>9 DEF QueueParts, QueueInv
  <1>7. ASSUME NEW message, DeviceAccepts(message), UNCHANGED clientVars
        PROVE  QueueParts'
    <2>1. /\ message.id = Expected /\ Expected < Sent /\ StreamParts
          /\ processed' = Append(processed, Expected)
      BY <1>1, <1>7, AcceptKeepsStream DEF PoweredInv, StreamInv
    <2>2. Expected' = Expected + 1 /\ Expected \in Nat /\ FirstSeq \in Nat /\ Sent \in Nat
      BY <1>1, <2>1, AppendInOrder, SentType DEF PoweredInv, StreamInv
    <2>3. message.seqnum = Truncate(Expected) /\ Expected \in FirstSeq..Sent
      <3>1. DeviceTakes(message) /\ message.type # "finish_ack"
        BY <1>7 DEF DeviceAccepts
      <3>2. message.id \in FirstSeq..(Sent - 1) /\ message.seqnum = Truncate(message.id)
        BY <1>1, <3>1, HeadOfLine DEF PoweredInv
      <3> QED
        BY <2>1, <2>2, <3>2
    <2>4. PICK e : e = message.seqnum
      OBVIOUS
    <2>5. ~Accepted(e)
      <3> SUFFICES ASSUME NEW a \in FirstSeq..(Expected - 1), e = Truncate(a)
                   PROVE  FALSE
        BY DEF Accepted
      <3>1. a \in FirstSeq..Sent /\ a # Expected
        BY <2>1, <2>2
      <3> QED
        BY <1>1, <2>3, <2>4, <3>1, SessionResolves DEF PoweredInv, StreamInv, Session
    <2>6. Accepted(e)'
      <3>1. PICK a : a = Expected
        OBVIOUS
      <3>2. a \in FirstSeq..(Expected' - 1) /\ e = Truncate(a)
        BY <2>2, <2>3, <2>4, <3>1
      <3> QED
        BY <3>2 DEF Accepted
    <2>7. UNCHANGED dev_finished
      BY <1>7 DEF DeviceAccepts
    <2>8. \/ UNCHANGED dev_queue \/ dev_queue' = <<>>
          \/ dev_queue' = <<e>> \/ dev_queue' = Append(dev_queue, e)
      <3>1. message.type \in {"command", "request", "stop", "interrupt"}
        BY <1>1, <1>7, HeadOfLine DEF DeviceAccepts, DeviceMessage, RequestTypes, PoweredInv
      <3> QED
        BY <1>7, <2>4, <3>1 DEF DeviceAccepts
    <2> DEFINE n == Len(dev_queue)
    <2>9. /\ n \in Nat /\ DOMAIN dev_queue = 1..n
          /\ DOMAIN Append(dev_queue, e) = 1..(n + 1)
          /\ \A i \in 1..n : Append(dev_queue, e)[i] = dev_queue[i]
          /\ Append(dev_queue, e)[n + 1] = e
      <3>1. e \in Nat
        BY <2>2, <2>3, <2>4, TruncateType
      <3> QED
        BY <1>3, <3>1, AppendProperties, LenProperties
    <2> HIDE DEF n
    <2>10. \A i \in DOMAIN dev_queue' :
             \/ dev_queue'[i] = e
             \/ i \in DOMAIN dev_queue /\ dev_queue'[i] = dev_queue[i]
      BY <2>8, <2>9
    <2>11. \A x \in Range(dev_queue') : x = e \/ x \in Range(dev_queue)
      BY <2>10 DEF Range
    <2>12. \A x : Ended(x) => Ended(x)'
      BY <1>2, <2>5, <2>11 DEF Ended
    <2>13. \A i \in DOMAIN dev_queue : dev_queue[i] # e
      BY <1>1, <2>5 DEF QueueParts, Range
    <2>14. ASSUME NEW i \in DOMAIN dev_queue', NEW j \in DOMAIN dev_queue',
                  dev_queue'[i] = dev_queue'[j]
           PROVE  i = j
      <3>1. CASE dev_queue'[i] = e
        <4>1. CASE dev_queue' = <<e>>
          <5>1. i = 1 /\ j = 1
            BY <4>1
          <5> QED
            BY <5>1
        <4>2. CASE dev_queue' = Append(dev_queue, e)
          <5>1. \A k \in 1..n : dev_queue'[k] # e
            BY <2>9, <2>13, <4>2
          <5>2. i \in 1..(n + 1) /\ j \in 1..(n + 1) /\ i \notin 1..n /\ j \notin 1..n
            BY <2>9, <2>14, <3>1, <4>2, <5>1
          <5> QED
            BY <2>9, <5>2
        <4>3. CASE UNCHANGED dev_queue \/ dev_queue' = <<>>
          BY <2>13, <3>1, <4>3
        <4> QED
          BY <2>8, <4>1, <4>2, <4>3
      <3>2. CASE dev_queue'[i] # e
        BY <1>1, <2>10, <2>14, <3>2 DEF QueueParts
      <3> QED
        BY <3>1, <3>2
    <2>15. \A x \in Range(dev_queue') : Accepted(x)'
      BY <1>1, <1>2, <2>6, <2>11 DEF QueueParts
    <2>16. \A x \in dev_finished' : Ended(x)'
      BY <1>1, <2>7, <2>12 DEF QueueParts
    <2> QED
      BY <1>4, <2>12, <2>14, <2>15, <2>16 DEF QueueParts
  <1> QED
    BY <1>1, <1>5, <1>6, <1>7, QueueSteps DEF QueueInv

-----------------------------------------------------------------------------
(* What leaves the maps of pending messages.                               *)

LEMMA ProcessedRange ==
    ASSUME StreamInv, reboots = 0, NEW s \in Nat, FirstSeq <= s, s < Expected
    PROVE  s \in Range(processed)
  <1>1. /\ FirstSeq \in Nat /\ Len(processed) \in Nat /\ Expected = FirstSeq + Len(processed)
        /\ processed = [i \in 1..Len(processed) |-> FirstSeq + i - 1]
    BY SentType DEF StreamInv, StreamParts, InOrder, Expected
  <1>2. s - FirstSeq + 1 \in 1..Len(processed)
    BY <1>1
  <1>3. s - FirstSeq + 1 \in DOMAIN processed /\ processed[s - FirstSeq + 1] = s
    BY <1>1, <1>2
  <1> QED
    BY <1>3 DEF Range

LEMMA LiveNumbers ==
    ASSUME ClientInv, NEW s \in LiveSeqnums
    PROVE  s \in Nat /\ FirstSeq <= s /\ s < m_send_seq
  BY DEF ClientInv, SeqnumInv, NumbersFrom, IssuedBelowNext, TypeOK, PendingTypeOK,
         LiveSeqnums

LEMMA RequestsLeave ==
    ASSUME StreamInv, Session, reboots = 0, [Next]_vars,
           NEW s \in DOMAIN m_pending_requests, s \notin DOMAIN m_pending_requests'
    PROVE  \/ s < Expected
           \/ ~m_pending_requests[s].silent_remove /\ (m_error \/ m_state # "RUNNING")
  <1>1. CASE Receiver
    <2>1. process_ack_request
      BY <1>1 DEF Receiver, process_ack_command, process_command_finished,
                  process_missed_request, process_other, ReceiverNotifies
    <2> DEFINE r == Inferred(m_pending_requests, Head(toClient).seqnum)
    <2>2. toClient # <<>> /\ Head(toClient).type = "ack_request"
      BY <2>1 DEF process_ack_request, Receives
    <2>3. \/ m_pending_requests' = m_pending_requests
          \/ /\ Known(m_pending_requests, Head(toClient).seqnum)
             /\ \/ m_pending_requests' = Without(m_pending_requests, r)
                \/ m_pending_requests' = [m_pending_requests EXCEPT ![r].state = "ACKED"]
      BY <2>1 DEF process_ack_request, AckEntry
    <2>4. Known(m_pending_requests, Head(toClient).seqnum) => r < Expected
      BY <2>2, AckIsOfProcessed DEF LiveSeqnums, Session
    <2> HIDE DEF r
    <2> QED
      BY <2>3, <2>4 DEF Without, Restrict
  <1>2. ASSUME NEW t \in Threads, ThreadStep(t)
        PROVE  \/ s < Expected
               \/ /\ ~m_pending_requests[s].silent_remove
                  /\ m_error \/ m_state # "RUNNING"
    <2>1. CASE IssueRequest(t)
      BY <2>1 DEF IssueRequest, With
    <2>2. CASE AwaitEnds(t)
      <3>1. /\ s = handle[t]
            /\ m_state # "RUNNING" \/ m_error \/ m_pending_requests[s].state = "ACKED"
            /\ pc[t] = "await"
        BY <2>2 DEF AwaitEnds, Awake, Without, Restrict
      <3>2. ~m_pending_requests[s].silent_remove
        BY <3>1 DEF StreamInv, ClientInv, WaitInv, WaiterOwnsEntry
      <3> QED
        BY <3>1, <3>2 DEF StreamInv, StreamParts, AcksProcessed
    <2> QED
      BY <1>2, <2>1, <2>2
         DEF ThreadStep, IssueThrows, IssueThrottled, IssueWaits, AwaitSleeps, WaitAllEnds,
             WaitAllSleeps, StopWakesEveryone, StopSends, StopCloses, IssueCommand,
             clear_all_active_commands
  <1> QED
    BY <1>1, <1>2, StepKinds
       DEF Calls, CallIssue, CallWaitForAllRequests, CallStop, Cancel, Enter

LEMMA CommandsLeave ==
    ASSUME QueueInv, Session, [Next]_vars,
           NEW s \in DOMAIN m_pending_commands, s \notin DOMAIN m_pending_commands'
    PROVE  \/ s < Expected /\ Truncate(s) \notin Range(dev_queue)
           \/ \E t \in Threads : pc[t] = "clear" /\ op[t] \in ClearOps /\ handle[t] > s
  <1>1. /\ StreamInv /\ ClientInv /\ reboots = 0 /\ QueueParts /\ StreamParts
        /\ toClient \in Seq(ClientMessage) /\ s \in Nat
    BY LiveNumbers DEF QueueInv, PoweredInv, StreamInv, ClientInv, SeqnumInv, TypeOK, LineTypeOK, LiveSeqnums
  <1>2. CASE Receiver
    <2>1. process_command_finished
      BY <1>2 DEF Receiver, process_ack_request, process_ack_command,
                  process_missed_request, process_other, ReceiverNotifies
    <2>2. toClient # <<>> /\ Head(toClient).type = "finished"
      BY <2>1 DEF process_command_finished, Receives
    <2> DEFINE c == Head(toClient).command
    <2>3. Known(m_pending_commands, c) /\ s = Inferred(m_pending_commands, c)
      BY <2>1 DEF process_command_finished, Without, Restrict
    <2>4. c \in Reported
      <3>1. Head(toClient) = toClient[1] /\ 1 \in DOMAIN toClient
        BY <1>1, <2>2, TailElements
      <3> QED
        BY <2>2, <3>1 DEF Reported
    <2>5. Accepted(c) /\ c \notin Range(dev_queue)
      BY <1>1, <2>4 DEF QueueParts, Ended
    <2> HIDE DEF c
    <2>6. PICK a \in FirstSeq..(Expected - 1) : c = Truncate(a)
      BY <2>5 DEF Accepted
    <2>7. a \in FirstSeq..Sent /\ a < Expected
      BY <1>1, SentType DEF StreamParts, InOrder
    <2>8. s = a
      BY <1>1, <2>3, <2>6, <2>7, AnswerIsForItsOwn DEF LiveSeqnums, Session
    <2> QED
      BY <2>5, <2>6, <2>7, <2>8
  <1>3. ASSUME NEW t \in Threads, ThreadStep(t)
        PROVE  pc[t] = "clear" /\ op[t] \in ClearOps /\ handle[t] > s
    <2>1. CASE IssueCommand(t)
      BY <2>1 DEF IssueCommand, With
    <2>2. CASE clear_all_active_commands(t)
      <3>1. pc[t] = "clear" /\ ~(s > handle[t])
        BY <2>2 DEF clear_all_active_commands, Awake, Restrict
      <3>2. handle[t] \in Nat /\ handle[t] # s /\ op[t] \in ClearOps
        BY <1>1, <3>1 DEF ClientInv, ClearsOlder, CallsAllowed, SeqnumInv, TypeOK, ControlTypeOK
      <3> QED
        BY <1>1, <3>1, <3>2
    <2> QED
      BY <1>3, <2>1, <2>2
         DEF ThreadStep, IssueThrows, IssueThrottled, IssueWaits, AwaitEnds, AwaitSleeps,
             WaitAllEnds, WaitAllSleeps, StopWakesEveryone, StopSends, StopCloses, IssueRequest
  <1> QED
    BY <1>2, <1>3, StepKinds
       DEF Calls, CallIssue, CallWaitForAllRequests, CallStop, Cancel, Enter

(* A pending request leaves its map only when the device has processed it, *)
(* or when its waiter gives up on a dead connection, and a pending command *)
(* only when the device has finished it or a later stop or interrupt       *)
(* clears it: process_ack_request, process_command_finished,               *)
(* wait_for_request and clear_all_active_commands take no late, duplicate  *)
(* or retransmitted answer for another's.                                  *)
THEOREM EntriesLeave ==
    ASSUME Session, MaxReboots = 0
    PROVE  Spec => EntriesLeaveWhenDone
  <1>1. Init => QueueInv
    BY InitQueueInv
  <1>2. QueueInv /\ [Next]_vars => QueueInv'
    BY StepQueueInv
  <1>3. ASSUME QueueInv, [Next]_vars
        PROVE  /\ \A s \in DOMAIN m_pending_requests \ DOMAIN m_pending_requests' :
                    s \in Range(processed) \/ m_error \/ m_state # "RUNNING"
               /\ \A s \in DOMAIN m_pending_commands \ DOMAIN m_pending_commands' :
                    \/ s \in Range(processed) /\ Truncate(s) \notin Range(dev_queue)
                    \/ \E t \in Threads : pc[t] = "clear" /\ handle[t] > s
    <2>1. StreamInv /\ ClientInv /\ reboots = 0
      BY <1>3 DEF QueueInv, PoweredInv, StreamInv
    <2>2. ASSUME NEW s \in DOMAIN m_pending_requests, s \notin DOMAIN m_pending_requests'
          PROVE  s \in Range(processed) \/ m_error \/ m_state # "RUNNING"
      <3>1. s \in Nat /\ FirstSeq <= s
        BY <2>1, LiveNumbers DEF LiveSeqnums
      <3>2. s < Expected \/ m_error \/ m_state # "RUNNING"
        BY <1>3, <2>1, <2>2, RequestsLeave
      <3> QED
        BY <2>1, <3>1, <3>2, ProcessedRange
    <2>3. ASSUME NEW s \in DOMAIN m_pending_commands, s \notin DOMAIN m_pending_commands'
          PROVE  \/ s \in Range(processed) /\ Truncate(s) \notin Range(dev_queue)
                 \/ \E t \in Threads : pc[t] = "clear" /\ handle[t] > s
      <3>1. s \in Nat /\ FirstSeq <= s
        BY <2>1, LiveNumbers DEF LiveSeqnums
      <3>2. \/ s < Expected /\ Truncate(s) \notin Range(dev_queue)
            \/ \E t \in Threads : pc[t] = "clear" /\ handle[t] > s
        BY <1>3, <2>3, CommandsLeave
      <3> QED
        BY <2>1, <3>1, <3>2, ProcessedRange
    <2> QED
      BY <2>2, <2>3
  <1>4. QueueInv /\ [Next]_vars =>
          [/\ \A s \in DOMAIN m_pending_requests \ DOMAIN m_pending_requests' :
                s \in Range(processed) \/ m_error \/ m_state # "RUNNING"
           /\ \A s \in DOMAIN m_pending_commands \ DOMAIN m_pending_commands' :
                \/ s \in Range(processed) /\ Truncate(s) \notin Range(dev_queue)
                \/ \E t \in Threads : pc[t] = "clear" /\ handle[t] > s]_vars
    BY <1>3
  <1> QED
    BY <1>1, <1>2, <1>4, PTL DEF Spec, EntriesLeaveWhenDone

-----------------------------------------------------------------------------
(***************************************************************************)
(* "Serial connection has been interrupted."                               *)
(***************************************************************************)

(* PABB_MSG_ERROR_MISSED_REQUEST with number 1 stands for a restart: a     *)
(* session must not come round to 2^32 + 1 messages.                       *)
NoWrap == MaxSeq <= SeqMod

NoFalseAlarm ==
    /\ ~m_error
    /\ \A k \in DOMAIN toClient :
         toClient[k].type = "missed" => ~MeansRestart(toClient[k].seqnum)

AlarmInv == StreamInv /\ (reboots = 0 => NoFalseAlarm)

(* A device that has missed a message waits for one that is not the first. *)
LEMMA MissedIsNotFirst ==
    ASSUME StreamInv, Session, NoWrap, reboots = 0, NEW message, DeviceMissed(message)
    PROVE  ~MeansRestart(dev_expected)
  <1>1. /\ DeviceTakes(message) /\ message.type \notin {"reset", "finish_ack"}
        /\ message.seqnum # dev_expected /\ ~IsOld(message.seqnum)
    BY DEF DeviceMissed
  <1>2. /\ ready /\ dev_expected = Truncate(Expected)
        /\ Expected < message.id /\ message.id \in FirstSeq..(Sent - 1)
    BY <1>1, HeadOfLine
  <1>3. /\ Expected \in Nat /\ Len(processed) \in Nat /\ Expected = FirstSeq + Len(processed)
        /\ FirstSeq \in Nat \ {0} /\ Sent \in Nat /\ MaxSeq \in Nat /\ Sent <= MaxSeq + 2
    BY SentType DEF StreamInv, Expected
  <1>4. FirstSeq = 1 => Len(processed) > 0
    BY <1>2 DEF StreamInv, StreamParts, ResetsFirst
  <1>5. 2 <= Expected /\ Expected <= SeqMod
    <2>1. message.id \in Int /\ message.id <= MaxSeq + 1 /\ SeqMod \in Nat
      BY <1>2, <1>3, SeqModAssumption
    <2>2. Expected <= MaxSeq
      BY <1>2, <1>3, <2>1
    <2> QED
      BY <1>3, <1>4, <2>1, <2>2 DEF NoWrap
  <1>6. Truncate(Expected) # 1
    <2>1. CASE Expected < SeqMod
      <3>1. Truncate(Expected) = Expected
        <4>1. Expected \in 0..(SeqMod - 1)
          BY <1>3, <2>1, SeqModAssumption
        <4> QED
          BY <4>1, TruncateSmall
      <3> QED
        BY <1>5, <3>1
    <2>2. CASE Expected = SeqMod
      BY <2>2, SeqModAssumption DEF Truncate
    <2> QED
      BY <1>3, <1>5, <2>1, <2>2, SeqModAssumption
  <1> QED
    BY <1>2, <1>6 DEF MeansRestart

LEMMA StepAlarmInv ==
    ASSUME AlarmInv, Session, NoWrap, [Next]_vars
    PROVE  AlarmInv'
  <1>1. StreamInv /\ StreamInv' /\ TypeOK
    BY StepStreamInv DEF AlarmInv, StreamInv, ClientInv, SeqnumInv
  <1>2. ASSUME reboots' = 0
        PROVE  NoFalseAlarm'
    <2>1. reboots = 0 /\ NoFalseAlarm
      BY <1>1, <1>2, StepReboots DEF AlarmInv
    <2>2. ASSUME NEW k \in DOMAIN toClient', toClient'[k].type = "missed"
          PROVE  ~MeansRestart(toClient'[k].seqnum)
      <3>1. CASE \E i \in DOMAIN toClient : toClient'[k] = toClient[i]
        BY <2>1, <2>2, <3>1 DEF NoFalseAlarm
      <3>2. CASE NewReply(toClient'[k])
        <4>1. toClient'[k].seqnum = dev_expected /\ \E message : DeviceMissed(message)
          BY <2>2, <3>2 DEF NewReply, Reply
        <4> QED
          BY <1>1, <2>1, <4>1, MissedIsNotFirst
      <3> QED
        BY <1>1, <3>1, <3>2, RepliesAreNew
    <2>3. ~m_error'
      <3>1. CASE Receiver
        <4>1. CASE process_missed_request
          <5>1. /\ toClient # <<>> /\ Head(toClient).type = "missed"
                /\ m_error' = (m_error \/ MeansRestart(Head(toClient).seqnum))
            BY <4>1 DEF process_missed_request, Receives
          <5>2. Head(toClient) = toClient[1] /\ 1 \in DOMAIN toClient
            BY <1>1, <5>1, TailElements DEF TypeOK, LineTypeOK
          <5>3. ~m_error /\ ~MeansRestart(Head(toClient).seqnum)
            BY <2>1, <5>1, <5>2 DEF NoFalseAlarm
          <5> QED
            BY <5>1, <5>3, Zenon
        <4>2. CASE ~process_missed_request
          BY <2>1, <3>1, <4>2
             DEF Receiver, process_ack_request, process_ack_command,
                 process_command_finished, process_other, ReceiverNotifies, NoFalseAlarm
        <4> QED
          BY <4>1, <4>2
      <3>2. CASE UNCHANGED m_error
        BY <2>1, <3>2 DEF NoFalseAlarm
      <3>3. ASSUME NEW t \in Threads, Calls(t) \/ ThreadStep(t)
            PROVE  UNCHANGED m_error
        BY <3>3
           DEF Calls, CallIssue, CallWaitForAllRequests, CallStop, Cancel, Enter,
               ThreadStep, IssueThrows, IssueThrottled, IssueWaits, AwaitEnds, AwaitSleeps,
               WaitAllEnds, WaitAllSleeps, clear_all_active_commands, StopWakesEveryone,
               StopSends, StopCloses, IssueRequest, IssueCommand
      <3> QED
        BY <3>1, <3>2, <3>3, StepKinds
    <2> QED
      BY <2>2, <2>3 DEF NoFalseAlarm
  <1> QED
    BY <1>1, <1>2 DEF AlarmInv

(* "Serial connection has been interrupted" (process_missed_request) is    *)
(* said of no device that has kept its power, whatever the line loses, as  *)
(* long as the numbers have not come round.                                *)
THEOREM AlarmIsTrue ==
    ASSUME Session, NoWrap
    PROVE  Spec => []InterruptionMeansReboot
  <1>1. ASSUME Init
        PROVE  AlarmInv
    <2>1. m_error = FALSE /\ toClient = <<>>
      BY <1>1 DEF Init, ClientInit, LineInit
    <2> QED
      BY <1>1, <2>1, InitStreamInv DEF AlarmInv, NoFalseAlarm
  <1>2. AlarmInv /\ [Next]_vars => AlarmInv'
    BY StepAlarmInv
  <1>3. AlarmInv => InterruptionMeansReboot
    <2>1. AlarmInv => reboots \in Nat
      BY DEF AlarmInv, StreamInv, ClientInv, SeqnumInv, TypeOK, DeviceTypeOK
    <2> QED
      BY <2>1 DEF AlarmInv, NoFalseAlarm, InterruptionMeansReboot
  <1> QED
    BY <1>1, <1>2, <1>3, PTL DEF Spec

-----------------------------------------------------------------------------
(***************************************************************************)
(* What the device has not processed is pending (rule 7), as long as no    *)
(* stop or interrupt clears commands.                                      *)
(***************************************************************************)
Serving == m_state = "RUNNING" /\ ~m_error
Kept == Serving => \A e \in Expected..(m_send_seq - 1) : e \in LiveSeqnums

KeptInv == QueueInv /\ Kept

LEMMA ServingEnds ==
    ASSUME [Next]_vars, Serving'
    PROVE  Serving
  <1>1. CASE Receiver
    <2>1. UNCHANGED m_state
      BY <1>1, ReceiverKeepsControl
    <2>2. CASE process_missed_request
      BY <2>1, <2>2, Zenon DEF process_missed_request, Serving
    <2>3. CASE UNCHANGED m_error
      BY <2>1, <2>3 DEF Serving
    <2> QED
      BY <1>1, <2>2, <2>3
         DEF Receiver, process_ack_request, process_ack_command, process_command_finished,
             process_other, ReceiverNotifies
  <1>2. ASSUME NEW t \in Threads, Calls(t)
        PROVE  Serving
    BY <1>2 DEF Calls, CallIssue, CallWaitForAllRequests, CallStop, Cancel, Enter, Serving
  <1>3. ASSUME NEW t \in Threads, ThreadStep(t)
        PROVE  Serving
    BY <1>3
       DEF ThreadStep, IssueThrows, IssueThrottled, IssueWaits, AwaitEnds, AwaitSleeps,
           WaitAllEnds, WaitAllSleeps, clear_all_active_commands, StopWakesEveryone,
           StopSends, StopCloses, IssueRequest, IssueCommand, Serving
  <1> QED
    BY <1>1, <1>2, <1>3, StepKinds DEF Serving

LEMMA IssuedIsPending ==
    ASSUME TypeOK, [Next]_vars, m_send_seq' # m_send_seq
    PROVE  m_send_seq \in LiveSeqnums'
  <1>1. ASSUME NEW t \in Threads, IssueRequest(t) \/ IssueCommand(t)
        PROVE  m_send_seq \in LiveSeqnums'
    BY <1>1 DEF IssueRequest, IssueCommand, With, LiveSeqnums
  <1>2. ASSUME NEW t \in Threads, ThreadStep(t)
        PROVE  IssueRequest(t) \/ IssueCommand(t)
    BY <1>2
       DEF ThreadStep, IssueThrows, IssueThrottled, IssueWaits, AwaitEnds, AwaitSleeps,
           WaitAllEnds, WaitAllSleeps, clear_all_active_commands, StopWakesEveryone,
           StopSends, StopCloses
  <1> QED
    BY <1>1, <1>2, StepKinds, ReceiverKeepsControl
       DEF Calls, CallIssue, CallWaitForAllRequests, CallStop, Cancel, Enter

LEMMA StepKept ==
    ASSUME KeptInv, Session, MaxReboots = 0, Ops \cap ClearOps = {}, [Next]_vars
    PROVE  KeptInv'
  <1>1. QueueInv /\ QueueInv' /\ StreamInv /\ ClientInv /\ TypeOK /\ reboots = 0
    BY StepQueueInv DEF KeptInv, QueueInv, PoweredInv, StreamInv, ClientInv, SeqnumInv
  <1>2. /\ Expected' \in Nat /\ Expected \in Nat /\ Expected <= Expected'
        /\ m_send_seq \in Nat
    BY <1>1, ExpectedGrows DEF QueueInv, TypeOK, PendingTypeOK
  <1>3. ASSUME Serving', NEW e \in Nat, Expected' <= e, e < m_send_seq'
        PROVE  e \in LiveSeqnums'
    <2>1. Serving
      BY <1>3, ServingEnds
    <2>2. NothingIssued \/ OneIssued
      BY <1>1, StepIssues
    <2>3. CASE e = m_send_seq /\ OneIssued
      <3>1. m_send_seq' # m_send_seq
        BY <1>2, <2>3 DEF OneIssued
      <3> QED
        BY <1>1, <2>3, <3>1, IssuedIsPending
    <2>4. CASE e < m_send_seq
      <3>1. e \in LiveSeqnums /\ ~(e < Expected)
        BY <1>2, <1>3, <2>1, <2>4 DEF KeptInv, Kept
      <3>2. CASE e \in DOMAIN m_pending_requests
        <4>1. e \in DOMAIN m_pending_requests'
          BY <1>1, <2>1, <3>1, <3>2, RequestsLeave DEF Serving
        <4> QED
          BY <4>1 DEF LiveSeqnums
      <3>3. CASE e \in DOMAIN m_pending_commands
        <4>1. \A t \in Threads : ~(pc[t] = "clear" /\ op[t] \in ClearOps)
          BY <1>1 DEF ClientInv, CallsAllowed, ClearOps
        <4>2. e \in DOMAIN m_pending_commands'
          BY <1>1, <3>1, <3>3, <4>1, CommandsLeave
        <4> QED
          BY <4>2 DEF LiveSeqnums
      <3> QED
        BY <3>1, <3>2, <3>3 DEF LiveSeqnums
    <2>5. m_send_seq' = m_send_seq \/ (m_send_seq' = m_send_seq + 1 /\ OneIssued)
      BY <2>2 DEF NothingIssued, OneIssued
    <2> QED
      BY <1>2, <1>3, <2>3, <2>4, <2>5
  <1>4. m_send_seq' \in Nat
    BY <1>1 DEF QueueInv, PoweredInv, StreamInv, ClientInv, SeqnumInv, TypeOK, PendingTypeOK
  <1>5. Kept'
    <2> DEFINE E == Expected'
               m == m_send_seq'
    <2>1. E \in Nat /\ m \in Nat
      BY <1>2, <1>4
    <2>2. Serving' => \A e \in Nat : E <= e /\ e < m => e \in LiveSeqnums'
      BY <1>3
    <2> HIDE DEF E, m
    <2>3. Serving' => \A e \in E..(m - 1) : e \in LiveSeqnums'
      BY <2>1, <2>2
    <2> QED
      BY <2>3 DEF Kept, E, m
  <1> QED
    BY <1>1, <1>5 DEF KeptInv

LEMMA KeptStillComes ==
    ASSUME KeptInv, Session
    PROVE  ExpectedStillComes
  <1> SUFFICES ASSUME m_state = "RUNNING", ~m_error, ready
               PROVE  \/ dev_expected = Truncate(m_send_seq)
                      \/ \E s \in NotAcked(m_pending_requests)
                                    \cup NotAcked(m_pending_commands) :
                           Truncate(s) = dev_expected
    BY DEF ExpectedStillComes
  <1>1. StreamInv /\ StreamParts /\ ClientInv /\ TypeOK
    BY DEF KeptInv, QueueInv, PoweredInv, StreamInv, ClientInv, SeqnumInv
  <1>2. dev_expected = Truncate(Expected)
    <2>1. processed = <<>> => Len(processed) = 0
      OBVIOUS
    <2> QED
      BY <1>1, <2>1, SentType DEF StreamParts, ResetsFirst, ExpectsNext
  <1>3. Expected \in Nat /\ m_send_seq \in Nat /\ Expected <= m_send_seq
    <2>1. ~StopSent
      BY <1>1 DEF StopSent, ClientInv, OneStopper, StopPcs
    <2> QED
      BY <1>1, <2>1, SentType DEF Sent, StreamParts, InOrder
  <1>4. CASE Expected = m_send_seq
    BY <1>2, <1>4
  <1>5. CASE Expected < m_send_seq
    <2>1. Expected \in LiveSeqnums
      BY <1>3, <1>5 DEF KeptInv, Kept, Serving
    <2>2. /\ Expected \in DOMAIN m_pending_requests =>
               m_pending_requests[Expected].state = "NOT_ACKED"
          /\ Expected \in DOMAIN m_pending_commands =>
               m_pending_commands[Expected].state = "NOT_ACKED"
      BY <1>1, <1>3 DEF StreamParts, AcksProcessed, TypeOK, PendingTypeOK, PendingRequest,
                       PendingCommand, AckState
    <2>3. Expected \in NotAcked(m_pending_requests) \cup NotAcked(m_pending_commands)
      BY <2>1, <2>2 DEF NotAcked, LiveSeqnums
    <2> QED
      BY <1>2, <2>3
  <1> QED
    BY <1>3, <1>4, <1>5

(* Rule 7 of MessageProtocol.h: what the device waits for is pending and   *)
(* therefore sent again, until it comes: no ack, however late, takes it    *)
(* out of the maps (process_ack_request, process_ack_command,              *)
(* process_command_finished).  A stop or interrupt does take commands out, *)
(* acknowledged or not: of sessions without them.                          *)
THEOREM ExpectedIsPending ==
    ASSUME Session, MaxReboots = 0, Ops \cap ClearOps = {}
    PROVE  Spec => []ExpectedStillComes
  <1>1. ASSUME Init
        PROVE  KeptInv
    <2>1. QueueInv /\ m_send_seq = FirstSeq /\ Len(processed) = 0
      BY <1>1, InitQueueInv DEF Init, ClientInit, DeviceInit
    <2>2. Expected..(m_send_seq - 1) = {}
      BY <2>1, ClientAssumption DEF Expected
    <2> QED
      BY <2>1, <2>2 DEF KeptInv, Kept
  <1>2. KeptInv /\ [Next]_vars => KeptInv'
    BY StepKept
  <1>3. KeptInv => ExpectedStillComes
    BY KeptStillComes
  <1> QED
    BY <1>1, <1>2, <1>3, PTL DEF Spec

-----------------------------------------------------------------------------
(***************************************************************************)
(* The client's limit on pending commands and the device's queue.          *)
(*                                                                         *)
(* Of a command c that may still reach the device, Ahead(c) are the        *)
(* commands that can be in the queue when it does: those in the queue now  *)
(* and those that come before c, without a stop or an interrupt in         *)
(* between.  When c is issued they are all in m_pending_commands, so there *)
(* are fewer than MAX_PENDING_REQUESTS, and from then on they only get     *)
(* fewer.                                                                  *)
(***************************************************************************)
ClearTypes == {"stop", "interrupt"}

(* The stops and interrupts that the device has not processed.             *)
Clears ==
    {h \in DOMAIN m_pending_requests :
       Expected <= h /\ m_pending_requests[h].type \in ClearTypes}

OnLine(q) ==
    \E i \in DOMAIN toDevice : toDevice[i].type = "command" /\ toDevice[i].id = q
Coming(q) == Expected <= q /\ (q \in DOMAIN m_pending_commands \/ OnLine(q))

(* In the queue, and not to be replaced by the next command.               *)
InQueue(q) == q < Expected /\ ~dev_interrupt /\ Truncate(q) \in Range(dev_queue)

Active(q) == Coming(q) \/ InQueue(q)

Ahead(c) ==
    {q \in FirstSeq..(c - 1) :
       Active(q) /\ \A h \in Clears : ~(q < h /\ h < c)}

(* Messages on the line are of the type of their entries.                  *)
LineTyped ==
    /\ \A i \in DOMAIN toDevice : toDevice[i].type # "finish_ack" =>
         /\ toDevice[i].id < m_send_seq \/ (toDevice[i].type = "stop" /\ StopSent)
         /\ toDevice[i].id \in DOMAIN m_pending_requests =>
              toDevice[i].type = m_pending_requests[toDevice[i].id].type
    /\ \A s \in DOMAIN m_pending_requests :
         m_pending_requests[s].type \in ClearTypes => m_pending_requests[s].silent_remove
    /\ DOMAIN m_pending_requests \cap DOMAIN m_pending_commands = {}

(* A command that the client has forgotten will be cleared on the device.  *)
Erased ==
    \A q \in FirstSeq..(m_send_seq - 1) : Active(q) =>
        q \in DOMAIN m_pending_commands \/ \E h \in Clears : q < h

(* So will the commands that the client is about to forget.                *)
Clearing ==
    \A t \in Threads : pc[t] = "clear" =>
        \/ handle[t] \in Clears
        \/ /\ handle[t] < Expected
           /\ \A q \in FirstSeq..(m_send_seq - 1) : InQueue(q) => handle[t] < q

Limit ==
    \A c \in FirstSeq..(m_send_seq - 1) :
        Coming(c) => Cardinality(Ahead(c)) < MAX_PENDING_REQUESTS

LimitInv == QueueInv /\ LineTyped /\ Erased /\ Clearing /\ Limit

-----------------------------------------------------------------------------

(* What a step adds to the line to the device.                             *)
LEMMA LineSteps ==
    ASSUME ClientInv, ConnectedBeforeStop, [Next]_vars, NEW i \in DOMAIN toDevice'
    PROVE  \/ \E k \in DOMAIN toDevice : toDevice'[i] = toDevice[k]
           \/ Fresh(toDevice'[i])
  <1>1. toDevice \in Seq(DeviceMessage)
    BY DEF ClientInv, SeqnumInv, TypeOK, LineTypeOK
  <1>2. ASSUME UNCHANGED toDevice \/ (toDevice # <<>> /\ toDevice' = Tail(toDevice))
        PROVE  \E k \in DOMAIN toDevice : toDevice'[i] = toDevice[k]
    BY <1>1, <1>2, TailElements
  <1>3. CASE ClientNext
    BY <1>3, ClientWrites DEF LineGrows
  <1>4. CASE DeviceReceives
    <2>1. toDevice # <<>> /\ toDevice' = Tail(toDevice)
      BY <1>4 DEF DeviceReceives, DeviceAccepts, DeviceDrops, DeviceResets, DeviceAcksAgain,
                  DeviceMissed, DeviceFinishAcked, DeviceTakes
    <2> QED
      BY <1>2, <2>1
  <1>5. CASE DeviceFinishes
    BY <1>2, <1>5 DEF DeviceFinishes
  <1>6. CASE DeviceReboots
    BY <1>2, <1>6 DEF DeviceReboots, lineVars
  <1>7. CASE \E seqnum \in dev_finished : DeviceResendsFinish(seqnum)
    BY <1>2, <1>7 DEF DeviceResendsFinish
  <1>8. CASE LineNext \/ UNCHANGED vars
    <2>1. UNCHANGED toDevice \/ (toDevice # <<>> /\ toDevice' = Tail(toDevice))
      BY <1>8 DEF LineNext, LoseToDevice, LoseToClient, vars, lineVars
    <2> QED
      BY <1>2, <2>1
  <1> QED
    BY <1>3, <1>4, <1>5, <1>6, <1>7, <1>8 DEF Next, DeviceNext

(* A request keeps its type as long as it is pending.                      *)
LEMMA RequestsKeepType ==
    ASSUME TypeOK, [Next]_vars, NEW s \in DOMAIN m_pending_requests'
    PROVE  \/ /\ s \in DOMAIN m_pending_requests
              /\ m_pending_requests'[s].type = m_pending_requests[s].type
              /\ m_pending_requests'[s].silent_remove = m_pending_requests[s].silent_remove
           \/ /\ s = m_send_seq /\ m_state = "RUNNING" /\ m_send_seq' = m_send_seq + 1
              /\ m_pending_requests'[s].type \in ClearTypes =>
                   m_pending_requests'[s].silent_remove
  <1> DEFINE Same == /\ s \in DOMAIN m_pending_requests
                     /\ m_pending_requests'[s].type = m_pending_requests[s].type
                     /\ m_pending_requests'[s].silent_remove = m_pending_requests[s].silent_remove
  <1>1. ASSUME UNCHANGED m_pending_requests
        PROVE  Same
    BY <1>1
  <1>2. ASSUME Receiver
        PROVE  Same
    <2>1. CASE process_ack_request
      <3>1. PICK r : \/ UNCHANGED m_pending_requests
                     \/ m_pending_requests' = Without(m_pending_requests, r)
                     \/ m_pending_requests' = [m_pending_requests EXCEPT ![r].state = "ACKED"]
        BY <2>1 DEF process_ack_request, AckEntry
      <3>2. \A k \in DOMAIN m_pending_requests : m_pending_requests[k] \in PendingRequest
        BY DEF TypeOK, PendingTypeOK
      <3> QED
        BY <3>1, <3>2 DEF Without, Restrict, PendingRequest
    <2>2. CASE ~process_ack_request
      BY <1>1, <1>2, <2>2
         DEF Receiver, process_ack_command, process_command_finished,
             process_missed_request, process_other, ReceiverNotifies
    <2> QED
      BY <2>1, <2>2
  <1>3. ASSUME NEW t \in Threads, IssueRequest(t), s \notin DOMAIN m_pending_requests
        PROVE  /\ s = m_send_seq /\ m_state = "RUNNING" /\ m_send_seq' = m_send_seq + 1
               /\ m_pending_requests'[s].type \in ClearTypes =>
                    m_pending_requests'[s].silent_remove
    <2>1. /\ s = m_send_seq /\ m_state = "RUNNING" /\ m_send_seq' = m_send_seq + 1
          /\ m_pending_requests'[s].type = MessageType(op[t])
          /\ m_pending_requests'[s].silent_remove = SilentRemove(op[t])
      BY <1>3 DEF IssueRequest, IssueRefused, With
    <2>2. op[t] = "query" => MessageType(op[t]) = "request"
      BY DEF MessageType, RequestOps, CommandOps
    <2>3. op[t] = "connect" => MessageType(op[t]) = "reset"
      BY DEF MessageType, RequestOps, CommandOps
    <2> QED
      BY <2>1, <2>2, <2>3 DEF SilentRemove, ClearTypes
  <1>4. ASSUME NEW t \in Threads, IssueRequest(t), s \in DOMAIN m_pending_requests,
               s # m_send_seq
        PROVE  Same
    BY <1>4 DEF IssueRequest, With
  <1>5. ASSUME NEW t \in Threads, ThreadStep(t), ~IssueRequest(t)
        PROVE  Same
    <2>1. CASE AwaitEnds(t)
      BY <2>1 DEF AwaitEnds, Without, Restrict
    <2> QED
      BY <1>1, <1>5, <2>1
         DEF ThreadStep, IssueThrows, IssueThrottled, IssueWaits, AwaitSleeps, WaitAllEnds,
             WaitAllSleeps, StopWakesEveryone, StopSends, StopCloses, IssueCommand,
             clear_all_active_commands
  <1>6. ASSUME NEW t \in Threads, Calls(t)
        PROVE  Same
    <2>1. UNCHANGED m_pending_requests
      BY <1>6 DEF Calls, CallIssue, CallWaitForAllRequests, CallStop, Cancel, Enter
    <2> QED
      BY <1>1, <2>1
  <1>7. ASSUME NEW t \in Threads, IssueRequest(t), s = m_send_seq
        PROVE  /\ m_state = "RUNNING" /\ m_send_seq' = m_send_seq + 1
               /\ m_pending_requests'[s].type \in ClearTypes =>
                    m_pending_requests'[s].silent_remove
    <2>1. /\ m_state = "RUNNING" /\ m_send_seq' = m_send_seq + 1
          /\ m_pending_requests'[s].type = MessageType(op[t])
          /\ m_pending_requests'[s].silent_remove = SilentRemove(op[t])
      BY <1>7 DEF IssueRequest, IssueRefused, With
    <2>2. op[t] = "query" => MessageType(op[t]) = "request"
      BY DEF MessageType, RequestOps, CommandOps
    <2>3. op[t] = "connect" => MessageType(op[t]) = "reset"
      BY DEF MessageType, RequestOps, CommandOps
    <2> QED
      BY <2>1, <2>2, <2>3 DEF SilentRemove, ClearTypes
  <1> HIDE DEF Same
  <1>8. CASE \E t \in Threads : ThreadStep(t)
    <2>1. PICK t \in Threads : ThreadStep(t)
      BY <1>8
    <2>2. CASE IssueRequest(t)
      <3>1. CASE s \notin DOMAIN m_pending_requests
        BY <1>3, <2>2, <3>1
      <3>2. CASE s = m_send_seq
        BY <1>7, <2>2, <3>2
      <3>3. CASE s \in DOMAIN m_pending_requests /\ s # m_send_seq
        BY <1>4, <2>2, <3>3 DEF Same
      <3> QED
        BY <3>1, <3>2, <3>3
    <2>3. CASE ~IssueRequest(t)
      BY <1>5, <2>1, <2>3 DEF Same
    <2> QED
      BY <2>2, <2>3
  <1>9. CASE ~\E t \in Threads : ThreadStep(t)
    <2>1. Receiver \/ UNCHANGED m_pending_requests \/ \E t \in Threads : Calls(t)
      BY <1>9, StepKinds
    <2>2. Same
      <3>1. CASE Receiver
        BY <1>2, <3>1
      <3>2. CASE UNCHANGED m_pending_requests
        BY <1>1, <3>2
      <3>3. CASE \E t \in Threads : Calls(t)
        BY <1>6, <3>3
      <3> QED
        BY <2>1, <3>1, <3>2, <3>3
    <2> QED
      BY <2>2 DEF Same
  <1> QED
    BY <1>8, <1>9

(* The steps, by what they do to the numbers.                              *)
IssuesRequest ==
    /\ DOMAIN m_pending_requests' = DOMAIN m_pending_requests \cup {m_send_seq}
    /\ UNCHANGED m_pending_commands
IssuesCommand ==
    /\ DOMAIN m_pending_commands' = DOMAIN m_pending_commands \cup {m_send_seq}
    /\ UNCHANGED m_pending_requests
    /\ Cardinality(DOMAIN m_pending_commands) < MAX_PENDING_REQUESTS
Issues ==
    /\ m_send_seq' = m_send_seq + 1 /\ UNCHANGED deviceVars
    /\ ~StopSent /\ ~StopSent'
    /\ IssuesRequest \/ IssuesCommand

LEMMA IssueKinds ==
    ASSUME ClientInv, [Next]_vars
    PROVE  (NothingIssued /\ (StopSent => StopSent')) \/ Issues
  <1>1. /\ TypeOK /\ m_send_seq \in Nat
        /\ Cardinality(DOMAIN m_pending_commands) \in Nat /\ MAX_PENDING_REQUESTS \in Nat
    BY FS_CardinalityType, ClientAssumption
       DEF ClientInv, SeqnumInv, TypeOK, PendingTypeOK, PendingFinite
  <1>2. Sent' = Sent \/ Sent' = Sent + 1
    BY StepSent
  <1>3. ASSUME NothingIssued, StopSent
        PROVE  StopSent'
    <2>1. m_send_seq' = m_send_seq
      BY <1>3 DEF NothingIssued
    <2> QED
      BY <1>1, <1>2, <1>3, <2>1 DEF Sent
  <1>4. ASSUME NEW t \in Threads, IssueRequest(t) \/ IssueCommand(t), UNCHANGED deviceVars
        PROVE  Issues
    <2>1. ~StopSent /\ m_send_seq' = m_send_seq + 1
      BY <1>4 DEF IssueRequest, IssueCommand, IssueRefused, StopSent, ClientInv, OneStopper,
                  StopPcs
    <2>2. ~StopSent'
      BY <1>1, <1>2, <2>1 DEF Sent
    <2>3. IssuesRequest \/ IssuesCommand
      BY <1>1, <1>4
         DEF IssueRequest, IssueCommand, With, Throttled, IssuesRequest, IssuesCommand
    <2> QED
      BY <1>4, <2>1, <2>2, <2>3 DEF Issues
  <1>5. CASE \E t \in Threads :
               (IssueRequest(t) \/ IssueCommand(t)) /\ UNCHANGED deviceVars
    BY <1>4, <1>5
  <1>6. CASE ~\E t \in Threads :
               (IssueRequest(t) \/ IssueCommand(t)) /\ UNCHANGED deviceVars
    <2>1. m_send_seq' = m_send_seq
      <3>1. ASSUME NEW t \in Threads, ThreadStep(t), UNCHANGED deviceVars
            PROVE  m_send_seq' = m_send_seq
        BY <1>6, <3>1
           DEF ThreadStep, IssueThrows, IssueThrottled, IssueWaits, AwaitEnds, AwaitSleeps,
               WaitAllEnds, WaitAllSleeps, clear_all_active_commands, StopWakesEveryone,
               StopSends, StopCloses
      <3>2. ASSUME NEW t \in Threads, Calls(t)
            PROVE  m_send_seq' = m_send_seq
        BY <3>2 DEF Calls, CallIssue, CallWaitForAllRequests, CallStop, Cancel, Enter
      <3> QED
        BY <3>1, <3>2, StepKinds, ReceiverKeepsControl
    <2>2. NothingIssued
      BY <1>1, <2>1, StepIssues DEF OneIssued
    <2> QED
      BY <1>3, <2>2
  <1> QED
    BY <1>5, <1>6

(* What comes first on the line when the device processes a message.       *)
ProcessesHead ==
    /\ Expected' = Expected + 1 /\ UNCHANGED clientVars
    /\ 1 \in DOMAIN toDevice /\ toDevice[1].id = Expected
    /\ toDevice[1].type # "finish_ack"
    /\ DeviceAccepts(toDevice[1]) \/ DeviceResets(toDevice[1])

LEMMA StepProcesses ==
    ASSUME PoweredInv, Session, MaxReboots = 0, [Next]_vars, Expected' # Expected
    PROVE  ProcessesHead
  <1>1. /\ StreamInv /\ reboots = 0 /\ reboots' = 0 /\ Len(processed) \in Nat
        /\ Expected \in Nat /\ FirstSeq \in Nat
    BY StepPoweredInv, SentType DEF PoweredInv, StreamInv
  <1>2. processed' = Append(processed, Expected) /\ UNCHANGED clientVars
    <2>1. ~UNCHANGED processed
      BY DEF Expected
    <2> QED
      BY <1>1, <2>1, StepStream DEF Processes
  <1>3. processed' # processed
    BY <1>1, <1>2, AppendInOrder
  <1>4. \E message : DeviceAccepts(message) \/ DeviceResets(message)
    <2>1. UNCHANGED deviceVars => processed' = processed
      BY DEF deviceVars
    <2>2. DeviceFinishes => processed' = processed
      BY DEF DeviceFinishes
    <2>3. \A seqnum : DeviceResendsFinish(seqnum) => processed' = processed
      BY DEF DeviceResendsFinish, deviceVars
    <2>4. ASSUME NEW message, \/ DeviceDrops(message) \/ DeviceAcksAgain(message)
                             \/ DeviceMissed(message) \/ DeviceFinishAcked(message)
          PROVE  processed' = processed
      BY <2>4 DEF DeviceDrops, DeviceAcksAgain, DeviceMissed, DeviceFinishAcked
    <2>5. ~DeviceReboots
      BY <1>1 DEF DeviceReboots
    <2>6. UNCHANGED vars => processed' = processed
      BY DEF vars, deviceVars
    <2>7. DeviceReceives => \/ processed' = processed
                            \/ \E message : DeviceAccepts(message) \/ DeviceResets(message)
      BY <2>4 DEF DeviceReceives
    <2>8. DeviceNext => \/ processed' = processed
                        \/ \E message : DeviceAccepts(message) \/ DeviceResets(message)
      BY <2>2, <2>3, <2>5, <2>7 DEF DeviceNext
    <2>9. (UNCHANGED <<clientVars, deviceVars>>) => UNCHANGED deviceVars
      OBVIOUS
    <2> QED
      BY <1>3, <2>1, <2>6, <2>8, <2>9, Zenon DEF Next
  <1>5. PICK message : DeviceAccepts(message) \/ DeviceResets(message)
    BY <1>4
  <1>6. DeviceTakes(message) /\ message.type # "finish_ack"
    BY <1>5 DEF DeviceAccepts, DeviceResets
  <1>7. message = toDevice[1] /\ 1 \in DOMAIN toDevice
    BY <1>1, <1>6, HeadOfLine
  <1>8. message.id = Expected
    <2>1. CASE DeviceAccepts(message)
      BY <1>1, <1>2, <2>1, AcceptKeepsStream
    <2>2. CASE DeviceResets(message)
      <3>1. processed' = Append(processed, message.id)
        BY <1>3, <2>2 DEF DeviceResets
      <3>2. /\ processed \in Seq(Nat) /\ message.id \in Nat
        BY <1>1, <1>6, HeadOfLine
           DEF StreamInv, ClientInv, SeqnumInv, TypeOK, DeviceTypeOK, DeviceMessage
      <3>3. /\ Append(processed, message.id)[Len(processed) + 1] = message.id
            /\ Append(processed, Expected)[Len(processed) + 1] = Expected
        BY <1>1, <3>2, AppendProperties
      <3> QED
        BY <1>2, <3>1, <3>3
    <2> QED
      BY <1>5, <2>1, <2>2
  <1>9. Expected' = Expected + 1
    BY <1>1, <1>2, AppendInOrder
  <1> QED
    BY <1>2, <1>5, <1>6, <1>7, <1>8, <1>9 DEF ProcessesHead

(* Messages on the line keep their types.                                  *)
LEMMA StepLineTyped ==
    ASSUME ClientInv, ConnectedBeforeStop, LineTyped, ClientInv', [Next]_vars
    PROVE  LineTyped'
  <1>1. /\ TypeOK /\ m_send_seq \in Nat /\ IssuedBelowNext' /\ m_send_seq' \in Nat
        /\ toDevice \in Seq(DeviceMessage)
    BY DEF ClientInv, SeqnumInv, TypeOK, PendingTypeOK, LineTypeOK
  <1>2. /\ m_send_seq <= m_send_seq'
        /\ DOMAIN m_pending_requests' \cap DOMAIN m_pending_commands' = {}
        /\ m_send_seq \in DOMAIN m_pending_requests' => ~StopSent /\ ~StopSent'
        /\ StopSent => StopSent'
    <2>1. /\ \A s \in LiveSeqnums : s # m_send_seq
          /\ DOMAIN m_pending_requests \cap DOMAIN m_pending_commands = {}
      BY <1>1 DEF ClientInv, SeqnumInv, IssuedBelowNext, LineTyped, TypeOK, PendingTypeOK,
                  LiveSeqnums
    <2>2. CASE NothingIssued /\ (StopSent => StopSent')
      BY <1>1, <2>1, <2>2 DEF NothingIssued, LiveSeqnums
    <2>3. CASE Issues
      BY <1>1, <2>1, <2>3 DEF Issues, IssuesRequest, IssuesCommand, LiveSeqnums
    <2> QED
      BY <2>2, <2>3, IssueKinds
  <1>3. ASSUME NEW i \in DOMAIN toDevice', toDevice'[i].type # "finish_ack"
        PROVE  /\ \/ toDevice'[i].id < m_send_seq'
                  \/ toDevice'[i].type = "stop" /\ StopSent'
               /\ toDevice'[i].id \in DOMAIN m_pending_requests' =>
                    toDevice'[i].type = m_pending_requests'[toDevice'[i].id].type
    <2>1. PICK message : message = toDevice'[i]
      OBVIOUS
    <2>2. CASE \E k \in DOMAIN toDevice : message = toDevice[k]
      <3>1. /\ message.id < m_send_seq \/ (message.type = "stop" /\ StopSent)
            /\ message.id \in DOMAIN m_pending_requests =>
                 message.type = m_pending_requests[message.id].type
            /\ message.id \in Nat
        <4>1. PICK k \in DOMAIN toDevice : message = toDevice[k]
          BY <2>2
        <4>2. message \in DeviceMessage
          BY <1>1, <4>1
        <4> QED
          BY <1>3, <2>1, <4>1, <4>2 DEF LineTyped, DeviceMessage
      <3>2. ASSUME message.id \in DOMAIN m_pending_requests'
            PROVE  message.type = m_pending_requests'[message.id].type
        <4>1. message.id # m_send_seq
          BY <1>1, <1>2, <3>1, <3>2 DEF ClientInv
        <4> QED
          BY <1>1, <3>1, <3>2, <4>1, RequestsKeepType
      <3> QED
        BY <1>1, <1>2, <2>1, <3>1, <3>2
    <2>3. CASE Fresh(message)
      <3>1. OfPending(message)
        BY <1>3, <2>1, <2>3 DEF Fresh
      <3>2. CASE /\ message.id \in DOMAIN m_pending_requests'
                 /\ message.type = m_pending_requests'[message.id].type
        BY <1>1, <2>1, <3>2 DEF IssuedBelowNext, LiveSeqnums
      <3>3. CASE message.id \in DOMAIN m_pending_commands'
        BY <1>1, <1>2, <2>1, <3>3 DEF IssuedBelowNext, LiveSeqnums
      <3>4. CASE message.id = m_send_seq /\ message.type = "stop" /\ StopSent'
        BY <1>2, <2>1, <3>4
      <3> QED
        BY <3>1, <3>2, <3>3, <3>4 DEF OfPending
    <2> QED
      BY <2>1, <2>2, <2>3, LineSteps
  <1>4. \A s \in DOMAIN m_pending_requests' :
          m_pending_requests'[s].type \in ClearTypes => m_pending_requests'[s].silent_remove
    BY <1>1, RequestsKeepType DEF LineTyped
  <1> QED
    BY <1>2, <1>3, <1>4 DEF LineTyped

(* Only what is issued begins to come.                                     *)
LEMMA ComingOnly ==
    ASSUME QueueInv, Session, MaxReboots = 0, LineTyped, [Next]_vars,
           NEW q \in Nat, Coming(q)'
    PROVE  /\ q # m_send_seq => Coming(q)
           /\ q = m_send_seq => q \in DOMAIN m_pending_commands'
  <1>1. /\ ClientInv /\ ClientInv' /\ ConnectedBeforeStop /\ m_send_seq \in Nat
        /\ Expected \in Nat /\ Expected' \in Nat /\ Expected <= Expected'
        /\ toDevice \in Seq(DeviceMessage)
    BY StepQueueInv, ExpectedGrows
       DEF QueueInv, PoweredInv, StreamInv, Session, ClientInv, SeqnumInv, TypeOK,
           PendingTypeOK, LineTypeOK
  <1>2. Expected <= q
    <2> DEFINE E == Expected'
    <2>1. E <= q
      BY DEF Coming
    <2> QED
      BY <1>1, <2>1
  <1>3. CASE q \in DOMAIN m_pending_commands'
    <2>1. q = m_send_seq \/ q \in DOMAIN m_pending_commands
      BY <1>1, <1>3, IssueKinds DEF NothingIssued, Issues, IssuesRequest, IssuesCommand
    <2> QED
      BY <1>2, <1>3, <2>1 DEF Coming
  <1>4. CASE OnLine(q)' /\ q \notin DOMAIN m_pending_commands'
    <2>1. PICK i \in DOMAIN toDevice' : toDevice'[i].type = "command" /\ toDevice'[i].id = q
      BY <1>4 DEF OnLine
    <2>2. ~Fresh(toDevice'[i])
      <3>1. \A s \in DOMAIN m_pending_requests' : m_pending_requests'[s].type # "command"
        BY <1>1 DEF ClientInv, SeqnumInv, TypeOK, PendingTypeOK, PendingRequest, RequestTypes
      <3> QED
        BY <1>4, <2>1, <3>1 DEF Fresh, OfPending
    <2>3. PICK k \in DOMAIN toDevice : toDevice'[i] = toDevice[k]
      BY <1>1, <2>2, LineSteps
    <2>4. OnLine(q) /\ q < m_send_seq
      BY <2>1, <2>3 DEF OnLine, LineTyped
    <2> QED
      BY <1>1, <1>2, <2>4 DEF Coming
  <1> QED
    BY <1>3, <1>4 DEF Coming

(* The number that is expected has not been accepted before.               *)
LEMMA ExpectedIsNew ==
    ASSUME StreamInv, Session, reboots = 0, Expected < Sent
    PROVE  /\ ~Accepted(Truncate(Expected))
           /\ \A q \in FirstSeq..Expected : Truncate(q) = Truncate(Expected) => q = Expected
  <1>1. /\ ClientInv /\ ShortSession /\ Expected \in FirstSeq..Sent
        /\ FirstSeq \in Nat /\ Expected \in Nat /\ Sent \in Nat
        /\ Len(processed) \in Nat
    BY SentType DEF StreamInv, Session, Expected
  <1>2. \A q \in FirstSeq..Expected : Truncate(q) = Truncate(Expected) => q = Expected
    BY <1>1, SessionResolves
  <1> QED
    BY <1>1, <1>2 DEF Accepted

(* The queue grows by accepted commands only.                              *)
LEMMA QueueShrinks ==
    ASSUME TypeOK, [Next]_vars, reboots' = reboots, reboots = 0
    PROVE  \/ Range(dev_queue') \subseteq Range(dev_queue) /\ UNCHANGED dev_interrupt
           \/ (\E message : DeviceAccepts(message)) /\ UNCHANGED clientVars
  <1>1. CASE UNCHANGED deviceVars
    BY <1>1 DEF deviceVars
  <1>2. CASE DeviceReceives /\ UNCHANGED clientVars
    <2>1. ASSUME NEW message,
                 \/ DeviceDrops(message) \/ DeviceResets(message)
                 \/ DeviceAcksAgain(message) \/ DeviceMissed(message)
                 \/ DeviceFinishAcked(message)
          PROVE  UNCHANGED <<dev_queue, dev_interrupt>>
      BY <2>1 DEF DeviceDrops, DeviceResets, DeviceAcksAgain, DeviceMissed, DeviceFinishAcked
    <2> QED
      BY <1>2, <2>1 DEF DeviceReceives
  <1>3. ASSUME NEW seqnum \in dev_finished, DeviceResendsFinish(seqnum)
        PROVE  UNCHANGED deviceVars
    BY <1>3 DEF DeviceResendsFinish
  <1>4. CASE DeviceFinishes
    <2>1. /\ dev_queue # <<>> /\ dev_queue' = Tail(dev_queue) /\ UNCHANGED dev_interrupt
          /\ dev_queue \in Seq(Nat)
      BY <1>4 DEF DeviceFinishes, TypeOK, DeviceTypeOK
    <2>2. \A i \in DOMAIN dev_queue' :
            i + 1 \in DOMAIN dev_queue /\ dev_queue'[i] = dev_queue[i + 1]
      BY <2>1, TailElements
    <2> QED
      BY <2>1, <2>2 DEF Range
  <1>5. ~DeviceReboots
    BY DEF DeviceReboots
  <1>6. UNCHANGED vars => UNCHANGED deviceVars
    BY DEF vars
  <1> QED
    BY <1>1, <1>2, <1>3, <1>4, <1>5, <1>6 DEF Next, DeviceNext

(* Only a command that comes gets into the queue.                          *)
LEMMA InQueueOnly ==
    ASSUME QueueInv, Session, MaxReboots = 0, [Next]_vars,
           NEW q \in Nat, FirstSeq <= q, InQueue(q)'
    PROVE  \/ InQueue(q)
           \/ q = Expected /\ Coming(q) /\ UNCHANGED clientVars
  <1>1. /\ StreamInv /\ reboots = 0 /\ reboots' = 0 /\ TypeOK /\ QueueParts
        /\ FirstSeq \in Nat /\ Expected \in Nat /\ Expected' \in Nat
        /\ Expected' = Expected \/ Expected' = Expected + 1
        /\ dev_queue \in Seq(Nat)
    BY StepQueueInv, ExpectedGrows
       DEF QueueInv, PoweredInv, StreamInv, ClientInv, SeqnumInv, TypeOK, DeviceTypeOK
  <1>2. q < Expected \/ (q = Expected /\ ProcessesHead /\ Expected < Sent)
    <2> DEFINE E == Expected'
    <2>1. q < E /\ (E = Expected \/ E = Expected + 1)
      BY <1>1 DEF InQueue
    <2>2. E # Expected => ProcessesHead
      BY StepProcesses DEF QueueInv
    <2>3. E # Expected => Expected < Sent
      <3>1. E # Expected => processed' # processed
        BY DEF Expected
      <3> QED
        BY <1>1, <3>1, StepStream DEF Processes
    <2> HIDE DEF E
    <2> QED
      BY <1>1, <2>1, <2>2, <2>3
  <1>3. CASE Range(dev_queue') \subseteq Range(dev_queue) /\ UNCHANGED dev_interrupt
    <2>1. ~dev_interrupt /\ Truncate(q) \in Range(dev_queue)
      BY <1>3 DEF InQueue
    <2>2. Accepted(Truncate(q))
      BY <1>1, <2>1 DEF QueueParts
    <2>3. q < Expected
      BY <1>1, <1>2, <2>2, ExpectedIsNew
    <2> QED
      BY <2>1, <2>3 DEF InQueue
  <1>4. ASSUME NEW message, DeviceAccepts(message), UNCHANGED clientVars
        PROVE  InQueue(q) \/ (q = Expected /\ Coming(q))
    <2>1. message.id = Expected /\ Expected < Sent
      BY <1>1, <1>4, AcceptKeepsStream
    <2>2. DeviceTakes(message) /\ message.type \notin {"reset", "finish_ack"}
      BY <1>4 DEF DeviceAccepts
    <2>3. /\ message.seqnum = Truncate(Expected) /\ message = toDevice[1]
          /\ 1 \in DOMAIN toDevice /\ message \in DeviceMessage
      BY <1>1, <2>1, <2>2, HeadOfLine
    <2>4. ASSUME Truncate(q) \in Range(dev_queue), ~dev_interrupt
          PROVE  InQueue(q)
      <3>1. Accepted(Truncate(q))
        BY <1>1, <2>4 DEF QueueParts
      <3>2. q < Expected
        BY <1>1, <1>2, <2>1, <3>1, ExpectedIsNew
      <3> QED
        BY <2>4, <3>2 DEF InQueue
    <2>5. message.type \in {"command", "request", "stop", "interrupt"}
      BY <2>2, <2>3 DEF DeviceMessage, RequestTypes
    <2>6. Truncate(q) \in Range(dev_queue') /\ ~dev_interrupt'
      BY DEF InQueue
    <2>7. CASE message.type = "command"
      <3>1. \/ dev_queue' = <<message.seqnum>>
            \/ ~dev_interrupt /\ dev_queue' = Append(dev_queue, message.seqnum)
        <4>1. CASE dev_interrupt
          BY <1>4, <2>7, <4>1 DEF DeviceAccepts
        <4>2. CASE ~dev_interrupt
          BY <1>4, <2>7, <4>2 DEF DeviceAccepts
        <4> QED
          BY <4>1, <4>2
      <3>2. message.seqnum \in Nat
        BY <2>3 DEF DeviceMessage
      <3>3. \/ Truncate(q) = message.seqnum
            \/ ~dev_interrupt /\ Truncate(q) \in Range(dev_queue)
        <4>1. CASE dev_queue' = <<message.seqnum>>
          BY <2>6, <4>1 DEF Range
        <4>2. CASE ~dev_interrupt /\ dev_queue' = Append(dev_queue, message.seqnum)
          <5> DEFINE n == Len(dev_queue)
                     a == Append(dev_queue, message.seqnum)
          <5>1. /\ n \in Nat /\ DOMAIN dev_queue = 1..n /\ DOMAIN a = 1..(n + 1)
                /\ \A i \in 1..n : a[i] = dev_queue[i]
                /\ a[n + 1] = message.seqnum
            BY <1>1, <3>2, AppendProperties, LenProperties
          <5>2. Truncate(q) \in Range(a)
            BY <2>6, <4>2
          <5> HIDE DEF n, a
          <5>3. PICK i \in 1..(n + 1) : a[i] = Truncate(q)
            BY <5>1, <5>2 DEF Range
          <5>4. CASE i = n + 1
            BY <5>1, <5>3, <5>4
          <5>5. CASE i # n + 1
            <6>1. i \in 1..n
              BY <5>1, <5>5
            <6> QED
              BY <4>2, <5>1, <5>3, <6>1 DEF Range
          <5> QED
            BY <5>4, <5>5
        <4> QED
          BY <3>1, <4>1, <4>2
      <3>4. CASE Truncate(q) = message.seqnum
        <4>1. q \in FirstSeq..Expected
          BY <1>1, <1>2
        <4>2. q = Expected
          BY <1>1, <2>1, <2>3, <3>4, <4>1, ExpectedIsNew
        <4>3. OnLine(q)
          BY <2>1, <2>3, <2>7, <4>2 DEF OnLine
        <4> QED
          BY <1>1, <4>2, <4>3 DEF Coming
      <3> QED
        BY <2>4, <3>3, <3>4
    <2>8. CASE message.type = "stop"
      <3>1. dev_queue' = <<>>
        BY <1>4, <2>8 DEF DeviceAccepts
      <3> QED
        BY <2>6, <3>1 DEF Range
    <2>9. CASE message.type = "interrupt"
      <3>1. dev_interrupt'
        BY <1>4, <2>9 DEF DeviceAccepts
      <3> QED
        BY <2>6, <3>1
    <2>10. CASE message.type = "request"
      <3>1. dev_queue' = dev_queue /\ dev_interrupt' = dev_interrupt
        BY <1>4, <2>10 DEF DeviceAccepts
      <3> QED
        BY <2>4, <2>6, <3>1
    <2> QED
      BY <2>5, <2>7, <2>8, <2>9, <2>10
  <1> QED
    BY <1>1, <1>3, <1>4, QueueShrinks

(* A stop or interrupt leaves when the device processes it, and takes what *)
(* is in the queue along.                                                  *)
LEMMA ClearsLeave ==
    ASSUME QueueInv, Session, MaxReboots = 0, LineTyped, [Next]_vars,
           NEW h \in Clears, h \notin Clears'
    PROVE  /\ h = Expected /\ Expected' = Expected + 1 /\ UNCHANGED clientVars
           /\ \A q : ~InQueue(q)'
  <1>1. /\ StreamInv /\ reboots = 0 /\ TypeOK /\ ClientInv /\ Expected \in Nat
        /\ Expected' = Expected \/ Expected' = Expected + 1
        /\ h \in Nat /\ Expected <= h /\ h \in DOMAIN m_pending_requests
        /\ m_pending_requests[h].type \in ClearTypes /\ h # m_send_seq
    BY StepQueueInv, ExpectedGrows
       DEF QueueInv, PoweredInv, StreamInv, ClientInv, SeqnumInv, TypeOK, PendingTypeOK, Clears,
           IssuedBelowNext, LiveSeqnums
  <1>2. h \in DOMAIN m_pending_requests'
    BY <1>1, RequestsLeave DEF LineTyped
  <1>3. m_pending_requests'[h].type \in ClearTypes
    BY <1>1, <1>2, RequestsKeepType
  <1>4. ~(Expected' <= h)
    BY <1>2, <1>3 DEF Clears
  <1>5. Expected' = Expected + 1 /\ h = Expected
    <2> DEFINE E == Expected'
    <2>1. (E = Expected \/ E = Expected + 1) /\ ~(E <= h)
      BY <1>1, <1>4
    <2> HIDE DEF E
    <2>2. E = Expected + 1 /\ h = Expected
      BY <1>1, <2>1
    <2> QED
      BY <2>2 DEF E
  <1>6. ProcessesHead
    BY <1>1, <1>5, StepProcesses DEF QueueInv
  <1>7. toDevice[1].type \in ClearTypes
    BY <1>1, <1>5, <1>6 DEF ProcessesHead, LineTyped
  <1>8. DeviceAccepts(toDevice[1])
    BY <1>6, <1>7 DEF ProcessesHead, DeviceResets, ClearTypes
  <1>9. dev_queue' = <<>> \/ dev_interrupt'
    <2>1. CASE toDevice[1].type = "stop"
      BY <1>8, <2>1 DEF DeviceAccepts
    <2>2. CASE toDevice[1].type = "interrupt"
      BY <1>8, <2>2 DEF DeviceAccepts
    <2> QED
      BY <1>7, <2>1, <2>2 DEF ClearTypes
  <1>10. \A q : ~InQueue(q)'
    BY <1>9 DEF InQueue, Range
  <1> QED
    BY <1>5, <1>6, <1>10 DEF ProcessesHead

(* What comes or is queued after a step came or was queued before it,      *)
(* unless it has just been issued.                                         *)
LEMMA ActiveOnly ==
    ASSUME QueueInv, Session, MaxReboots = 0, LineTyped, [Next]_vars,
           NEW q \in Nat, FirstSeq <= q, q < m_send_seq, Active(q)'
    PROVE  Active(q)
  <1>1. CASE Coming(q)'
    <2>1. m_send_seq \in Nat
      BY DEF QueueInv, PoweredInv, StreamInv, ClientInv, SeqnumInv, TypeOK, PendingTypeOK
    <2> QED
      BY <1>1, <2>1, ComingOnly DEF Active
  <1>2. CASE InQueue(q)'
    BY <1>2, InQueueOnly DEF Active
  <1> QED
    BY <1>1, <1>2 DEF Active

(* What is issued is neither processed yet nor on the line before.         *)
LEMMA JustIssued ==
    ASSUME QueueInv, Session, MaxReboots = 0, LineTyped, [Next]_vars, Issues,
           NEW q, q = m_send_seq
    PROVE  /\ Expected' = Expected /\ Expected <= q /\ q \in Nat /\ FirstSeq <= q
           /\ ~UNCHANGED clientVars
           /\ ~InQueue(q)'
           /\ Coming(q)' => q \in DOMAIN m_pending_commands'
  <1>1. /\ StreamParts /\ Expected \in Nat /\ Sent = m_send_seq /\ m_send_seq \in Nat
        /\ FirstSeq <= m_send_seq
    BY SentType DEF QueueInv, PoweredInv, StreamInv, Issues, Sent
  <1>2. Expected' = Expected
    BY DEF Issues, deviceVars, Expected
  <1>3. Expected <= m_send_seq
    BY <1>1 DEF StreamParts, InOrder
  <1>4. ~InQueue(q)'
    <2>1. ~(q < Expected')
      BY <1>1, <1>2, <1>3
    <2> QED
      BY <2>1 DEF InQueue
  <1>5. ~UNCHANGED clientVars
    BY <1>1 DEF Issues, clientVars
  <1> QED
    BY <1>1, <1>2, <1>3, <1>4, <1>5, ComingOnly

(* A command that the client forgets is cleared on the device.             *)
LEMMA StepErased ==
    ASSUME LimitInv, Session, MaxReboots = 0, [Next]_vars,
           NEW q \in Nat, FirstSeq <= q, q < m_send_seq', Active(q)'
    PROVE  q \in DOMAIN m_pending_commands' \/ \E h \in Clears' : q < h
  <1>1. /\ QueueInv /\ LineTyped /\ ClientInv /\ TypeOK /\ m_send_seq \in Nat
        /\ Expected \in Nat /\ Expected' \in Nat
        /\ Expected' = Expected \/ Expected' = Expected + 1
    BY ExpectedGrows
       DEF LimitInv, QueueInv, PoweredInv, StreamInv, ClientInv, SeqnumInv, TypeOK, PendingTypeOK
  <1>2. CASE q = m_send_seq
    <2>1. Issues
      <3>1. ~NothingIssued
        BY <1>2 DEF NothingIssued
      <3> QED
        BY <1>1, <3>1, IssueKinds
    <2> QED
      BY <1>1, <1>2, <2>1, JustIssued DEF Active
  <1>3. CASE q < m_send_seq
    <2>1. Active(q)
      BY <1>1, <1>3, ActiveOnly
    <2>2. ASSUME NEW h \in Clears, q < h
          PROVE  h \in Clears'
      <3> SUFFICES ASSUME h \notin Clears' PROVE FALSE
        OBVIOUS
      <3>1. h = Expected /\ Expected' = Expected + 1 /\ ~InQueue(q)'
        BY <1>1, ClearsLeave
      <3>2. ~Coming(q)'
        <4> DEFINE E == Expected'
        <4>1. ~(E <= q)
          BY <1>1, <2>2, <3>1
        <4> QED
          BY <4>1 DEF Coming
      <3> QED
        BY <3>1, <3>2 DEF Active
    <2>3. CASE q \in DOMAIN m_pending_commands /\ q \notin DOMAIN m_pending_commands'
      <3>1. ~UNCHANGED clientVars
        BY <2>3 DEF clientVars
      <3>2. ~(q < Expected /\ Truncate(q) \notin Range(dev_queue))
        BY <1>1, <2>1 DEF Active, Coming, InQueue
      <3>3. PICK t \in Threads : pc[t] = "clear" /\ handle[t] > q
        BY <1>1, <2>3, <3>2, CommandsLeave DEF Session
      <3>4. handle[t] \in Nat
        BY <1>1 DEF TypeOK, ControlTypeOK
      <3>5. handle[t] \in Clears
        <4>1. q \in FirstSeq..(m_send_seq - 1)
          BY <1>1, <1>3, ClientAssumption
        <4>2. ~(handle[t] < Expected /\ (InQueue(q) => handle[t] < q))
          BY <1>1, <2>1, <3>3, <3>4 DEF Active, Coming
        <4> QED
          BY <3>3, <4>1, <4>2 DEF LimitInv, Clearing
      <3>6. handle[t] \in Clears'
        BY <1>1, <3>1, <3>5, ClearsLeave
      <3> QED
        BY <3>3, <3>4, <3>6
    <2>4. CASE \E h \in Clears : q < h
      BY <2>2, <2>4
    <2>5. q \in DOMAIN m_pending_commands \/ \E h \in Clears : q < h
      <3>1. q \in FirstSeq..(m_send_seq - 1)
        BY <1>1, <1>3, ClientAssumption
      <3> QED
        BY <2>1, <3>1 DEF LimitInv, Erased, Active
    <2> QED
      BY <2>3, <2>4, <2>5
  <1>4. q <= m_send_seq
    BY <1>1, IssueKinds DEF NothingIssued, Issues
  <1> QED
    BY <1>1, <1>2, <1>3, <1>4

LEMMA ClearBegins ==
    ASSUME TypeOK, [Next]_vars, NEW t \in Threads, pc'[t] = "clear"
    PROVE  \/ pc[t] = "clear" /\ handle'[t] = handle[t]
           \/ IssueRequest(t) /\ op[t] \in ClearOps /\ handle'[t] = m_send_seq
  <1> USE DEF TypeOK, ControlTypeOK
  <1> DEFINE Goal == \/ pc[t] = "clear" /\ handle'[t] = handle[t]
                     \/ IssueRequest(t) /\ op[t] \in ClearOps /\ handle'[t] = m_send_seq
  <1>1. ASSUME NEW u \in Threads, Calls(u)
        PROVE  pc[t] = "clear" /\ handle'[t] = handle[t]
    BY <1>1 DEF Calls, CallIssue, CallWaitForAllRequests, CallStop, Cancel, Enter
  <1>2. ASSUME NEW u \in Threads, ThreadStep(u)
        PROVE  Goal
    <2>1. CASE IssueRequest(u)
      <3>1. CASE op[u] \in ClearOps
        <4>1. ~(~SilentRemove(op[u]))
          BY <3>1 DEF ClearOps, SilentRemove
        <4>2. /\ pc' = [pc EXCEPT ![u] = "clear"]
              /\ handle' = [handle EXCEPT ![u] = m_send_seq]
          BY <2>1, <3>1, <4>1 DEF IssueRequest, AfterIssue
        <4>3. CASE u = t
          BY <2>1, <3>1, <4>2, <4>3
        <4>4. CASE u # t
          BY <4>2, <4>4
        <4> QED
          BY <4>3, <4>4
      <3>2. CASE op[u] \notin ClearOps
        BY <2>1, <3>2 DEF IssueRequest, AfterIssue, Return
      <3> QED
        BY <3>1, <3>2
    <2>2. CASE IssueCommand(u)
      <3>1. Return(u)
        BY <2>2 DEF IssueCommand, AfterIssue, CommandOps, ClearOps, SilentRemove
      <3> QED
        BY <3>1 DEF Return
    <2> QED
      BY <1>2, <2>1, <2>2
         DEF ThreadStep, IssueThrows, IssueThrottled, IssueWaits, AwaitEnds, AwaitSleeps,
             WaitAllEnds, WaitAllSleeps, clear_all_active_commands, StopWakesEveryone,
             StopSends, StopCloses, Return, Goto
  <1>3. CASE UNCHANGED <<pc, handle>>
    BY <1>3
  <1> HIDE DEF Goal
  <1>4. Goal
    <2>1. CASE \E u \in Threads : Calls(u)
      BY <1>1, <2>1 DEF Goal
    <2>2. CASE \E u \in Threads : ThreadStep(u)
      BY <1>2, <2>2
    <2>3. CASE UNCHANGED <<pc, handle>>
      BY <1>3, <2>3 DEF Goal
    <2>4. UNCHANGED <<m_send_seq, m_pending_requests, m_pending_commands,
                      m_state, m_error, pc, op, handle, ready>> => UNCHANGED <<pc, handle>>
      OBVIOUS
    <2>5. Receiver => UNCHANGED <<pc, handle>>
      BY ReceiverKeepsControl
    <2> QED
      BY <2>1, <2>2, <2>3, <2>4, <2>5, StepKinds
  <1> QED
    BY <1>4 DEF Goal

(* What a thread is about to clear, the device has cleared or will clear.  *)
LEMMA StepClearing ==
    ASSUME LimitInv, Session, MaxReboots = 0, [Next]_vars,
           NEW t \in Threads, pc'[t] = "clear", NEW h, h = handle'[t], h \notin Clears'
    PROVE  h < Expected' /\ \A q \in Nat : FirstSeq <= q /\ InQueue(q)' => h < q
  <1>1. /\ QueueInv /\ LineTyped /\ ClientInv /\ ClientInv' /\ TypeOK /\ m_send_seq \in Nat
        /\ Expected \in Nat /\ Expected' \in Nat
        /\ Expected' = Expected \/ Expected' = Expected + 1
        /\ StreamParts
    BY ExpectedGrows, StepQueueInv
       DEF LimitInv, QueueInv, PoweredInv, StreamInv, ClientInv, SeqnumInv, TypeOK, PendingTypeOK
  <1>2. CASE pc[t] = "clear" /\ handle'[t] = handle[t]
    <2>1. h = handle[t] /\ h \in Nat /\ h < m_send_seq
      BY <1>1, <1>2 DEF TypeOK, ControlTypeOK, ClientInv, ClearsOlder
    <2>2. CASE h \in Clears
      <3>1. h = Expected /\ Expected' = Expected + 1 /\ \A q : ~InQueue(q)'
        BY <1>1, <2>2, ClearsLeave
      <3> QED
        BY <1>1, <3>1
    <2>3. CASE h \notin Clears
      <3>1. h < Expected
        BY <1>2, <2>1, <2>3 DEF LimitInv, Clearing
      <3>2. ASSUME NEW q \in Nat, FirstSeq <= q, InQueue(q)'
            PROVE  h < q
        <4>1. CASE InQueue(q) /\ q < m_send_seq
          <5>1. q \in FirstSeq..(m_send_seq - 1)
            BY <1>1, <3>2, <4>1, ClientAssumption
          <5> QED
            BY <1>2, <2>1, <2>3, <4>1, <5>1 DEF LimitInv, Clearing
        <4>2. CASE q = Expected
          BY <1>1, <2>1, <3>1, <4>2
        <4>3. CASE ~(q < m_send_seq)
          BY <1>1, <2>1, <4>3
        <4> QED
          BY <1>1, <3>2, <4>1, <4>2, <4>3, InQueueOnly
      <3> QED
        BY <1>1, <2>1, <3>1, <3>2
    <2> QED
      BY <2>2, <2>3
  <1>3. CASE IssueRequest(t) /\ op[t] \in ClearOps /\ handle'[t] = m_send_seq
    <2>1. /\ h \in DOMAIN m_pending_requests'
          /\ m_pending_requests'[h].type = MessageType(op[t])
          /\ m_send_seq' = m_send_seq + 1
      BY <1>3 DEF IssueRequest, With
    <2>2. MessageType(op[t]) \in ClearTypes
      BY <1>3 DEF ClearOps, MessageType, RequestOps, CommandOps, ClearTypes
    <2>3. Issues
      BY <1>1, <2>1, IssueKinds DEF NothingIssued
    <2>4. Expected' = Expected /\ Expected <= h
      BY <1>1, <1>3, <2>3, JustIssued
    <2>5. Expected' <= h
      BY <2>4
    <2> QED
      BY <2>1, <2>2, <2>5 DEF Clears
  <1> QED
    BY <1>1, <1>2, <1>3, ClearBegins

(* What is ahead of a command gets less.                                   *)
LEMMA StepLimit ==
    ASSUME LimitInv, Session, MaxReboots = 0, [Next]_vars,
           NEW c \in Nat, FirstSeq <= c, c < m_send_seq', Coming(c)'
    PROVE  Cardinality(Ahead(c)') < MAX_PENDING_REQUESTS
  <1>1. /\ QueueInv /\ LineTyped /\ ClientInv /\ TypeOK /\ m_send_seq \in Nat
        /\ Expected \in Nat /\ Expected' \in Nat /\ FirstSeq \in Nat
        /\ Expected' = Expected \/ Expected' = Expected + 1
    BY ExpectedGrows
       DEF LimitInv, QueueInv, PoweredInv, StreamInv, ClientInv, SeqnumInv, TypeOK, PendingTypeOK
  <1>2. MAX_PENDING_REQUESTS \in Nat
    BY ClientAssumption
  <1>3. c <= m_send_seq
    BY <1>1, IssueKinds DEF NothingIssued, Issues
  <1>4. ASSUME NEW q \in Ahead(c)'
        PROVE  /\ q \in FirstSeq..(c - 1) /\ q \in Nat /\ q < m_send_seq
               /\ Active(q)' /\ Active(q)
               /\ \A h \in Clears' : ~(q < h /\ h < c)
    <2>1. q \in FirstSeq..(c - 1) /\ Active(q)' /\ \A h \in Clears' : ~(q < h /\ h < c)
      BY <1>4 DEF Ahead
    <2>2. q \in Nat /\ q < m_send_seq /\ FirstSeq <= q
      BY <1>1, <1>3, <2>1
    <2> QED
      BY <1>1, <2>1, <2>2, ActiveOnly
  <1>5. CASE c < m_send_seq
    <2>1. Coming(c)
      BY <1>1, <1>5, ComingOnly
    <2>2. ASSUME NEW q \in Ahead(c)', NEW h \in Clears, q < h, h < c
          PROVE  FALSE
      <3>1. h = Expected /\ Expected' = Expected + 1 /\ ~InQueue(q)'
        BY <1>1, <1>4, <2>2, ClearsLeave
      <3>2. ~Coming(q)'
        <4>1. ~(Expected' <= q)
          BY <1>1, <1>4, <2>2, <3>1
        <4> QED
          BY <4>1 DEF Coming
      <3> QED
        BY <1>4, <3>1, <3>2 DEF Active
    <2>3. Ahead(c)' \subseteq Ahead(c)
      <3> SUFFICES ASSUME NEW q \in Ahead(c)'
                   PROVE  q \in Ahead(c)
        OBVIOUS
      <3> QED
        BY <1>4, <2>2 DEF Ahead
    <2>4. IsFiniteSet(Ahead(c))
      <3>1. IsFiniteSet(FirstSeq..(c - 1))
        BY <1>1, FS_Interval
      <3> QED
        BY <3>1, FS_Subset DEF Ahead
    <2>5. Cardinality(Ahead(c)) < MAX_PENDING_REQUESTS
      <3>1. c \in FirstSeq..(m_send_seq - 1)
        BY <1>1, <1>5
      <3> QED
        BY <2>1, <3>1 DEF LimitInv, Limit
    <2> QED
      BY <1>2, <2>3, <2>4, <2>5, FS_Subset, FS_CardinalityType
  <1>6. CASE c = m_send_seq
    <2>1. Issues
      BY <1>1, <1>6, IssueKinds DEF NothingIssued
    <2>2. ~UNCHANGED clientVars /\ c \in DOMAIN m_pending_commands'
      BY <1>1, <1>6, <2>1, JustIssued
    <2>3. c \notin DOMAIN m_pending_commands
      BY <1>1, <1>6 DEF ClientInv, SeqnumInv, IssuedBelowNext, LiveSeqnums
    <2>4. Cardinality(DOMAIN m_pending_commands) < MAX_PENDING_REQUESTS
      BY <2>1, <2>2, <2>3 DEF Issues, IssuesRequest, IssuesCommand
    <2>5. ASSUME NEW q \in Ahead(c)'
          PROVE  q \in DOMAIN m_pending_commands
      <3>1. q \in FirstSeq..(m_send_seq - 1)
        BY <1>1, <1>4, <1>6, <2>5
      <3>2. q \in DOMAIN m_pending_commands \/ \E h \in Clears : q < h
        BY <1>4, <2>5, <3>1 DEF LimitInv, Erased
      <3>3. ASSUME NEW h \in Clears, q < h
            PROVE  FALSE
        <4>1. h \in Clears'
          BY <1>1, <2>2, ClearsLeave
        <4>2. h < c
          BY <1>1, <1>6 DEF ClientInv, SeqnumInv, IssuedBelowNext, LiveSeqnums, Clears
        <4> QED
          BY <1>4, <2>5, <3>3, <4>1, <4>2
      <3> QED
        BY <3>2, <3>3
    <2>6. IsFiniteSet(DOMAIN m_pending_commands)
      BY <1>1 DEF TypeOK, PendingFinite
    <2>7. Ahead(c)' \subseteq DOMAIN m_pending_commands
      BY <2>5
    <2> QED
      BY <1>2, <2>4, <2>6, <2>7, FS_Subset, FS_CardinalityType
  <1> QED
    BY <1>1, <1>3, <1>5, <1>6

LEMMA InitLimitInv ==
    ASSUME Session, Init
    PROVE  LimitInv
  <1>1. /\ m_pending_requests = <<>> /\ m_pending_commands = <<>>
        /\ toDevice = <<>> /\ dev_queue = <<>> /\ \A t \in Threads : pc[t] = "idle"
        /\ m_send_seq = FirstSeq /\ FirstSeq \in Nat
    BY ClientAssumption DEF Init, ClientInit, DeviceInit, LineInit
  <1>2. QueueInv
    BY InitQueueInv
  <1>3. LineTyped /\ Clearing
    BY <1>1 DEF LineTyped, Clearing
  <1>4. FirstSeq..(m_send_seq - 1) = {}
    BY <1>1
  <1>5. Erased /\ Limit
    BY <1>4 DEF Erased, Limit
  <1> QED
    BY <1>2, <1>3, <1>5 DEF LimitInv

LEMMA StepLimitInv ==
    ASSUME LimitInv, Session, MaxReboots = 0, [Next]_vars
    PROVE  LimitInv'
  <1>1. QueueInv' /\ ClientInv /\ ClientInv' /\ LineTyped /\ ConnectedBeforeStop
    BY StepQueueInv DEF LimitInv, QueueInv, PoweredInv, StreamInv, Session
  <1>2. LineTyped'
    BY <1>1, StepLineTyped
  <1> DEFINE m == m_send_seq'
             D == DOMAIN m_pending_commands'
             E == Expected'
             C == Clears'
  <1>3. m \in Nat /\ FirstSeq \in Nat
    BY <1>1, ClientAssumption DEF ClientInv, SeqnumInv, TypeOK, PendingTypeOK
  <1>4. \A q \in Nat : FirstSeq <= q /\ q < m /\ Active(q)' => q \in D \/ \E h \in C : q < h
    BY StepErased
  <1>5. \A c \in Nat : FirstSeq <= c /\ c < m /\ Coming(c)' =>
          Cardinality(Ahead(c)') < MAX_PENDING_REQUESTS
    BY StepLimit
  <1>6. ASSUME NEW t \in Threads, pc'[t] = "clear"
        PROVE  \/ handle'[t] \in C
               \/ /\ handle'[t] < E
                  /\ \A q \in Nat : FirstSeq <= q /\ InQueue(q)' => handle'[t] < q
    BY <1>6, StepClearing
  <1> HIDE DEF m, D, E, C
  <1>7. \A q \in FirstSeq..(m - 1) : q \in Nat /\ FirstSeq <= q /\ q < m
    BY <1>3
  <1>8. \A q \in FirstSeq..(m - 1) : Active(q)' => q \in D \/ \E h \in C : q < h
    BY <1>4, <1>7
  <1>9. \A c \in FirstSeq..(m - 1) : Coming(c)' =>
          Cardinality(Ahead(c)') < MAX_PENDING_REQUESTS
    BY <1>5, <1>7
  <1>10. ASSUME NEW t \in Threads, pc'[t] = "clear"
         PROVE  \/ handle'[t] \in C
                \/ /\ handle'[t] < E
                   /\ \A q \in FirstSeq..(m - 1) : InQueue(q)' => handle'[t] < q
    BY <1>6, <1>7, <1>10
  <1>11. Erased'
    BY <1>8 DEF Erased, m, D, C
  <1>12. Limit'
    BY <1>9 DEF Limit, m
  <1>13. Clearing'
    BY <1>10 DEF Clearing, m, E, C
  <1> QED
    BY <1>1, <1>2, <1>11, <1>12, <1>13 DEF LimitInv

(* There is room for the next command.                                     *)
LEMMA NothingIsDropped ==
    ASSUME LimitInv, Session, MAX_PENDING_REQUESTS <= DEVICE_QUEUE_SIZE,
           NEW message, DeviceDrops(message)
    PROVE  FALSE
  <1>1. /\ StreamInv /\ reboots = 0 /\ ClientInv /\ TypeOK /\ QueueParts /\ LineTyped
        /\ Expected \in Nat /\ FirstSeq \in Nat /\ m_send_seq \in Nat
        /\ FirstSeq <= Expected
    <2>1. Len(processed) \in Nat
      BY SentType DEF LimitInv, QueueInv, PoweredInv, StreamInv
    <2> QED
      BY <2>1, SentType
         DEF LimitInv, QueueInv, PoweredInv, StreamInv, ClientInv, SeqnumInv, TypeOK,
             PendingTypeOK, Expected
  <1>2. /\ DeviceTakes(message) /\ message.type = "command"
        /\ message.seqnum = dev_expected
        /\ ~dev_interrupt /\ Len(dev_queue) >= DEVICE_QUEUE_SIZE
    BY DEF DeviceDrops
  <1>3. message.id = Expected /\ 1 \in DOMAIN toDevice /\ message = toDevice[1]
    BY <1>1, <1>2, HeadOfLine
  <1>4. Expected < m_send_seq
    BY <1>2, <1>3, <1>1 DEF LineTyped
  <1>5. Coming(Expected)
    BY <1>1, <1>2, <1>3 DEF Coming, OnLine
  <1>6. Cardinality(Ahead(Expected)) < MAX_PENDING_REQUESTS
    <2>1. Expected \in FirstSeq..(m_send_seq - 1)
      BY <1>1, <1>4
    <2> QED
      BY <1>5, <2>1 DEF LimitInv, Limit
  <1> DEFINE A == Ahead(Expected)
             n == Len(dev_queue)
  <1>7. IsFiniteSet(A) /\ Cardinality(A) \in Nat
    <2>1. IsFiniteSet(FirstSeq..(Expected - 1))
      BY <1>1, FS_Interval
    <2> QED
      BY <2>1, FS_Subset, FS_CardinalityType DEF Ahead
  <1>8. n \in Nat /\ DOMAIN dev_queue = 1..n
    BY <1>1, LenProperties DEF TypeOK, DeviceTypeOK
  <1>9. \A i \in 1..n : \E a \in A : dev_queue[i] = Truncate(a)
    <2> SUFFICES ASSUME NEW i \in 1..n
                 PROVE  \E a \in A : dev_queue[i] = Truncate(a)
      OBVIOUS
    <2>1. dev_queue[i] \in Range(dev_queue)
      BY <1>8 DEF Range
    <2>2. PICK a \in FirstSeq..(Expected - 1) : dev_queue[i] = Truncate(a)
      BY <1>1, <2>1 DEF QueueParts, Accepted
    <2>3. InQueue(a)
      BY <1>1, <1>2, <2>1, <2>2 DEF InQueue
    <2>4. \A h \in Clears : ~(h < Expected)
      BY <1>1 DEF Clears, TypeOK, PendingTypeOK
    <2>5. a \in A
      BY <2>3, <2>4 DEF Ahead, Active
    <2> QED
      BY <2>2, <2>5
  <1> HIDE DEF A
  <1> DEFINE f == [i \in 1..n |-> CHOOSE a \in A : dev_queue[i] = Truncate(a)]
  <1>10. \A i \in 1..n : f[i] \in A /\ dev_queue[i] = Truncate(f[i])
    BY <1>9
  <1>11. \A i, j \in 1..n : f[i] = f[j] => i = j
    <2> HIDE DEF f
    <2> QED
      BY <1>1, <1>8, <1>10 DEF QueueParts
  <1>12. f \in [1..n -> A]
    BY <1>10
  <1>13. f \in Injection(1..n, A)
    <2> HIDE DEF f
    <2> QED
      BY <1>11, <1>12 DEF Injection, IsInjective
  <1>14. Cardinality(1..n) <= Cardinality(A)
    <2> HIDE DEF f
    <2> QED
      BY <1>7, <1>13, FS_Injection
  <1>15. Cardinality(1..n) = n
    <2> HIDE DEF f, n
    <2>1. Cardinality(1..n) = IF 1 <= n THEN n - 1 + 1 ELSE 0
      BY <1>8, FS_Interval
    <2> QED
      BY <1>8, <2>1
  <1> QED
    BY <1>2, <1>6, <1>7, <1>8, <1>14, <1>15, ClientAssumption, DeviceAssumption DEF A

(* The client never makes the device drop a command: try_issue_command     *)
(* keeps fewer than MAX_PENDING_REQUESTS commands pending, and what it has *)
(* erased from m_pending_commands (process_command_finished,               *)
(* clear_all_active_commands) does not take up room on the device when the *)
(* next command gets there, whatever was lost, retransmitted or cleared    *)
(* meanwhile.                                                              *)
THEOREM QueueNeverOverflows ==
    ASSUME Session, MaxReboots = 0, MAX_PENDING_REQUESTS <= DEVICE_QUEUE_SIZE
    PROVE  Spec => []NoCommandDropped
  <1>1. Init => LimitInv /\ NoCommandDropped
    <2>1. Init => NoCommandDropped
      BY DEF Init, LineInit, NoCommandDropped
    <2> QED
      BY <2>1, InitLimitInv
  <1>2. LimitInv /\ NoCommandDropped /\ [Next]_vars => LimitInv' /\ NoCommandDropped'
    <2> SUFFICES ASSUME LimitInv, NoCommandDropped, [Next]_vars
                 PROVE  LimitInv' /\ NoCommandDropped'
      OBVIOUS
    <2>1. TypeOK
      BY DEF LimitInv, QueueInv, PoweredInv, StreamInv, ClientInv, SeqnumInv
    <2>2. ASSUME NEW k \in DOMAIN toClient'
          PROVE  toClient'[k].type # "dropped"
      <3>1. ~\E message : DeviceDrops(message)
        BY NothingIsDropped
      <3>2. ~(NewReply(toClient'[k]) /\ toClient'[k].type = "dropped")
        BY <3>1 DEF NewReply, Reply
      <3> QED
        BY <2>1, <3>2, RepliesAreNew DEF NoCommandDropped
    <2> QED
      BY <2>2, StepLimitInv DEF NoCommandDropped
  <1> QED
    BY <1>1, <1>2, PTL DEF Spec
=============================================================================
