----------------------- MODULE InferenceSessionProofs -----------------------
(***************************************************************************)
(* The routines keep to what the tree of scopes asks of its users, and     *)
(* what the runner runs, and when, is what the scheduler says.             *)
(***************************************************************************)
EXTENDS InferenceSession, CancellableScopeProofs, WellFoundedInduction

-----------------------------------------------------------------------------
(* The inductive invariant, beside that of the tree.                       *)

InRoutine ==
    at \in {"add", "adding", "wait", "waiting", "command", "rethrow", "result",
            "clear", "clearing", "leave"}

(* The routine's scope is there while the routine is, and the pivot from   *)
(* its constructor to its destructor.                                      *)
NodesOK ==
    /\ root \in alive
    /\ sub \in alive <=> InRoutine
    /\ runner \in alive <=> at \notin {"new", "over"}
    /\ at \in {"stop thread", "join"} => runner \notin attached
    /\ \A n \in attached : n \in {sub, runner} /\ m_scope[n] = root

(* Who calls what: the program's thread the runner at its end, whoever     *)
(* stops the program the root, and a callback the routine's scope.         *)
CallersOK ==
    \A t \in Threads :
        /\ waiting[t] # NoScope => t = user /\ waiting[t] = sub /\ at = "waiting"
        /\ Depth(t) > 0 =>
              \/ t = user /\ at = "join" /\ calls[t][1].node = runner
              \/ t = stopper /\ calls[t][1].node = root
              \/ t = worker /\ calls[t][1].node = runner
        /\ \A i \in 1..Depth(t) :
              i < Depth(t) /\ calls[t][i].node \in Leaves =>
                  t = worker /\ calls[t][i + 1].node = sub

(* The runner has its lock from one sleep to the next; a callback that     *)
(* cancels the routine has not been removed from it yet.                   *)
WorkerOK ==
    /\ place \in {"none", "start", "yield", "sleep", "over"} => Depth(worker) = 0
    /\ place \in {"request", "run", "none due", "to sleep"} => Depth(worker) = 1
    /\ place = "top" => Depth(worker) > 0
    /\ Depth(worker) > 0 => calls[worker][1].at = "held"
    /\ Depth(worker) > 1 => m_map # {}

(* The pivot's map and the scheduler's are the same, and are empty but in  *)
(* the routine.                                                            *)
CallbacksOK ==
    /\ m_map = DOMAIN m_scheduler.events
    /\ m_map # {} => InRoutine /\ at # "leave"
    /\ place = "run" => event \in m_map
    /\ program \in Programs /\ to_add \subseteq Events

Entries == [in : Int, id : Nat, event : Events]

(* What an entry and an event have in common when the entry fires it.      *)
Key(entry) == <<entry.event, entry.id>>
KeyOf(s, e) == <<e, s.events[e].id>>

Sorted(schedule) ==
    \A i, j \in 1..Len(schedule) : i < j => schedule[i].in <= schedule[j].in

OnceIn(schedule, key) ==
    \E i \in 1..Len(schedule) : \A j \in 1..Len(schedule) :
        Key(schedule[j]) = key <=> j = i

InOrder(schedule, first, second) ==
    \E i, j \in 1..Len(schedule) :
        i < j /\ Key(schedule[i]) = first /\ Key(schedule[j]) = second

(* In the order of time, and one entry for each event that fires it.       *)
SchedulerOK(s) ==
    /\ s = [events |-> s.events, schedule |-> s.schedule]
    /\ DOMAIN s.events \subseteq Events
    /\ s.events \in [DOMAIN s.events -> [id : Nat, period : Periods]]
    /\ s.schedule \in Seq(Entries) /\ Sorted(s.schedule)
    /\ \A e \in DOMAIN s.events : OnceIn(s.schedule, KeyOf(s, e))

(* Whoever has run since another was due comes after it now.               *)
OvertakenOK ==
    /\ overtaken \subseteq m_map \X m_map
    /\ \A o \in overtaken :
          InOrder(m_scheduler.schedule,
                  KeyOf(m_scheduler, o[2]), KeyOf(m_scheduler, o[1]))

(* The runner takes a new frame when it has slept.                         *)
FramesOK ==
    /\ is_back_to_back \in BOOLEAN /\ has_slept \in BOOLEAN
    /\ place \in {"none due", "to sleep", "sleep"} => ~is_back_to_back
    /\ is_back_to_back => ~has_slept

(* Whoever has been shown the frame is still there, and is up to date, or  *)
(* threw, and cancels the routine or has cancelled it.                  *)
ShownOK ==
    /\ shown \subseteq m_map
    /\ shown \subseteq up_to_date \/ sub \in cancelled \/ Depth(worker) > 1

RoutineInv ==
    NodesOK /\ CallersOK /\ WorkerOK /\ CallbacksOK /\ SchedulerOK(m_scheduler)
    /\ OvertakenOK /\ FramesOK

-----------------------------------------------------------------------------
(* The least of a set of numbers, and a place in a sequence.               *)

LEMMA LeastOf ==
    ASSUME NEW S \in SUBSET Nat, S # {}
    PROVE  Min(S) \in S /\ \A y \in S : Min(S) <= y
  <1> DEFINE R == OpToRel(<, Nat)
  <1>1. IsWellFoundedOn(R, Nat)
    BY NatLessThanWellFounded
  <1>2. \A x, y \in Nat : y < x => <<y, x>> \in R
    BY DEF OpToRel
  <1> HIDE DEF R
  <1>3. PICK x \in S : \A y \in S : ~ (<<y, x>> \in R)
    BY <1>1, WFMin
  <1>4. \A y \in S : x <= y
    <2> SUFFICES ASSUME NEW y \in S
                 PROVE  x <= y
      OBVIOUS
    <2>1. ~ (y < x)
      BY <1>2, <1>3
    <2> QED
      BY <2>1
  <1> QED
    BY <1>4 DEF Min

LEMMA FirstIs ==
    ASSUME NEW s, s \in Seq(Entries), NEW S \in SUBSET (1..Len(s))
    PROVE  /\ FirstOf(s, S) \in 1..Len(s) + 1
           /\ FirstOf(s, S) <= Len(s) => FirstOf(s, S) \in S
           /\ \A i \in S : FirstOf(s, S) <= i
  <1>1. Len(s) \in Nat
    OBVIOUS
  <1>2. /\ \A x \in S : x \in Nat /\ 1 <= x /\ x <= Len(s)
        /\ Len(s) + 1 \in Nat
    BY <1>1
  <1>2a. S \cup {Len(s) + 1} \in SUBSET Nat /\ S \cup {Len(s) + 1} # {}
    BY <1>2
  <1>3. /\ FirstOf(s, S) \in S \cup {Len(s) + 1}
        /\ \A i \in S \cup {Len(s) + 1} : FirstOf(s, S) <= i
    BY <1>2a, LeastOf DEF FirstOf
  <1>4. FirstOf(s, S) \in 1..Len(s) + 1
    <2>1. ASSUME NEW x \in S
          PROVE  x \in 1..Len(s) + 1
      BY <1>1, <1>2
    <2>2. Len(s) + 1 \in 1..Len(s) + 1
      BY <1>1
    <2> QED
      BY <1>3, <2>1, <2>2
  <1>5. FirstOf(s, S) <= Len(s) => FirstOf(s, S) \in S
    BY <1>1, <1>3
  <1> QED
    BY <1>3, <1>4, <1>5

(* The entry is at its place, and what came after it one further on.       *)
LEMMA Inserted ==
    ASSUME NEW s, s \in Seq(Entries), NEW k \in 1..Len(s) + 1, NEW x \in Entries
    PROVE  LET r == InsertedAt(s, k, x)
           IN  /\ r \in Seq(Entries) /\ Len(r) = Len(s) + 1 /\ r[k] = x
               /\ \A i \in 1..Len(s) : i < k => r[i] = s[i]
               /\ \A i \in 1..Len(s) : i >= k => r[i + 1] = s[i]
  <1> DEFINE a == SubSeq(s, 1, k - 1)
             c == SubSeq(s, k, Len(s))
  <1>1. Len(s) \in Nat /\ k \in Nat
    OBVIOUS
  <1>2. a \in Seq(Entries) /\ Len(a) = k - 1 /\ \A i \in 1..k - 1 : a[i] = s[i]
    BY <1>1
  <1>3. /\ c \in Seq(Entries) /\ Len(c) = Len(s) - k + 1
        /\ \A i \in 1..Len(s) - k + 1 : c[i] = s[k + i - 1]
    BY <1>1
  <1> HIDE DEF a, c
  <1>4. <<x>> \in Seq(Entries) /\ Len(<<x>>) = 1 /\ <<x>>[1] = x
    OBVIOUS
  <1> DEFINE d == a \o <<x>>
  <1>5. /\ d \in Seq(Entries) /\ Len(d) = k /\ d[k] = x
        /\ \A i \in 1..k - 1 : d[i] = a[i]
    BY <1>1, <1>2, <1>4
  <1> HIDE DEF d
  <1> DEFINE r == d \o c
  <1>6. /\ r \in Seq(Entries) /\ Len(r) = Len(s) + 1
        /\ \A i \in 1..k : r[i] = d[i]
        /\ \A i \in 1..Len(s) - k + 1 : r[k + i] = c[i]
    <2>1. Len(d) \in Nat /\ Len(c) \in Nat
      BY <1>1, <1>3, <1>5
    <2>2. d \in Seq(Entries) /\ c \in Seq(Entries)
      BY <1>3, <1>5
    <2>3. /\ r \in Seq(Entries) /\ Len(r) = Len(d) + Len(c)
          /\ \A i \in 1..Len(d) + Len(c) :
                r[i] = IF i <= Len(d) THEN d[i] ELSE c[i - Len(d)]
      BY <2>2, ConcatProperties
    <2>4. \A i \in 1..Len(c) : Len(d) + i \in 1..Len(d) + Len(c) /\ Len(d) + i - Len(d) = i
      BY <2>1
    <2> HIDE DEF r
    <2>5. Len(r) = Len(s) + 1
      BY <1>1, <1>3, <1>5, <2>3
    <2>6. ASSUME NEW i \in 1..k
          PROVE  r[i] = d[i]
      <3>1. i \in 1..Len(d) + Len(c) /\ i <= Len(d)
        BY <1>1, <1>5, <2>1
      <3> QED
        BY <2>3, <3>1
    <2>7. ASSUME NEW i \in 1..Len(s) - k + 1
          PROVE  r[k + i] = c[i]
      <3>1. /\ k + i \in 1..Len(d) + Len(c) /\ ~ (k + i <= Len(d))
            /\ k + i - Len(d) = i
        BY <1>1, <1>3, <1>5, <2>1
      <3> QED
        BY <2>3, <3>1
    <2> QED
      BY <2>3, <2>5, <2>6, <2>7
  <1>7. InsertedAt(s, k, x) = r
    BY DEF InsertedAt, a, c, d
  <1> HIDE DEF r
  <1>8. \A i \in 1..Len(s) : i < k => r[i] = s[i]
    BY <1>1, <1>2, <1>5, <1>6
  <1>9. \A i \in 1..Len(s) : i >= k => r[i + 1] = s[i]
    <2> SUFFICES ASSUME NEW i \in 1..Len(s), i >= k
                 PROVE  r[i + 1] = s[i]
      OBVIOUS
    <2> DEFINE j == i - k + 1
    <2>1. j \in 1..Len(s) - k + 1 /\ k + j = i + 1 /\ k + j - 1 = i
      BY <1>1
    <2> HIDE DEF j
    <2>2. r[k + j] = c[j] /\ c[j] = s[k + j - 1]
      BY <1>3, <1>6, <2>1
    <2> QED
      BY <2>1, <2>2
  <1> QED
    BY <1>1, <1>5, <1>6, <1>7, <1>8, <1>9

-----------------------------------------------------------------------------
(* The schedule.                                                           *)

(* What r is when x has been put into s at the place k.                    *)
PutAt(s, k, x, r) ==
    /\ k \in 1..Len(s) + 1 /\ Len(r) = Len(s) + 1 /\ r[k] = x
    /\ \A i \in 1..Len(s) : i < k => r[i] = s[i]
    /\ \A i \in 1..Len(s) : i >= k => r[i + 1] = s[i]

LEMMA EmplaceSorted ==
    ASSUME NEW s, s \in Seq(Entries), Sorted(s), NEW x \in Entries
    PROVE  /\ Emplace(s, x) \in Seq(Entries) /\ Sorted(Emplace(s, x))
           /\ \E k \in 1..Len(s) + 1 :
                 /\ PutAt(s, k, x, Emplace(s, x))
                 /\ \A i \in 1..Len(s) : s[i].in <= x.in <=> i < k
  <1> DEFINE later == {i \in 1..Len(s) : s[i].in > x.in}
             k == FirstOf(s, later)
             r == Emplace(s, x)
  <1>1. Len(s) \in Nat /\ x.in \in Int /\ \A i \in 1..Len(s) : s[i].in \in Int
    <2>1. \A y \in Entries : y.in \in Int
      BY DEF Entries
    <2>2. Len(s) \in Nat /\ \A i \in 1..Len(s) : s[i] \in Entries
      OBVIOUS
    <2> QED
      BY <2>1, <2>2
  <1>2. /\ k \in 1..Len(s) + 1 /\ (k <= Len(s) => k \in later)
        /\ \A i \in later : k <= i
    BY FirstIs
  <1>3. r = InsertedAt(s, k, x)
    BY DEF Emplace
  <1>4. \A i \in 1..Len(s) : s[i].in <= x.in <=> i < k
    <2> SUFFICES ASSUME NEW i \in 1..Len(s)
                 PROVE  s[i].in <= x.in <=> i < k
      OBVIOUS
    <2>1. CASE i < k
      BY <1>1, <1>2, <2>1
    <2>2. CASE i >= k
      <3>1. k \in 1..Len(s) /\ s[k].in > x.in
        BY <1>1, <1>2, <2>2
      <3>2. s[k].in <= s[i].in
        BY <1>1, <2>2, <3>1 DEF Sorted
      <3> QED
        BY <1>1, <2>2, <3>1, <3>2
    <2> QED
      BY <1>1, <1>2, <2>1, <2>2
  <1> HIDE DEF k, r
  <1>5. r \in Seq(Entries) /\ PutAt(s, k, x, r)
    BY <1>2, <1>3, Inserted DEF PutAt
  <1>6. Sorted(r)
    <2> SUFFICES ASSUME NEW i \in 1..Len(r), NEW j \in 1..Len(r), i < j
                 PROVE  r[i].in <= r[j].in
      BY DEF Sorted
    <2>1. \A m \in 1..Len(r) : \/ m < k /\ m \in 1..Len(s) /\ r[m] = s[m]
                               \/ m = k /\ r[m] = x
                               \/ m > k /\ m - 1 \in 1..Len(s) /\ m - 1 >= k /\ r[m] = s[m - 1]
      <3> SUFFICES ASSUME NEW m \in 1..Len(r), m > k
                   PROVE  m - 1 \in 1..Len(s) /\ m - 1 >= k /\ r[m] = s[m - 1]
        BY <1>1, <1>2, <1>5 DEF PutAt
      <3>1. m - 1 \in 1..Len(s) /\ m - 1 >= k /\ (m - 1) + 1 = m
        BY <1>1, <1>2, <1>5 DEF PutAt
      <3> QED
        BY <3>1, <1>5 DEF PutAt
    <2>2. \A m, n \in 1..Len(s) : m < n => s[m].in <= s[n].in
      BY DEF Sorted
    <2>3. CASE j < k
      BY <1>1, <1>2, <2>1, <2>2, <2>3
    <2>4. CASE j = k
      BY <1>1, <1>2, <1>4, <2>1, <2>4
    <2>5. CASE j > k
      <3>1. j - 1 \in 1..Len(s) /\ r[j] = s[j - 1] /\ j - 1 >= k
        BY <1>1, <1>2, <2>1, <2>5
      <3>2. CASE i < k
        BY <1>1, <1>2, <2>1, <2>2, <3>1, <3>2
      <3>3. CASE i = k
        BY <1>1, <1>2, <1>4, <2>1, <3>1, <3>3
      <3>4. CASE i > k
        BY <1>1, <1>2, <2>1, <2>2, <3>1, <3>4
      <3> QED
        BY <1>1, <1>2, <3>2, <3>3, <3>4
    <2> QED
      BY <1>1, <1>2, <2>3, <2>4, <2>5
  <1> QED
    BY <1>2, <1>4, <1>5, <1>6 DEF r

(* Whatever else is in the schedule is there as often, and in its order.   *)
LEMMA PutKeepsOthers ==
    ASSUME NEW s, s \in Seq(Entries), NEW r, r \in Seq(Entries), NEW x, NEW k,
           PutAt(s, k, x, r), NEW key, Key(x) # key
    PROVE  /\ OnceIn(s, key) => OnceIn(r, key)
           /\ \A other : Key(x) # other /\ InOrder(s, key, other) => InOrder(r, key, other)
  <1> USE DEF PutAt
  <1>1. Len(s) \in Nat /\ k \in 1..Len(s) + 1
    OBVIOUS
  <1> DEFINE At(i) == IF i < k THEN i ELSE i + 1
  <1>2. \A i \in 1..Len(s) : At(i) \in 1..Len(r) /\ r[At(i)] = s[i]
    BY <1>1
  <1>3. \A i, j \in 1..Len(s) : i < j => At(i) < At(j)
    BY <1>1
  <1>4. \A j \in 1..Len(r) : j = k \/ \E i \in 1..Len(s) : j = At(i)
    <2> SUFFICES ASSUME NEW j \in 1..Len(r), j # k
                 PROVE  \E i \in 1..Len(s) : j = At(i)
      OBVIOUS
    <2>1. CASE j < k
      BY <1>1, <2>1
    <2>2. CASE j > k
      <3>1. j - 1 \in 1..Len(s) /\ j = At(j - 1)
        BY <1>1, <2>2
      <3> QED
        BY <3>1
    <2> QED
      BY <1>1, <2>1, <2>2
  <1> HIDE DEF At
  <1>5. OnceIn(s, key) => OnceIn(r, key)
    <2> SUFFICES ASSUME OnceIn(s, key)
                 PROVE  OnceIn(r, key)
      OBVIOUS
    <2>1. PICK i \in 1..Len(s) : \A j \in 1..Len(s) : Key(s[j]) = key <=> j = i
      BY DEF OnceIn
    <2>2. \A j \in 1..Len(r) : Key(r[j]) = key => j = At(i)
      BY <1>2, <1>4, <2>1
    <2>3. Key(r[At(i)]) = key
      BY <1>2, <2>1
    <2> QED
      BY <1>2, <2>2, <2>3 DEF OnceIn
  <1>6. ASSUME NEW other, InOrder(s, key, other)
        PROVE  InOrder(r, key, other)
    BY <1>2, <1>3, <1>6 DEF InOrder
  <1> QED
    BY <1>5, <1>6

(* What r is when the first k entries of s are gone.                       *)
Dropped(s, k, r) ==
    /\ k \in 0..Len(s) /\ Len(r) = Len(s) - k
    /\ \A i \in 1..Len(r) : r[i] = s[k + i]

LEMMA DropKeepsOthers ==
    ASSUME NEW s, s \in Seq(Entries), NEW r, r \in Seq(Entries), NEW k, Dropped(s, k, r)
    PROVE  /\ Sorted(s) => Sorted(r)
           /\ \A key : (\A i \in 1..k : Key(s[i]) # key) =>
                 /\ OnceIn(s, key) => OnceIn(r, key)
                 /\ \A other : InOrder(s, key, other) => InOrder(r, key, other)
  <1> USE DEF Dropped
  <1>1. Len(s) \in Nat /\ k \in Nat /\ Len(r) \in Nat
    OBVIOUS
  <1>2. \A i \in 1..Len(r) : k + i \in 1..Len(s) /\ r[i] = s[k + i]
    BY <1>1
  <1>3. \A i \in 1..Len(s) : i \in 1..k \/ \E j \in 1..Len(r) : i = k + j
    <2> SUFFICES ASSUME NEW i \in 1..Len(s), i \notin 1..k
                 PROVE  \E j \in 1..Len(r) : i = k + j
      OBVIOUS
    <2>1. i - k \in 1..Len(r) /\ i = k + (i - k)
      BY <1>1
    <2> QED
      BY <2>1
  <1>4. \A i, j \in 1..Len(r) : i < j <=> k + i < k + j
    BY <1>1
  <1>5. Sorted(s) => Sorted(r)
    BY <1>2, <1>4 DEF Sorted
  <1>6. ASSUME NEW key, \A i \in 1..k : Key(s[i]) # key, OnceIn(s, key)
        PROVE  OnceIn(r, key)
    <2>1. PICK i \in 1..Len(s) : \A j \in 1..Len(s) : Key(s[j]) = key <=> j = i
      BY <1>6 DEF OnceIn
    <2>2. PICK m \in 1..Len(r) : i = k + m
      BY <1>3, <1>6, <2>1
    <2>3. \A j \in 1..Len(r) : Key(r[j]) = key <=> k + j = k + m
      BY <1>2, <2>1, <2>2
    <2>4. \A j \in 1..Len(r) : k + j = k + m <=> j = m
      BY <1>1
    <2> QED
      BY <2>3, <2>4 DEF OnceIn
  <1>7. ASSUME NEW key, \A i \in 1..k : Key(s[i]) # key,
               NEW other, InOrder(s, key, other)
        PROVE  InOrder(r, key, other)
    <2>1. PICK i, j \in 1..Len(s) : i < j /\ Key(s[i]) = key /\ Key(s[j]) = other
      BY <1>7 DEF InOrder
    <2>2. PICK m \in 1..Len(r) : i = k + m
      BY <1>3, <1>7, <2>1
    <2>3. j \notin 1..k
      BY <1>1, <2>1, <2>2
    <2>4. PICK n \in 1..Len(r) : j = k + n
      BY <1>3, <2>3
    <2> QED
      BY <1>2, <1>4, <2>1, <2>2, <2>4 DEF InOrder
  <1> QED
    BY <1>5, <1>6, <1>7

-----------------------------------------------------------------------------
(* What the operations of the scheduler keep.                              *)

LEMMA CallbackIdIsNew ==
    ASSUME NEW s, SchedulerOK(s)
    PROVE  CallbackId(s) \in Nat /\ CallbackId(s) \notin Ids(s)
  <1> DEFINE n == Cardinality(Ids(s))
             free == (0..n) \ Ids(s)
  <1>1. s.schedule \in Seq(Entries) /\ Len(s.schedule) \in Nat
    BY DEF SchedulerOK
  <1>2. IsFiniteSet(Ids(s))
    <2>1. IsFiniteSet(1..Len(s.schedule))
      BY <1>1, FS_Interval
    <2> DEFINE f == [i \in 1..Len(s.schedule) |-> s.schedule[i].id]
    <2>2. f \in Surjection(1..Len(s.schedule), Ids(s))
      BY DEF Ids, Surjection
    <2> HIDE DEF f
    <2> QED
      BY <2>1, <2>2, FS_Surjection
  <1>3. n \in Nat
    BY <1>2, FS_CardinalityType
  <1>4. IsFiniteSet(0..n) /\ Cardinality(0..n) = n + 1
    <2>1. /\ IsFiniteSet(0..n)
          /\ Cardinality(0..n) = IF 0 > n THEN 0 ELSE n - 0 + 1
      <3> HIDE DEF n
      <3> QED
        BY <1>3, FS_Interval
    <2> QED
      BY <1>3, <2>1
  <1>5. free # {}
    <2> SUFFICES ASSUME 0..n \subseteq Ids(s)
                 PROVE  FALSE
      OBVIOUS
    <2>1. Cardinality(0..n) <= Cardinality(Ids(s))
      BY <1>2, FS_Subset
    <2> QED
      BY <1>3, <1>4, <2>1
  <1>6. free \in SUBSET Nat
    BY <1>3
  <1>7. CallbackId(s) = Min(free)
    BY DEF CallbackId
  <1> HIDE DEF n
  <1>8. Min(free) \in free
    <2> HIDE DEF free
    <2> QED
      BY <1>5, <1>6, LeastOf
  <1> QED
    BY <1>6, <1>7, <1>8

LEMMA AddEventKeeps ==
    ASSUME NEW s, SchedulerOK(s), NEW e \in Events, NEW p \in Periods
    PROVE  LET r == AddEvent(s, e, p)
           IN  /\ SchedulerOK(r) /\ DOMAIN r.events = DOMAIN s.events \cup {e}
               /\ \A f, g \in DOMAIN s.events :
                     InOrder(s.schedule, KeyOf(s, f), KeyOf(s, g))
                     => InOrder(r.schedule, KeyOf(r, f), KeyOf(r, g))
  <1>1. CASE e \in DOMAIN s.events
    BY <1>1 DEF AddEvent, HasEvent
  <1>2. CASE e \notin DOMAIN s.events
    <2> DEFINE r == AddEvent(s, e, p)
               c == CallbackId(s)
               x == [in |-> 0, id |-> c, event |-> e]
               q == s.schedule
               new == [id |-> c, period |-> p]
               all == [f \in DOMAIN s.events \cup {e} |->
                          IF f = e THEN new ELSE s.events[f]]
    <2>1. c \in Nat /\ c \notin Ids(s)
      BY CallbackIdIsNew
    <2> HIDE DEF c
    <2>2. x \in Entries /\ Key(x) = <<e, c>> /\ x.in = 0
      BY <2>1 DEF Entries, Key
    <2>3. r = [events |-> all, schedule |-> Emplace(q, x)]
      BY <1>2 DEF AddEvent, HasEvent, c
    <2>4. q \in Seq(Entries) /\ Sorted(q) /\ Len(q) \in Nat
      BY DEF SchedulerOK
    <2>5. /\ r.events = all /\ DOMAIN all = DOMAIN s.events \cup {e} /\ all[e] = new
          /\ \A f \in DOMAIN s.events : all[f] = s.events[f]
          /\ r.schedule = Emplace(q, x) /\ r = [events |-> r.events, schedule |-> r.schedule]
      BY <1>2, <2>3
    <2> HIDE DEF r, all, x
    <2>6. /\ r.schedule \in Seq(Entries) /\ Sorted(r.schedule)
          /\ \E k \in 1..Len(q) + 1 : PutAt(q, k, x, r.schedule)
      BY <2>2, <2>4, <2>5, EmplaceSorted
    <2>7. PICK k \in 1..Len(q) + 1 : PutAt(q, k, x, r.schedule)
      BY <2>6
    <2> HIDE DEF q
    <2>8. \A f \in DOMAIN s.events :
            KeyOf(r, f) = KeyOf(s, f) /\ Key(x) # KeyOf(s, f)
      BY <1>2, <2>2, <2>5 DEF KeyOf
    <2>9. ASSUME NEW f \in DOMAIN s.events
          PROVE  OnceIn(r.schedule, KeyOf(r, f))
      <3>1. OnceIn(q, KeyOf(s, f))
        BY DEF SchedulerOK, q
      <3> QED
        BY <2>4, <2>6, <2>7, <2>8, <3>1, PutKeepsOthers
    <2>10. OnceIn(r.schedule, KeyOf(r, e))
      <3>1. KeyOf(r, e) = <<e, c>>
        BY <2>5 DEF KeyOf
      <3>2. \A i \in 1..Len(q) : q[i].id # c
        BY <2>1 DEF Ids, q
      <3>3. \A j \in 1..Len(r.schedule) : Key(r.schedule[j]) = <<e, c>> <=> j = k
        <4> SUFFICES ASSUME NEW j \in 1..Len(r.schedule), j # k
                     PROVE  Key(r.schedule[j]) # <<e, c>>
          BY <2>2, <2>7 DEF PutAt
        <4>1. \E i \in 1..Len(q) : r.schedule[j] = q[i]
          <5>1. CASE j < k
            BY <2>4, <2>7, <5>1 DEF PutAt
          <5>2. CASE j > k
            <6>1. j - 1 \in 1..Len(q) /\ j - 1 >= k /\ (j - 1) + 1 = j
              BY <2>4, <2>7, <5>2 DEF PutAt
            <6> QED
              BY <2>7, <6>1 DEF PutAt
          <5> QED
            BY <2>4, <5>1, <5>2
        <4> QED
          BY <3>2, <4>1 DEF Key
      <3>4. k \in 1..Len(r.schedule)
        BY <2>4, <2>7 DEF PutAt
      <3> QED
        BY <3>1, <3>3, <3>4 DEF OnceIn
    <2>11. SchedulerOK(r)
      <3>1. r.events \in [DOMAIN r.events -> [id : Nat, period : Periods]]
        <4>1. new \in [id : Nat, period : Periods]
          BY <2>1
        <4>2. \A f \in DOMAIN s.events : s.events[f] \in [id : Nat, period : Periods]
          BY DEF SchedulerOK
        <4> HIDE DEF new
        <4> QED
          BY <2>5, <4>1, <4>2 DEF all
      <3>2. DOMAIN r.events \subseteq Events
        BY <2>5 DEF SchedulerOK
      <3>3. \A f \in DOMAIN r.events : OnceIn(r.schedule, KeyOf(r, f))
        BY <2>5, <2>9, <2>10
      <3> QED
        BY <2>5, <2>6, <3>1, <3>2, <3>3 DEF SchedulerOK
    <2>12. ASSUME NEW f \in DOMAIN s.events, NEW g \in DOMAIN s.events,
                  InOrder(q, KeyOf(s, f), KeyOf(s, g))
           PROVE  InOrder(r.schedule, KeyOf(r, f), KeyOf(r, g))
      BY <2>4, <2>6, <2>7, <2>8, <2>12, PutKeepsOthers
    <2> QED
      BY <2>5, <2>11, <2>12 DEF r, q
  <1> QED
    BY <1>1, <1>2

LEMMA RemoveEventKeeps ==
    ASSUME NEW s, SchedulerOK(s), NEW e
    PROVE  LET r == RemoveEvent(s, e)
           IN  /\ SchedulerOK(r) /\ DOMAIN r.events = DOMAIN s.events \ {e}
               /\ r.schedule = s.schedule
               /\ \A f \in DOMAIN s.events \ {e} : KeyOf(r, f) = KeyOf(s, f)
  <1> DEFINE r == RemoveEvent(s, e)
             rest == [f \in DOMAIN s.events \ {e} |-> s.events[f]]
  <1>1. s = [events |-> s.events, schedule |-> s.schedule]
    BY DEF SchedulerOK
  <1>2. r = [events |-> rest, schedule |-> s.schedule]
    BY <1>1 DEF RemoveEvent
  <1>3. /\ r.events = rest /\ r.schedule = s.schedule
        /\ DOMAIN rest = DOMAIN s.events \ {e}
        /\ \A f \in DOMAIN rest : rest[f] = s.events[f]
    BY <1>2
  <1> HIDE DEF r
  <1>4. rest \in [DOMAIN rest -> [id : Nat, period : Periods]]
    <2>1. \A f \in DOMAIN s.events : s.events[f] \in [id : Nat, period : Periods]
      BY DEF SchedulerOK
    <2> QED
      BY <2>1
  <1> HIDE DEF rest
  <1>5. \A f \in DOMAIN s.events \ {e} : KeyOf(r, f) = KeyOf(s, f)
    BY <1>3 DEF KeyOf
  <1>6. SchedulerOK(r)
    BY <1>2, <1>3, <1>4, <1>5 DEF SchedulerOK
  <1> QED
    BY <1>3, <1>5, <1>6 DEF r

(* The clock moves all entries at once.                                    *)
LEMMA TimeKeeps ==
    ASSUME NEW s, SchedulerOK(s)
    PROVE  LET r == TimePasses(s)
           IN  /\ SchedulerOK(r) /\ r.events = s.events
               /\ \A f, g \in DOMAIN s.events :
                     InOrder(s.schedule, KeyOf(s, f), KeyOf(s, g))
                     => InOrder(r.schedule, KeyOf(r, f), KeyOf(r, g))
  <1> DEFINE r == TimePasses(s)
             q == s.schedule
             later == [i \in 1..Len(q) |->
                         [q[i] EXCEPT !.in = IF @ > -MaxPeriod THEN @ - 1 ELSE @]]
  <1>1. s = [events |-> s.events, schedule |-> q] /\ q \in Seq(Entries) /\ Sorted(q)
    BY DEF SchedulerOK
  <1>2. r = [events |-> s.events, schedule |-> later]
    <2>1. \A v : [s EXCEPT !.schedule = v] = [events |-> s.events, schedule |-> v]
      BY <1>1
    <2>2. r = [s EXCEPT !.schedule = later]
      BY DEF TimePasses
    <2> QED
      BY <2>1, <2>2
  <1>3. r.events = s.events /\ r.schedule = later
    BY <1>2
  <1>4. Len(q) \in Nat /\ \A i \in 1..Len(q) : q[i] \in Entries
    BY <1>1
  <1>5. MaxPeriod \in Int
    BY SchedulerAssumption
  <1>6. \A y \in Entries :
          LET z == [y EXCEPT !.in = IF @ > -MaxPeriod THEN @ - 1 ELSE @]
          IN  /\ z \in Entries /\ z.event = y.event /\ z.id = y.id
              /\ z.in = (IF y.in > -MaxPeriod THEN y.in - 1 ELSE y.in) /\ y.in \in Int
    BY <1>5 DEF Entries
  <1>7. /\ later \in Seq(Entries) /\ Len(later) = Len(q)
        /\ \A i \in 1..Len(q) :
              /\ Key(later[i]) = Key(q[i]) /\ q[i].in \in Int
              /\ later[i].in = IF q[i].in > -MaxPeriod THEN q[i].in - 1 ELSE q[i].in
    <2>1. \A i \in 1..Len(q) : later[i] \in Entries
      BY <1>4, <1>6
    <2>2. later \in [1..Len(q) -> Entries]
      BY <2>1
    <2>3. later \in Seq(Entries) /\ Len(later) = Len(q)
      <3> HIDE DEF later, q
      <3> QED
        BY <1>4, <2>2
    <2>4. \A i \in 1..Len(q) :
              /\ Key(later[i]) = Key(q[i]) /\ q[i].in \in Int
              /\ later[i].in = IF q[i].in > -MaxPeriod THEN q[i].in - 1 ELSE q[i].in
      BY <1>4, <1>6 DEF Key
    <2> QED
      BY <2>3, <2>4
  <1> HIDE DEF later, r, q
  <1>8. Sorted(later)
    BY <1>1, <1>4, <1>5, <1>7 DEF Sorted
  <1>9. \A f \in DOMAIN s.events : KeyOf(r, f) = KeyOf(s, f)
    BY <1>3 DEF KeyOf
  <1>10. \A key : OnceIn(q, key) => OnceIn(later, key)
    BY <1>7 DEF OnceIn
  <1>11. \A f, g : InOrder(q, f, g) => InOrder(later, f, g)
    BY <1>7 DEF InOrder
  <1>12. SchedulerOK(r)
    BY <1>2, <1>3, <1>7, <1>8, <1>9, <1>10 DEF SchedulerOK, q
  <1> QED
    BY <1>3, <1>9, <1>11, <1>12 DEF r, q

(* An event that is due, by the entry that fires it.                       *)
DueIn(s, e) ==
    \E i \in 1..Len(s.schedule) :
        Key(s.schedule[i]) = KeyOf(s, e) /\ s.schedule[i].in <= 0

LEMMA RequestKeeps ==
    ASSUME NEW s, SchedulerOK(s)
    PROVE  LET next == RequestNextEvent(s)
               r == next.then
               e == next.event
           IN  /\ SchedulerOK(r) /\ r.events = s.events
               /\ e \in DOMAIN s.events \cup {NoEvent}
               /\ e # NoEvent => \A f \in DOMAIN s.events \ {e} :
                     /\ ~ InOrder(s.schedule, KeyOf(s, f), KeyOf(s, e))
                     /\ DueIn(s, f) => InOrder(r.schedule, KeyOf(s, f), KeyOf(s, e))
               /\ \A f, g \in DOMAIN s.events \ {e} :
                     InOrder(s.schedule, KeyOf(s, f), KeyOf(s, g))
                     => InOrder(r.schedule, KeyOf(s, f), KeyOf(s, g))
  <1> DEFINE q == s.schedule
             n == Len(q)
             S == {i \in 1..n : q[i].in > 0 \/ Current(s, q[i])}
             first == FirstOf(q, S)
             entry == q[first]
             rest == SubSeq(q, first + 1, n)
             next == RequestNextEvent(s)
             r == next.then
             e == next.event
  <1>1. /\ s = [events |-> s.events, schedule |-> q] /\ q \in Seq(Entries)
        /\ Sorted(q) /\ n \in Nat /\ \A i \in 1..n : q[i] \in Entries
    BY DEF SchedulerOK
  <1>2. /\ first \in 1..n + 1 /\ (first <= n => first \in S)
        /\ \A i \in S : first <= i
    BY <1>1, FirstIs
  <1>3. next = IF first > n
               THEN [event |-> NoEvent, then |-> [s EXCEPT !.schedule = <<>>]]
               ELSE IF entry.in > 0
               THEN [event |-> NoEvent,
                     then |-> [s EXCEPT !.schedule = <<entry>> \o rest]]
               ELSE [event |-> entry.event,
                     then |-> [s EXCEPT !.schedule =
                        Emplace(rest, [entry EXCEPT
                          !.in = NextTime(@, s.events[entry.event].period)])]]
    BY DEF RequestNextEvent
  <1> HIDE DEF next, first, S
  <1>4. \A f \in DOMAIN s.events : OnceIn(q, KeyOf(s, f))
    BY DEF SchedulerOK
  <1>5. ASSUME NEW i \in 1..n, NEW f \in DOMAIN s.events, Key(q[i]) = KeyOf(s, f)
        PROVE  i \in S
    BY <1>5 DEF S, Current, HasEvent, Key, KeyOf
  <1>6. \A f \in DOMAIN s.events : \A i \in 1..first - 1 : i <= n => Key(q[i]) # KeyOf(s, f)
    BY <1>1, <1>2, <1>5
  <1>7. CASE first > n
    <2>1. r = [events |-> s.events, schedule |-> <<>>] /\ e = NoEvent
      BY <1>1, <1>3, <1>7
    <2>2. DOMAIN s.events = {}
      <3> SUFFICES ASSUME NEW f \in DOMAIN s.events
                   PROVE  FALSE
        OBVIOUS
      <3>1. PICK i \in 1..n : Key(q[i]) = KeyOf(s, f)
        BY <1>4 DEF OnceIn
      <3> QED
        BY <1>1, <1>2, <1>5, <1>7, <3>1
    <2>3. r.events = s.events /\ r.schedule = <<>>
      BY <2>1
    <2>4. <<>> \in Seq(Entries) /\ Sorted(<<>>)
      BY DEF Sorted
    <2>5. SchedulerOK(r)
      BY <2>1, <2>2, <2>3, <2>4 DEF SchedulerOK
    <2> QED
      BY <2>1, <2>2, <2>3, <2>5 DEF next
  <1>8. CASE first <= n /\ entry.in > 0
    <2> DEFINE d == <<entry>> \o rest
    <2>1. r = [events |-> s.events, schedule |-> d] /\ e = NoEvent
      <3>1. next = [event |-> NoEvent, then |-> [s EXCEPT !.schedule = d]]
        BY <1>1, <1>2, <1>3, <1>8
      <3>2. [s EXCEPT !.schedule = d] = [events |-> s.events, schedule |-> d]
        <4> HIDE DEF d
        <4> QED
          BY <1>1
      <3> HIDE DEF d
      <3> QED
        BY <3>1, <3>2
    <2>2. d \in Seq(Entries) /\ Dropped(q, first - 1, d)
      <3>1. first \in 1..n /\ entry \in Entries
        BY <1>1, <1>2, <1>8
      <3>2. /\ rest \in Seq(Entries) /\ Len(rest) = n - first
            /\ \A i \in 1..n - first : rest[i] = q[first + i]
        BY <1>1, <3>1
      <3> HIDE DEF rest, entry
      <3>3. <<entry>> \in Seq(Entries) /\ Len(<<entry>>) = 1 /\ <<entry>>[1] = entry
        BY <3>1
      <3>4. /\ d \in Seq(Entries) /\ Len(d) = 1 + (n - first)
            /\ \A i \in 1..1 + (n - first) :
                  d[i] = IF i <= 1 THEN <<entry>>[i] ELSE rest[i - 1]
        BY <3>2, <3>3, ConcatProperties
      <3> HIDE DEF d
      <3>5. ASSUME NEW i \in 1..Len(d)
            PROVE  d[i] = q[first - 1 + i]
        <4>1. CASE i = 1
          <5>1. 1 \in 1..1 + (n - first) /\ first - 1 + 1 = first
            BY <1>1, <3>1
          <5>2. d[1] = entry
            BY <3>3, <3>4, <5>1
          <5> QED
            BY <4>1, <5>1, <5>2 DEF entry
        <4>2. CASE i # 1
          <5>1. i - 1 \in 1..n - first /\ first + (i - 1) = first - 1 + i
            BY <1>1, <3>1, <3>4, <4>2
          <5>2. i \in 1..1 + (n - first) /\ ~ (i <= 1)
            BY <3>4, <4>2
          <5>3. d[i] = rest[i - 1]
            BY <3>4, <5>2
          <5>4. rest[i - 1] = q[first + (i - 1)]
            BY <3>2, <5>1
          <5> QED
            BY <5>1, <5>3, <5>4
        <4> QED
          BY <4>1, <4>2
      <3> QED
        BY <1>1, <3>1, <3>4, <3>5 DEF Dropped
    <2> HIDE DEF d
    <2>3. r.events = s.events /\ r.schedule = d
      BY <2>1
    <2>4. \A f \in DOMAIN s.events : \A i \in 1..first - 1 : Key(q[i]) # KeyOf(s, f)
      BY <1>1, <1>2, <1>6, <1>8
    <2>5. /\ Sorted(d)
          /\ \A f \in DOMAIN s.events : OnceIn(d, KeyOf(s, f))
          /\ \A f, g \in DOMAIN s.events :
                InOrder(q, KeyOf(s, f), KeyOf(s, g)) => InOrder(d, KeyOf(s, f), KeyOf(s, g))
      BY <1>1, <1>4, <2>2, <2>4, DropKeepsOthers
    <2>6. \A f : KeyOf(r, f) = KeyOf(s, f)
      BY <2>3 DEF KeyOf
    <2>7. SchedulerOK(r)
      BY <2>1, <2>2, <2>3, <2>5, <2>6 DEF SchedulerOK
    <2> QED
      BY <2>1, <2>3, <2>5, <2>7 DEF next
  <1>9. CASE first <= n /\ ~ (entry.in > 0)
    <2> DEFINE p == s.events[entry.event].period
               x == [entry EXCEPT !.in = NextTime(@, p)]
               d == Emplace(rest, x)
    <2>1. r = [events |-> s.events, schedule |-> d] /\ e = entry.event
      BY <1>1, <1>2, <1>3, <1>9
    <2>2. first \in 1..n /\ entry \in Entries /\ first \in S
      BY <1>1, <1>2, <1>9
    <2>3. e \in DOMAIN s.events /\ Key(entry) = KeyOf(s, e)
      BY <1>9, <2>1, <2>2 DEF S, Current, HasEvent, Key, KeyOf
    <2>4. p \in Nat
      <3>1. s.events[e] \in [id : Nat, period : Periods]
        BY <2>3 DEF SchedulerOK
      <3>2. Periods \subseteq Nat
        BY SchedulerAssumption
      <3> QED
        BY <2>1, <3>1, <3>2
    <2> HIDE DEF p
    <2>5. x \in Entries /\ Key(x) = KeyOf(s, e) /\ x.in \in Nat
      <3>1. entry.in \in Int
        BY <2>2 DEF Entries
      <3>2. NextTime(entry.in, p) \in Nat
        BY <2>4, <3>1 DEF NextTime
      <3>3. /\ x \in Entries /\ x.event = entry.event /\ x.id = entry.id
            /\ x.in = NextTime(entry.in, p)
        <4> DEFINE m == NextTime(entry.in, p)
        <4> HIDE DEF entry, m
        <4>1. /\ [entry EXCEPT !.in = m] \in Entries
              /\ [entry EXCEPT !.in = m].event = entry.event
              /\ [entry EXCEPT !.in = m].id = entry.id
              /\ [entry EXCEPT !.in = m].in = m
          BY <2>2, <3>2 DEF Entries, m
        <4> QED
          BY <4>1 DEF m
      <3> QED
        BY <2>3, <3>2, <3>3 DEF Key
    <2> HIDE DEF x
    <2>6. rest \in Seq(Entries) /\ Dropped(q, first, rest)
      <3>1. /\ rest \in Seq(Entries) /\ Len(rest) = n - first
            /\ \A i \in 1..n - first : rest[i] = q[first + i]
        BY <1>1, <2>2
      <3> QED
        BY <1>1, <2>2, <3>1 DEF Dropped
    <2>7. ASSUME NEW f \in DOMAIN s.events \ {e}, NEW i \in 1..first
          PROVE  Key(q[i]) # KeyOf(s, f)
      <3>1. CASE i = first
        BY <2>3, <3>1 DEF KeyOf
      <3>2. CASE i # first
        BY <1>1, <1>6, <2>2, <3>2
      <3> QED
        BY <3>1, <3>2
    <2>8. /\ Sorted(rest)
          /\ \A f \in DOMAIN s.events \ {e} : OnceIn(rest, KeyOf(s, f))
          /\ \A f, g \in DOMAIN s.events \ {e} :
                InOrder(q, KeyOf(s, f), KeyOf(s, g)) => InOrder(rest, KeyOf(s, f), KeyOf(s, g))
      <3>1. \A f \in DOMAIN s.events \ {e} : \A i \in 1..first : Key(q[i]) # KeyOf(s, f)
        BY <2>7
      <3>2. /\ Sorted(q) => Sorted(rest)
            /\ \A key : (\A i \in 1..first : Key(q[i]) # key) =>
                 /\ OnceIn(q, key) => OnceIn(rest, key)
                 /\ \A other : InOrder(q, key, other) => InOrder(rest, key, other)
        <4>1. q \in Seq(Entries)
          BY <1>1
        <4> HIDE DEF q, rest, first
        <4> QED
          BY <2>6, <4>1, DropKeepsOthers
      <3> HIDE DEF rest, q, e
      <3> QED
        BY <1>1, <1>4, <3>1, <3>2
    <2> HIDE DEF rest
    <2>9. /\ d \in Seq(Entries) /\ Sorted(d)
          /\ \E k \in 1..Len(rest) + 1 :
                 /\ PutAt(rest, k, x, d)
                 /\ \A i \in 1..Len(rest) : rest[i].in <= x.in <=> i < k
      BY <2>5, <2>6, <2>8, EmplaceSorted
    <2> HIDE DEF d
    <2>10. PICK k \in 1..Len(rest) + 1 :
                 /\ PutAt(rest, k, x, d)
                 /\ \A i \in 1..Len(rest) : rest[i].in <= x.in <=> i < k
      BY <2>9
    <2>11. \A f \in DOMAIN s.events \ {e} : Key(x) # KeyOf(s, f)
      BY <2>5 DEF KeyOf
    <2>12. /\ \A f \in DOMAIN s.events \ {e} : OnceIn(d, KeyOf(s, f))
           /\ \A f, g \in DOMAIN s.events \ {e} :
                InOrder(q, KeyOf(s, f), KeyOf(s, g)) => InOrder(d, KeyOf(s, f), KeyOf(s, g))
      BY <2>6, <2>8, <2>9, <2>10, <2>11, PutKeepsOthers
    <2>13. \A i \in 1..Len(rest) : Key(rest[i]) # KeyOf(s, e)
      <3>1. PICK j \in 1..n : \A i \in 1..n : Key(q[i]) = KeyOf(s, e) <=> i = j
        BY <1>4, <2>3 DEF OnceIn
      <3>2. j = first
        BY <2>2, <2>3, <3>1
      <3>3. \A i \in 1..Len(rest) : first + i \in 1..n /\ first + i # first
        BY <1>1, <2>2, <2>6 DEF Dropped
      <3> QED
        BY <2>6, <3>1, <3>2, <3>3 DEF Dropped
    <2>14. Len(rest) \in Nat /\ k \in 1..Len(d) /\ Key(d[k]) = KeyOf(s, e)
      BY <2>5, <2>6, <2>10 DEF PutAt
    <2>15. OnceIn(d, KeyOf(s, e))
      <3>1. ASSUME NEW j \in 1..Len(d), j # k
            PROVE  Key(d[j]) # KeyOf(s, e)
        <4>1. CASE j < k
          <5>1. j \in 1..Len(rest) /\ d[j] = rest[j]
            BY <2>10, <2>14, <4>1 DEF PutAt
          <5> QED
            BY <2>13, <5>1
        <4>2. CASE j > k
          <5>1. j - 1 \in 1..Len(rest) /\ j - 1 >= k /\ (j - 1) + 1 = j
            BY <2>10, <2>14, <4>2 DEF PutAt
          <5>2. d[j] = rest[j - 1]
            BY <2>10, <5>1 DEF PutAt
          <5> QED
            BY <2>13, <5>1, <5>2
        <4> QED
          BY <2>14, <3>1, <4>1, <4>2
      <3> QED
        BY <2>14, <3>1 DEF OnceIn
    <2>16. r.events = s.events /\ r.schedule = d
      BY <2>1
    <2>17. \A f : KeyOf(r, f) = KeyOf(s, f)
      BY <2>16 DEF KeyOf
    <2>18. SchedulerOK(r)
      BY <2>1, <2>9, <2>12, <2>15, <2>16, <2>17 DEF SchedulerOK
    <2>19. ASSUME NEW f \in DOMAIN s.events \ {e}
           PROVE  ~ InOrder(q, KeyOf(s, f), KeyOf(s, e))
      <3> SUFFICES ASSUME InOrder(q, KeyOf(s, f), KeyOf(s, e))
                   PROVE  FALSE
        OBVIOUS
      <3>1. PICK i, j \in 1..n : i < j /\ Key(q[i]) = KeyOf(s, f) /\ Key(q[j]) = KeyOf(s, e)
        BY DEF InOrder
      <3>2. j = first
        BY <1>4, <2>2, <2>3, <3>1 DEF OnceIn
      <3> QED
        BY <1>1, <2>2, <2>7, <3>1, <3>2
    <2>20. ASSUME NEW f \in DOMAIN s.events \ {e}, DueIn(s, f)
           PROVE  InOrder(d, KeyOf(s, f), KeyOf(s, e))
      <3>1. PICK i \in 1..n : Key(q[i]) = KeyOf(s, f) /\ q[i].in <= 0
        BY <2>20 DEF DueIn
      <3>2. i > first
        BY <1>1, <2>2, <2>7, <3>1
      <3> DEFINE m == i - first
      <3>3. m \in 1..Len(rest) /\ first + m = i
        BY <1>1, <2>2, <2>6, <3>2 DEF Dropped
      <3> HIDE DEF m
      <3>4. rest[m] = q[i]
        BY <2>6, <3>3 DEF Dropped
      <3>5. q[i].in \in Int
        BY <1>1 DEF Entries
      <3>6. m < k
        BY <2>5, <2>10, <3>1, <3>3, <3>4, <3>5
      <3>7. m \in 1..Len(d) /\ d[m] = rest[m]
        BY <2>10, <2>14, <3>3, <3>6 DEF PutAt
      <3> QED
        BY <2>14, <3>1, <3>4, <3>6, <3>7 DEF InOrder
    <2>21. e # NoEvent
      BY <2>3, SchedulerAssumption DEF SchedulerOK
    <2> QED
      BY <2>3, <2>12, <2>16, <2>18, <2>19, <2>20 DEF next
  <1> QED
    BY <1>1, <1>2, <1>7, <1>8, <1>9 DEF next

(* The counting form of what the invariant says of the entries.            *)
LEMMA OneEntry ==
    ASSUME NEW s, SchedulerOK(s)
    PROVE  OneEntryEach(s)
  <1> DEFINE D(e) == {i \in 1..Len(s.schedule) :
                        s.schedule[i].event = e /\ Current(s, s.schedule[i])}
  <1> SUFFICES ASSUME NEW e \in Events
               PROVE  Cardinality(D(e)) = IF HasEvent(s, e) THEN 1 ELSE 0
    BY DEF OneEntryEach
  <1>1. CASE e \in DOMAIN s.events
    <2>1. PICK i \in 1..Len(s.schedule) : \A j \in 1..Len(s.schedule) :
             Key(s.schedule[j]) = KeyOf(s, e) <=> j = i
      BY <1>1 DEF SchedulerOK, OnceIn
    <2>2. \A j \in 1..Len(s.schedule) :
             s.schedule[j].event = e /\ Current(s, s.schedule[j])
             <=> Key(s.schedule[j]) = KeyOf(s, e)
      BY <1>1 DEF Current, HasEvent, Key, KeyOf
    <2>3. D(e) = {i}
      BY <2>1, <2>2
    <2> QED
      BY <1>1, <2>3, FS_Singleton DEF HasEvent
  <1>2. CASE e \notin DOMAIN s.events
    <2>1. D(e) = {}
      BY <1>2 DEF Current, HasEvent
    <2> QED
      BY <1>2, <2>1, FS_EmptySet DEF HasEvent
  <1> QED
    BY <1>1, <1>2

-----------------------------------------------------------------------------
(* The nodes and the threads, and what the invariants say of the stacks.   *)

LEMMA NamesDiffer ==
    /\ root \in Scopes /\ sub \in Scopes /\ runner \in Leaves
    /\ root \in Nodes /\ sub \in Nodes /\ runner \in Nodes
    /\ root # sub /\ root # runner /\ sub # runner /\ \A n \in Leaves : n \notin Scopes
    /\ root \notin Leaves /\ sub \notin Leaves /\ runner \notin Scopes
    /\ NoScope \notin Nodes /\ NoScope # sub /\ NoScope # root
    /\ <<root, sub>> \in Below /\ <<root, runner>> \in Below /\ <<runner, sub>> \in Below
    /\ user \in Threads /\ stopper \in Threads /\ worker \in Threads
    /\ user # stopper /\ worker # user /\ worker # stopper
    /\ NoThread \notin Threads /\ NoEvent \notin Events
  <1>1. root # sub
    BY SessionAssumption, ScopeAssumption DEF Nodes
  <1> QED
    BY <1>1, SessionAssumption, RunnerAssumption, ScopeAssumption, SchedulerAssumption
       DEF Nodes

(* While the runner's thread is in a call, it has the lock of the runner.  *)
LEMMA WorkerLocks ==
    ASSUME Inv, CallersOK, WorkerOK, Depth(worker) > 0
    PROVE  lock[runner] = worker /\ calls[worker][1].node = runner
  <1>1. Depth(worker) \in Nat /\ 1 \in 1..Depth(worker)
    BY StackIsFrames, NamesDiffer
  <1>2. calls[worker][1].node = runner /\ calls[worker][1].at = "held"
    BY NamesDiffer DEF CallersOK, WorkerOK
  <1>3. FrameOK(worker, 1)
    BY <1>1, NamesDiffer DEF Inv, StacksOK
  <1> QED
    BY <1>2, <1>3 DEF FrameOK, HoldsLock

(* It calls the cancel() of the routine's scope, which has no children.    *)
LEMMA WorkerStack ==
    ASSUME Inv, NodesOK, CallersOK, WorkerOK
    PROVE  /\ Depth(worker) \in 0..2
           /\ TopIs(worker, "held") => Depth(worker) = 1 /\ Top(worker).node = runner
  <1>1. Depth(worker) \in Nat
    BY StackIsFrames, NamesDiffer
  <1>2. ASSUME Depth(worker) > 1
        PROVE  calls[worker][2].node = sub
    <2>1. 1 \in 1..Depth(worker) /\ 1 < Depth(worker) /\ 1 + 1 = 2
      BY <1>1, <1>2
    <2>2. calls[worker][1].node \in Leaves
      <3>1. Depth(worker) > 0
        BY <1>1, <1>2
      <3> QED
        BY <3>1, WorkerLocks, NamesDiffer
    <2> QED
      BY <2>1, <2>2, NamesDiffer DEF CallersOK
  <1>3. Depth(worker) <= 2
    <2> SUFFICES ASSUME Depth(worker) > 2
                 PROVE  FALSE
      BY <1>1
    <2>1. 2 \in 1..Depth(worker) /\ 2 < Depth(worker)
      BY <1>1
    <2>2. calls[worker][2].node \in Scopes /\ calls[worker][2].node = sub
      BY <1>1, <1>2, NamesDiffer
    <2>3. /\ calls[worker][2 + 1].node \in attached
          /\ m_scope[calls[worker][2 + 1].node] = sub
      BY <2>1, <2>2, CalledByScope, NamesDiffer
    <2> QED
      BY <2>3, NamesDiffer DEF NodesOK
  <1>4. ASSUME TopIs(worker, "held")
        PROVE  Depth(worker) = 1 /\ Top(worker).node = runner
    <2>1. /\ Depth(worker) \in 1..Depth(worker) /\ Top(worker) = calls[worker][Depth(worker)]
          /\ calls[worker][Depth(worker)].at = "held"
      BY <1>4, TopInStack, NamesDiffer DEF Inv, TopIs
    <2>2. calls[worker][Depth(worker)].node \in Leaves
      BY <2>1, NamesDiffer DEF Inv, StacksOK, FrameOK
    <2>3. Depth(worker) # 2
      BY <1>1, <1>2, <2>2, NamesDiffer
    <2>4. Depth(worker) = 1
      BY <1>1, <1>3, <2>1, <2>3
    <2> QED
      BY <2>1, <2>4, WorkerLocks
  <1> QED
    BY <1>1, <1>3, <1>4

-----------------------------------------------------------------------------
(* What is destroyed is released.                                          *)

LEMMA SubReleased ==
    ASSUME Inv, RoutineInv, at = "leave"
    PROVE  Released(sub)
  <1> USE DEF RoutineInv
  <1>1. ASSUME NEW t \in Threads, NEW i \in 1..Depth(t), calls[t][i].node = sub
        PROVE  ~ Direct(t, i)
    <2>1. Depth(t) \in Nat
      BY StackIsFrames
    <2>2. i # 1
      BY <1>1, <2>1, NamesDiffer DEF CallersOK
    <2>3. calls[t][i - 1].node \notin Leaves
      <3> SUFFICES ASSUME calls[t][i - 1].node \in Leaves
                   PROVE  FALSE
        OBVIOUS
      <3>1. i - 1 \in 1..Depth(t) /\ i - 1 < Depth(t)
        BY <2>1, <2>2
      <3>2. t = worker /\ Depth(worker) > 1
        BY <2>1, <2>2, <3>1 DEF CallersOK
      <3> QED
        BY <3>2 DEF WorkerOK, CallbacksOK
    <2> QED
      BY <2>2, <2>3 DEF Direct
  <1>2. \A t \in Threads : waiting[t] # sub
    BY NamesDiffer DEF CallersOK
  <1>3. \A m \in attached : m_scope[m] # sub
    BY NamesDiffer DEF NodesOK
  <1> QED
    BY <1>1, <1>2, <1>3 DEF Released

LEMMA RunnerReleased ==
    ASSUME Inv, RoutineInv, at = "join", calls[user] = <<>>, place \in {"none", "over"}
    PROVE  Released(runner)
  <1> USE DEF RoutineInv
  <1>1. ASSUME NEW t \in Threads, NEW i \in 1..Depth(t), calls[t][i].node = runner
        PROVE  ~ Direct(t, i)
    <2>1. Depth(t) \in Nat /\ Depth(t) > 0
      BY StackIsFrames
    <2>2. t # user /\ t # worker
      <3>1. Depth(user) = 0
        BY StackIsFrames, NamesDiffer
      <3>2. Depth(worker) = 0
        BY DEF WorkerOK
      <3> QED
        BY <2>1, <3>1, <3>2
    <2>3. i # 1
      BY <1>1, <2>1, <2>2, NamesDiffer DEF CallersOK
    <2>4. calls[t][i - 1].node \notin Leaves
      <3>1. i - 1 \in 1..Depth(t) /\ i - 1 < Depth(t)
        BY <2>1, <2>3
      <3> QED
        BY <2>2, <3>1 DEF CallersOK
    <2> QED
      BY <2>3, <2>4 DEF Direct
  <1>2. \A t \in Threads : waiting[t] # runner
    BY NamesDiffer, ScopeAssumption DEF CallersOK
  <1>3. \A m \in attached : m_scope[m] # runner
    BY NamesDiffer DEF NodesOK
  <1> QED
    BY <1>1, <1>2, <1>3 DEF Released

-----------------------------------------------------------------------------
(* Every step of the routines is one that the tree allows.                 *)

LEMMA RunnerStepInTree ==
    ASSUME Inv, RoutineInv, RunnerStep
    PROVE  [ScopeNext]_scopeVars
  <1>1. CASE Start \/ YieldOver \/ WakeUp
    <2>1. Enter(worker, runner)
      BY <1>1 DEF Start, YieldOver, WakeUp
    <2> QED
      BY <2>1, NamesDiffer DEF ScopeNext, ScopeStep
  <1>2. CASE Stop \/ Yield \/ Sleep
    <2>1. Leave(worker)
      BY <1>2 DEF Stop, Yield, Sleep
    <2> QED
      BY <2>1, NamesDiffer DEF ScopeNext, ScopeStep
  <1>3. CASE DoNotYield \/ YieldAgain \/ RequestEvent \/ NotStopped
    BY <1>3 DEF DoNotYield, YieldAgain, RequestEvent, NotStopped
  <1> QED
    BY <1>1, <1>2, <1>3 DEF RunnerStep

LEMMA UserStepInTree ==
    ASSUME Inv, RoutineInv, UserStep
    PROVE  [ScopeNext]_scopeVars
  <1>1. CASE ConstructPivot \/ Begin
    <2>1. Attach(user, runner, root) \/ Attach(user, sub, root)
      BY <1>1 DEF ConstructPivot, Begin
    <2> QED
      BY <2>1, NamesDiffer DEF ScopeNext, ScopeStep
  <1>2. CASE Wait \/ TimedOut \/ LeaveScope \/ DetachPivot
    <2>1. WaitIn(user, sub) \/ WaitEnds(user) \/ Detach(user, sub) \/ Detach(user, runner)
      BY <1>2 DEF Wait, TimedOut, LeaveScope, DetachPivot
    <2> QED
      BY <2>1, NamesDiffer DEF ScopeNext, ScopeStep
  <1>3. CASE EndRoutine
    <2>1. Destroyed(sub) /\ at = "leave"
      BY <1>3 DEF EndRoutine, UserMoves
    <2> QED
      BY <2>1, SubReleased, NamesDiffer DEF ScopeNext
  <1>4. CASE Joined
    <2>1. /\ Destroyed(runner) /\ at = "join" /\ calls[user] = <<>>
          /\ place \in {"none", "over"}
      BY <1>4 DEF Joined, UserMoves
    <2> QED
      BY <2>1, RunnerReleased, NamesDiffer DEF ScopeNext
  <1>5. CASE StopThread
    <2>1. CallCancel(user, runner, NoException) /\ at = "stop thread"
      BY <1>5 DEF StopThread, UserMoves
    <2>2. calls[user] = <<>>
      <3>1. Depth(user) \in Nat /\ (calls[user] = <<>> <=> Depth(user) = 0)
        BY StackIsFrames, NamesDiffer
      <3>2. ~ (Depth(user) > 0)
        BY <2>1, NamesDiffer DEF RoutineInv, CallersOK
      <3> QED
        BY <3>1, <3>2
    <2>3. runner \in alive
      BY <2>1 DEF RoutineInv, NodesOK
    <2> QED
      BY <2>1, <2>2, <2>3, CancelInTree, NamesDiffer
  <1>6. CASE \/ ConstructPivotThrows \/ BeginThrows \/ AddCallback \/ AddCallbackThrows
             \/ CallbackAdded \/ AllAdded \/ Waited \/ CommandEnds \/ CommandCancelled
             \/ Rethrow \/ TriggeredIndex \/ RemoveCallback \/ CallbackRemoved \/ EndProgram
    BY <1>6 DEF ConstructPivotThrows, BeginThrows, AddCallback, AddCallbackThrows,
                CallbackAdded, AllAdded, Waited, CommandEnds, CommandCancelled, Rethrow,
                TriggeredIndex, RemoveCallback, CallbackRemoved, EndProgram
  <1> QED
    BY <1>1, <1>2, <1>3, <1>4, <1>5, <1>6 DEF UserStep

LEMMA NextInTree ==
    ASSUME Inv, RoutineInv, [Next]_vars
    PROVE  [ScopeNext]_scopeVars
  <1>1. CASE UserStep
    BY <1>1, UserStepInTree
  <1>2. CASE ThreadLoop
    BY <1>2, RunnerStepInTree DEF ThreadLoop
  <1>3. CASE LookAtFrame
    <2>1. place = "run" /\ TopIs(worker, "held")
      BY <1>3 DEF LookAtFrame, HasRun, RunnerMoves
    <2>2. Top(worker).node = runner
      BY <2>1, WorkerStack DEF RoutineInv
    <2>3. sub \in alive
      BY <2>1 DEF RoutineInv, CallbacksOK, NodesOK
    <2>4. \/ UNCHANGED scopeVars
          \/ \E e \in Exceptions \cup {NoException} : CallCancel(worker, sub, e)
      BY <1>3 DEF LookAtFrame
    <2> QED
      BY <2>2, <2>3, <2>4, CancelInTree, NamesDiffer
  <1>4. CASE StopProgram
    BY <1>4, CancelInTree, NamesDiffer DEF StopProgram, RoutineInv, NodesOK
  <1>5. ASSUME NEW t \in Threads, CancelStep(t)
        PROVE  [ScopeNext]_scopeVars
    BY <1>5 DEF CancelStep, RunnerCancelled, CancelReturns, ScopeNext, ScopeStep
  <1>6. CASE Tick
    BY <1>6 DEF Tick
  <1>7. CASE UNCHANGED vars
    BY <1>7 DEF vars
  <1> QED
    BY <1>1, <1>2, <1>3, <1>4, <1>5, <1>6, <1>7 DEF Next

-----------------------------------------------------------------------------
(* Steps of the program's thread.                                          *)

LEMMA CallersStay ==
    ASSUME Inv, CallersOK, UNCHANGED calls,
           \A t \in Threads : \/ waiting'[t] = NoScope
                              \/ waiting'[t] = waiting[t] /\ (at = "waiting" => at' = "waiting")
                              \/ t = user /\ waiting'[t] = sub /\ at' = "waiting",
           at = "join" => at' = "join" \/ calls[user] = <<>>
    PROVE  CallersOK'
  <1> SUFFICES ASSUME NEW t \in Threads
               PROVE  /\ waiting'[t] # NoScope => t = user /\ waiting'[t] = sub /\ at' = "waiting"
                      /\ Depth(t) > 0 =>
                            \/ t = user /\ at' = "join" /\ calls[t][1].node = runner
                            \/ t = stopper /\ calls[t][1].node = root
                            \/ t = worker /\ calls[t][1].node = runner
    BY DEF CallersOK, Depth
  <1>1. waiting[t] # NoScope => t = user /\ waiting[t] = sub /\ at = "waiting"
    BY DEF CallersOK
  <1>2. /\ Depth(t) \in Nat /\ (calls[t] = <<>> <=> Depth(t) = 0)
        /\ Depth(t) > 0 =>
              \/ t = user /\ at = "join" /\ calls[t][1].node = runner
              \/ t = stopper /\ calls[t][1].node = root
              \/ t = worker /\ calls[t][1].node = runner
    BY StackIsFrames DEF CallersOK
  <1> QED
    BY <1>1, <1>2

LEMMA UserKeeps ==
    ASSUME Inv, RoutineInv, NodesOK',
           UNCHANGED <<m_scheduler, place, event, is_back_to_back, calls, program, m_map>>,
           UNCHANGED pivotVars, to_add' \subseteq Events,
           m_map # {} => InRoutine' /\ at' # "leave",
           \A t \in Threads : \/ waiting'[t] = NoScope
                              \/ waiting'[t] = waiting[t] /\ (at = "waiting" => at' = "waiting")
                              \/ t = user /\ waiting'[t] = sub /\ at' = "waiting",
           at = "join" => at' = "join" \/ calls[user] = <<>>
    PROVE  RoutineInv'
  <1> USE DEF RoutineInv, pivotVars
  <1>1. CallersOK'
    BY CallersStay
  <1>2. WorkerOK'
    BY DEF WorkerOK, Depth
  <1>3. CallbacksOK'
    BY DEF CallbacksOK
  <1>4. SchedulerOK(m_scheduler)' /\ OvertakenOK'
    BY DEF OvertakenOK, SchedulerOK, Sorted, OnceIn, InOrder, Key, KeyOf
  <1>5. FramesOK'
    BY DEF FramesOK
  <1> QED
    BY <1>1, <1>2, <1>3, <1>4, <1>5

LEMMA QuietKeeps ==
    ASSUME Inv, RoutineInv,
           \/ ConstructPivotThrows \/ BeginThrows \/ AddCallback \/ AddCallbackThrows
           \/ AllAdded \/ Waited \/ CommandEnds \/ CommandCancelled \/ Rethrow
           \/ TriggeredIndex \/ RemoveCallback \/ EndProgram
    PROVE  RoutineInv'
  <1> USE DEF RoutineInv, scopeVars, runnerVars, UserMoves
  <1>1. waiting[user] # NoScope => at = "waiting"
    BY NamesDiffer DEF CallersOK
  <1>2. \A t \in Threads \ {user} : waiting[t] = NoScope
    BY DEF CallersOK
  <1>3. CASE ConstructPivotThrows \/ BeginThrows \/ EndProgram
    <2> USE <1>3 DEF ConstructPivotThrows, BeginThrows, EndProgram
    <2>1. NodesOK'
      BY DEF NodesOK, InRoutine
    <2> QED
      BY <1>2, <2>1, UserKeeps DEF CallbacksOK, InRoutine
  <1>4. CASE AddCallback \/ RemoveCallback \/ AddCallbackThrows \/ AllAdded
    <2> USE <1>4 DEF AddCallback, RemoveCallback, AddCallbackThrows, AllAdded, AskForLock
    <2>1. NodesOK'
      BY DEF NodesOK, InRoutine
    <2> QED
      BY <1>2, <2>1, UserKeeps DEF CallbacksOK, InRoutine
  <1>5. CASE Waited \/ CommandEnds \/ CommandCancelled \/ Rethrow \/ TriggeredIndex
    <2> USE <1>5 DEF Waited, CommandEnds, CommandCancelled, Rethrow, TriggeredIndex
    <2>1. NodesOK'
      BY DEF NodesOK, InRoutine
    <2> QED
      BY <1>1, <1>2, <2>1, UserKeeps DEF CallbacksOK, InRoutine
  <1> QED
    BY <1>3, <1>4, <1>5

LEMMA PlacesKept ==
    ASSUME Inv, NodesOK, NEW n \in Nodes,
           \/ Destroyed(n) \/ \E t \in Threads : Detach(t, n)
           \/ n \in {sub, runner} /\ \E t \in Threads : Attach(t, n, root)
    PROVE  /\ \A m \in attached' : m \in {sub, runner} /\ m_scope'[m] = root
           /\ UNCHANGED <<calls, lock, waiting>>
           /\ \A m \in Nodes \ {n} : m \in alive' <=> m \in alive
           /\ attached' \subseteq attached \cup {n}
  <1>1. m_scope \in [Nodes -> Scopes \cup {NoScope}] /\ attached \subseteq Nodes
    BY DEF Inv, ScopeTypeOK
  <1>2. \A m \in attached : m \in {sub, runner} /\ m_scope[m] = root
    BY DEF NodesOK
  <1>3. CASE Destroyed(n) \/ \E t \in Threads : Detach(t, n)
    BY <1>1, <1>2, <1>3 DEF Destroyed, Detach
  <1>4. CASE n \in {sub, runner} /\ \E t \in Threads : Attach(t, n, root)
    BY <1>1, <1>2, <1>4 DEF Attach, Constructed
  <1> QED
    BY <1>3, <1>4

LEMMA TreeStepKeeps ==
    ASSUME Inv, RoutineInv,
           \/ ConstructPivot \/ Begin \/ LeaveScope \/ EndRoutine \/ DetachPivot \/ Joined
           \/ Wait \/ TimedOut
    PROVE  RoutineInv'
  <1> USE DEF RoutineInv, runnerVars, UserMoves
  <1>1. waiting[user] # NoScope => at = "waiting"
    BY NamesDiffer DEF CallersOK
  <1>2. \A t \in Threads \ {user} : waiting[t] = NoScope
    BY DEF CallersOK
  <1>3. program.callbacks \subseteq Events
    BY SessionAssumption DEF CallbacksOK
  <1>4. CASE ConstructPivot
    <2> USE <1>4 DEF ConstructPivot
    <2>1. /\ \A m \in attached' : m \in {sub, runner} /\ m_scope'[m] = root
          /\ UNCHANGED <<calls, lock, waiting>>
          /\ \A m \in Nodes \ {runner} : m \in alive' <=> m \in alive
      BY PlacesKept, NamesDiffer
    <2>2. runner \in alive'
      BY DEF Attach, Constructed
    <2>3. NodesOK'
      BY <2>1, <2>2, NamesDiffer DEF NodesOK, InRoutine
    <2> QED
      BY <1>2, <2>1, <2>3, UserKeeps DEF CallbacksOK, InRoutine
  <1>5. CASE Begin
    <2> USE <1>5 DEF Begin
    <2>1. /\ \A m \in attached' : m \in {sub, runner} /\ m_scope'[m] = root
          /\ UNCHANGED <<calls, lock, waiting>>
          /\ \A m \in Nodes \ {sub} : m \in alive' <=> m \in alive
      BY PlacesKept, NamesDiffer
    <2>2. sub \in alive'
      BY DEF Attach, Constructed
    <2>3. NodesOK'
      BY <2>1, <2>2, NamesDiffer DEF NodesOK, InRoutine
    <2> QED
      BY <1>2, <1>3, <2>1, <2>3, UserKeeps DEF CallbacksOK, InRoutine
  <1>6. CASE LeaveScope \/ DetachPivot
    <2> USE <1>6 DEF LeaveScope, DetachPivot
    <2>1. /\ \A m \in attached' : m \in {sub, runner} /\ m_scope'[m] = root
          /\ UNCHANGED <<calls, lock, waiting, alive>>
          /\ DetachPivot => runner \notin attached'
      <3>1. Detach(user, sub) \/ Detach(user, runner)
        OBVIOUS
      <3> QED
        BY <3>1, PlacesKept, NamesDiffer DEF Detach
    <2>2. NodesOK'
      BY <2>1, NamesDiffer DEF NodesOK, InRoutine
    <2> QED
      BY <1>2, <2>1, <2>2, UserKeeps DEF CallbacksOK, InRoutine
  <1>7. CASE EndRoutine
    <2> USE <1>7 DEF EndRoutine
    <2>1. /\ \A m \in attached' : m \in {sub, runner} /\ m_scope'[m] = root
          /\ UNCHANGED <<calls, lock, waiting>>
          /\ \A m \in Nodes \ {sub} : m \in alive' <=> m \in alive
      BY PlacesKept, NamesDiffer
    <2>2. sub \notin alive'
      BY DEF Destroyed
    <2>3. NodesOK'
      BY <2>1, <2>2, NamesDiffer DEF NodesOK, InRoutine
    <2> QED
      BY <1>2, <2>1, <2>3, UserKeeps DEF CallbacksOK, InRoutine
  <1>8. CASE Joined
    <2> USE <1>8 DEF Joined
    <2>1. /\ \A m \in attached' : m \in {sub, runner} /\ m_scope'[m] = root
          /\ UNCHANGED <<calls, lock, waiting>>
          /\ \A m \in Nodes \ {runner} : m \in alive' <=> m \in alive
      BY PlacesKept, NamesDiffer
    <2>2. runner \notin alive'
      BY DEF Destroyed
    <2>3. NodesOK'
      BY <2>1, <2>2, NamesDiffer DEF NodesOK, InRoutine
    <2> QED
      BY <1>2, <2>1, <2>3, UserKeeps DEF CallbacksOK, InRoutine
  <1>9. CASE Wait \/ TimedOut
    <2>1. /\ UNCHANGED <<alive, attached, m_scope, calls, m_map, program, to_add>>
          /\ at' = "waiting" /\ at \in {"wait", "waiting"}
          /\ \A t \in Threads : waiting'[t] = waiting[t] \/ waiting'[t] = NoScope
                                \/ (t = user /\ waiting'[t] = sub)
      <3>1. waiting \in [Threads -> Scopes \cup {NoScope}]
        BY DEF Inv, ScopeTypeOK
      <3> QED
        BY <1>9, <3>1, NamesDiffer DEF Wait, TimedOut, WaitIn, WaitEnds, sessionVars
    <2>2. UNCHANGED <<m_scheduler, place, event, is_back_to_back>> /\ UNCHANGED pivotVars
      BY <1>9 DEF Wait, TimedOut
    <2>3. NodesOK'
      BY <2>1 DEF NodesOK, InRoutine
    <2> QED
      BY <2>1, <2>2, <2>3, UserKeeps DEF CallbacksOK, InRoutine
  <1> QED
    BY <1>4, <1>5, <1>6, <1>7, <1>8, <1>9

-----------------------------------------------------------------------------
(* Steps of a stack: a call, a return, and a step of the frame on top.     *)

LEMMA CancelMoves ==
    ASSUME Inv, NEW t \in Threads,
           \/ SetFlag(t) \/ TakeLock(t) \/ CancelChild(t) \/ ScopeDone(t)
           \/ Return(t) \/ Leave(t)
    PROVE  /\ \A u \in Threads \ {t} : calls'[u] = calls[u]
           /\ Depth(t) \in Nat \ {0} /\ Depth(t)' \in Depth(t) - 1..Depth(t) + 1
           /\ \A i \in 1..Depth(t) : i <= Depth(t)' => calls'[t][i].node = calls[t][i].node
           /\ \A i \in 1..Depth(t) - 1 : i <= Depth(t)' => calls'[t][i].at = calls[t][i].at
           /\ Depth(t)' = Depth(t) + 1 => Top(t).node \in Scopes
           /\ UNCHANGED <<alive, attached, m_scope>>
           /\ \A u \in Threads : waiting'[u] = waiting[u] \/ waiting'[u] = NoScope
  <1>1. calls[t] # <<>>
    BY DEF SetFlag, TakeLock, CancelChild, ScopeDone, Return, Leave, TopIs
  <1>2. /\ calls \in [Threads -> Seq(Frames)] /\ Depth(t) \in Nat \ {0}
        /\ Depth(t) \in 1..Depth(t) /\ Top(t) = calls[t][Depth(t)] /\ Top(t) \in Frames
        /\ Top(t).node \in Nodes /\ Top(t).exc \in Exceptions \cup {NoException}
        /\ Top(t).todo \in SUBSET Nodes
    BY <1>1, TopInStack DEF Inv, ScopeTypeOK
  <1>3. /\ UNCHANGED <<alive, attached, m_scope>>
        /\ \A u \in Threads : waiting'[u] = waiting[u] \/ waiting'[u] = NoScope
    BY DEF SetFlag, TakeLock, CancelChild, ScopeDone, Return, Leave
  <1>4. CASE (SetFlag(t) /\ Top(t).node \notin cancelled) \/ TakeLock(t) \/ ScopeDone(t)
    <2>1. PICK f \in Frames : TopBecomes(t, f)
      BY <1>4, TopTurns
    <2>2. /\ calls' = [calls EXCEPT ![t] = [calls[t] EXCEPT ![Depth(t)] = f]]
          /\ f.node = Top(t).node
      BY <2>1 DEF TopBecomes
    <2>3. calls'[t] = [calls[t] EXCEPT ![Depth(t)] = f]
      BY <1>2, <2>2
    <2>4. /\ Len(calls'[t]) = Len(calls[t])
          /\ calls'[t][Depth(t)] = f
          /\ \A i \in 1..Depth(t) - 1 : calls'[t][i] = calls[t][i]
      <3>1. calls[t] \in Seq(Frames) /\ Depth(t) = Len(calls[t])
        BY <1>2 DEF Depth
      <3> QED
        BY <1>2, <2>3, <3>1
    <2>5. Depth(t)' = Depth(t)
      BY <2>4 DEF Depth
    <2>6. \A u \in Threads \ {t} : calls'[u] = calls[u]
      BY <1>2, <2>2
    <2> QED
      BY <1>2, <1>3, <2>2, <2>4, <2>5, <2>6
  <1>5. CASE (SetFlag(t) /\ Top(t).node \in cancelled) \/ Return(t) \/ Leave(t)
    <2>1. calls' = [calls EXCEPT ![t] = Returned(t)]
      BY <1>5 DEF SetFlag, Return, Leave
    <2>2. /\ \A u \in Threads : Depth(u)' = IF u = t THEN Depth(u) - 1 ELSE Depth(u)
          /\ \A u \in Threads : \A i \in 1..Depth(u) : i <= Depth(u)' =>
                 /\ calls'[u][i].node = calls[u][i].node
                 /\ calls'[u][i].at = calls[u][i].at
      BY <1>1, <2>1, Popped
    <2>3. \A u \in Threads \ {t} : calls'[u] = calls[u]
      BY <1>2, <2>1
    <2> QED
      BY <1>2, <1>3, <2>2, <2>3
  <1>6. CASE CancelChild(t)
    <2>1. PICK n \in Top(t).todo :
             calls' = [calls EXCEPT ![t] = Push(@, Frame(n, "flag", Top(t).exc))]
      BY <1>6 DEF CancelChild
    <2>2. Frame(n, "flag", Top(t).exc) \in Frames
      BY <1>2, <2>1, FrameIsFrame
    <2>3. /\ \A u \in Threads : Depth(u)' = IF u = t THEN Depth(u) + 1 ELSE Depth(u)
          /\ \A u \in Threads : \A i \in 1..Depth(u) : calls'[u][i] = calls[u][i]
      BY <2>1, <2>2, Pushed
    <2>4. Top(t).node \in Scopes
      <3>1. Top(t).at = "children"
        BY <1>6 DEF CancelChild, TopIs
      <3> QED
        BY <1>2, <3>1 DEF Inv, StacksOK, FrameOK
    <2>5. \A u \in Threads \ {t} : calls'[u] = calls[u]
      BY <1>2, <2>1
    <2> QED
      BY <1>2, <1>3, <2>3, <2>4, <2>5
  <1> QED
    BY <1>4, <1>5, <1>6

(* A stack that only grows by a call, or shrinks.                          *)
LEMMA CallersMove ==
    ASSUME Inv, CallersOK, NEW t \in Threads,
           at' = at \/ (at \notin {"waiting", "join"} /\ at' = "join"),
           \A u \in Threads : waiting'[u] = waiting[u] \/ waiting'[u] = NoScope,
           \A u \in Threads \ {t} : calls'[u] = calls[u],
           Depth(t)' \in Nat, Depth(t)' <= Depth(t) + 1,
           \A i \in 1..Depth(t) : i <= Depth(t)' => calls'[t][i].node = calls[t][i].node,
           Depth(t)' = Depth(t) + 1 =>
              LET n == calls'[t][Depth(t) + 1].node
              IN  /\ Depth(t) = 0 => \/ t = user /\ n = runner /\ at' = "join"
                                     \/ t = stopper /\ n = root
                                     \/ t = worker /\ n = runner
                  /\ Depth(t) > 0 /\ Top(t).node \in Leaves => t = worker /\ n = sub
    PROVE  CallersOK'
  <1> SUFFICES ASSUME NEW u \in Threads
               PROVE  /\ waiting'[u] # NoScope =>
                            u = user /\ waiting'[u] = sub /\ at' = "waiting"
                      /\ Depth(u)' > 0 =>
                            \/ u = user /\ at' = "join" /\ calls'[u][1].node = runner
                            \/ u = stopper /\ calls'[u][1].node = root
                            \/ u = worker /\ calls'[u][1].node = runner
                      /\ \A i \in 1..Depth(u)' :
                            i < Depth(u)' /\ calls'[u][i].node \in Leaves =>
                                u = worker /\ calls'[u][i + 1].node = sub
    BY DEF CallersOK
  <1>1. /\ Depth(u) \in Nat
        /\ waiting[u] # NoScope => u = user /\ waiting[u] = sub /\ at = "waiting"
        /\ Depth(u) > 0 =>
              \/ u = user /\ at = "join" /\ calls[u][1].node = runner
              \/ u = stopper /\ calls[u][1].node = root
              \/ u = worker /\ calls[u][1].node = runner
        /\ \A i \in 1..Depth(u) :
              i < Depth(u) /\ calls[u][i].node \in Leaves =>
                  u = worker /\ calls[u][i + 1].node = sub
    BY StackIsFrames DEF CallersOK
  <1>2. waiting'[u] # NoScope => u = user /\ waiting'[u] = sub /\ at' = "waiting"
    BY <1>1
  <1>3. CASE u # t
    <2>1. calls'[u] = calls[u] /\ Depth(u)' = Depth(u)
      BY <1>3 DEF Depth
    <2> QED
      BY <1>1, <1>2, <2>1
  <1>4. CASE u = t
    <2>1. Depth(u)' > 0 =>
              \/ u = user /\ at' = "join" /\ calls'[u][1].node = runner
              \/ u = stopper /\ calls'[u][1].node = root
              \/ u = worker /\ calls'[u][1].node = runner
      <3>1. CASE Depth(u) > 0
        BY <1>1, <1>4, <3>1
      <3>2. CASE Depth(u) = 0
        BY <1>1, <1>4, <3>2
      <3> QED
        BY <1>1, <3>1, <3>2
    <2>2. ASSUME NEW i \in 1..Depth(u)', i < Depth(u)', calls'[u][i].node \in Leaves
          PROVE  u = worker /\ calls'[u][i + 1].node = sub
      <3>1. i \in 1..Depth(u) /\ calls[u][i].node \in Leaves
        BY <1>1, <1>4, <2>2
      <3>2. CASE i < Depth(u)
        <4>1. i + 1 \in 1..Depth(u) /\ i + 1 <= Depth(u)'
          BY <1>1, <1>4, <2>2, <3>2
        <4> QED
          BY <1>1, <1>4, <3>1, <3>2, <4>1
      <3>3. CASE i = Depth(u)
        <4>1. Depth(t)' = Depth(t) + 1 /\ Top(t).node \in Leaves /\ Depth(t) > 0
          BY <1>1, <1>4, <2>2, <3>1, <3>3 DEF Top
        <4> QED
          BY <1>4, <3>3, <4>1
      <3> QED
        BY <1>1, <3>1, <3>2, <3>3
    <2> QED
      BY <1>2, <2>1, <2>2
  <1> QED
    BY <1>3, <1>4

(* The runner's thread gets the lock of the runner and gives it back.      *)
LEMMA EnterMoves ==
    ASSUME Inv, CallersOK, Enter(worker, runner), UNCHANGED at
    PROVE  /\ Depth(worker) = 0 /\ Depth(worker)' = 1 /\ calls'[worker][1].at = "held"
           /\ CallersOK' /\ UNCHANGED <<alive, attached, m_scope>>
  <1> DEFINE f == Frame(runner, "held", NoException)
  <1>1. f \in Frames /\ f.node = runner /\ f.at = "held"
    BY FrameIsFrame, NamesDiffer
  <1>2. /\ calls' = [calls EXCEPT ![worker] = Push(@, f)] /\ calls[worker] = <<>>
        /\ UNCHANGED <<alive, attached, m_scope, waiting>>
    BY DEF Enter, Idle
  <1> HIDE DEF f
  <1>3. Depth(worker) = 0
    BY <1>2, StackIsFrames, NamesDiffer
  <1>4. /\ \A u \in Threads : Depth(u)' = IF u = worker THEN Depth(u) + 1 ELSE Depth(u)
        /\ calls'[worker][Depth(worker) + 1] = f
    BY <1>1, <1>2, Pushed, NamesDiffer
  <1>5. Depth(worker)' = 1 /\ calls'[worker][1] = f
    BY <1>3, <1>4, NamesDiffer
  <1>6. \A u \in Threads \ {worker} : calls'[u] = calls[u]
    BY <1>2 DEF Inv, ScopeTypeOK
  <1>7. CallersOK'
    BY <1>1, <1>2, <1>3, <1>5, <1>6, CallersMove, NamesDiffer
  <1> QED
    BY <1>1, <1>2, <1>3, <1>5, <1>7

LEMMA LeaveMoves ==
    ASSUME Inv, NodesOK, CallersOK, WorkerOK, Leave(worker), UNCHANGED at
    PROVE  /\ Depth(worker) = 1 /\ Depth(worker)' = 0
           /\ CallersOK' /\ UNCHANGED <<alive, attached, m_scope>>
  <1>1. calls[worker] # <<>> /\ TopIs(worker, "held")
    BY DEF Leave, TopIs
  <1>2. Depth(worker) = 1
    BY <1>1, WorkerStack
  <1>3. calls' = [calls EXCEPT ![worker] = Returned(worker)]
    BY DEF Leave
  <1>4. Depth(worker)' = 0
    <2>1. \A u \in Threads : Depth(u)' = IF u = worker THEN Depth(u) - 1 ELSE Depth(u)
      BY <1>1, <1>3, Popped, NamesDiffer
    <2> QED
      BY <1>2, <2>1, NamesDiffer
  <1>5. \A u \in Threads \ {worker} : calls'[u] = calls[u]
    BY <1>3 DEF Inv, ScopeTypeOK
  <1>6. UNCHANGED <<alive, attached, m_scope, waiting>>
    BY DEF Leave
  <1>7. CallersOK'
    BY <1>2, <1>4, <1>5, <1>6, CallersMove, NamesDiffer
  <1> QED
    BY <1>2, <1>4, <1>6, <1>7

(* A cancel() in any thread, or a new one.                                 *)
LEMMA CallsKeep ==
    ASSUME Inv, RoutineInv, CallersOK', WorkerOK',
           UNCHANGED <<alive, attached, m_scope, m_scheduler, place, event, is_back_to_back,
                       program, to_add, m_map>>,
           UNCHANGED pivotVars,
           at' = at \/ (at = "stop thread" /\ at' = "join")
    PROVE  RoutineInv'
  <1> USE DEF RoutineInv, pivotVars
  <1>1. NodesOK'
    BY DEF NodesOK, InRoutine
  <1>2. CallbacksOK'
    BY DEF CallbacksOK, InRoutine
  <1>3. SchedulerOK(m_scheduler)'
    BY DEF SchedulerOK, Sorted, OnceIn, Key, KeyOf
  <1>4. OvertakenOK'
    BY DEF OvertakenOK, InOrder, Key, KeyOf
  <1>5. FramesOK'
    BY DEF FramesOK
  <1> QED
    BY <1>1, <1>2, <1>3, <1>4, <1>5

LEMMA CancelStepKeeps ==
    ASSUME Inv, RoutineInv, NEW t \in Threads, CancelStep(t)
    PROVE  RoutineInv'
  <1> USE DEF RoutineInv
  <1>1. \/ SetFlag(t) \/ TakeLock(t) \/ CancelChild(t) \/ ScopeDone(t)
        \/ Return(t) \/ Leave(t)
    BY DEF CancelStep, RunnerCancelled, CancelReturns
  <1>2. UNCHANGED <<m_scheduler, place, event, is_back_to_back, program, to_add, m_map, at>>
    BY DEF CancelStep, RunnerCancelled, CancelReturns, runnerVars, sessionVars
  <1>3. UNCHANGED pivotVars
    BY DEF CancelStep, RunnerCancelled, CancelReturns
  <1>4. /\ \A u \in Threads \ {t} : calls'[u] = calls[u]
        /\ Depth(t) \in Nat \ {0} /\ Depth(t)' \in Depth(t) - 1..Depth(t) + 1
        /\ \A i \in 1..Depth(t) : i <= Depth(t)' => calls'[t][i].node = calls[t][i].node
        /\ \A i \in 1..Depth(t) - 1 : i <= Depth(t)' => calls'[t][i].at = calls[t][i].at
        /\ Depth(t)' = Depth(t) + 1 => Top(t).node \in Scopes
        /\ UNCHANGED <<alive, attached, m_scope>>
        /\ \A u \in Threads : waiting'[u] = waiting[u] \/ waiting'[u] = NoScope
    BY <1>1, CancelMoves
  <1>5. CallersOK'
    <2>1. Depth(t)' \in Nat /\ Depth(t)' <= Depth(t) + 1
      BY <1>4
    <2> QED
      BY <1>2, <1>4, <2>1, CallersMove, NamesDiffer
  <1>6. WorkerOK'
    <2>1. CASE t # worker
      <3>1. calls'[worker] = calls[worker] /\ Depth(worker)' = Depth(worker)
        BY <1>4, <2>1, NamesDiffer DEF Depth
      <3> QED
        BY <1>2, <3>1 DEF WorkerOK
    <2>2. CASE t = worker
      <3>1. ~ TopIs(worker, "held")
        <4>1. CASE Leave(worker)
          BY <2>2, <4>1 DEF CancelStep, RunnerCancelled, CancelReturns, SetFlag, TakeLock,
                            CancelChild, ScopeDone, Return, Leave, TopIs
        <4>2. CASE ~ Leave(worker)
          BY <1>1, <2>2, <4>2 DEF SetFlag, TakeLock, CancelChild, ScopeDone, Return, TopIs
        <4> QED
          BY <4>1, <4>2
      <3>2. Depth(worker) # 1
        <4> SUFFICES ASSUME Depth(worker) = 1
                     PROVE  FALSE
          OBVIOUS
        <4>1. calls[worker] # <<>> /\ Top(worker).at = "held"
          BY StackIsFrames, NamesDiffer DEF WorkerOK, Top
        <4> QED
          BY <3>1, <4>1 DEF TopIs
      <3>3. Depth(worker) > 1 /\ Depth(worker)' > 0 /\ Depth(worker) \in Nat
        BY <1>4, <2>2, <3>2
      <3>4. calls'[worker][1].at = calls[worker][1].at
        BY <1>4, <2>2, <3>3
      <3>5. /\ place \notin {"none", "start", "yield", "sleep", "over"}
            /\ place \notin {"request", "run", "none due", "to sleep"}
            /\ calls[worker][1].at = "held" /\ m_map # {}
        <4>1. Depth(worker) # 0 /\ Depth(worker) # 1 /\ Depth(worker) > 0
          BY <3>3
        <4> HIDE DEF RoutineInv
        <4>2. WorkerOK
          BY DEF RoutineInv
        <4> QED
          BY <3>3, <4>1, <4>2 DEF WorkerOK
      <3>6. place' = place /\ m_map' = m_map /\ Depth(worker)' \in Nat
        BY <1>2, <1>4, <2>2, <3>3
      <3> QED
        BY <3>3, <3>4, <3>5, <3>6 DEF WorkerOK
    <2> QED
      BY <2>1, <2>2
  <1> QED
    BY <1>2, <1>3, <1>4, <1>5, <1>6, CallsKeep

(* Somebody calls a cancel().                                              *)
LEMMA StopsKeep ==
    ASSUME Inv, RoutineInv, StopThread \/ StopProgram
    PROVE  RoutineInv'
  <1> USE DEF RoutineInv
  <1>1. PICK t \in {user, stopper}, n \in {root, runner}, e \in Exceptions \cup {NoException} :
          /\ CallCancel(t, n, e) /\ calls[t] = <<>>
          /\ \/ t = user /\ n = runner /\ at = "stop thread" /\ at' = "join"
             \/ t = stopper /\ n = root /\ at' = at
    <2>1. CASE StopThread
      <3>1. CallCancel(user, runner, NoException) /\ at = "stop thread" /\ at' = "join"
        BY <2>1 DEF StopThread, UserMoves
      <3>2. calls[user] = <<>>
        <4>1. Depth(user) \in Nat /\ (calls[user] = <<>> <=> Depth(user) = 0)
          BY StackIsFrames, NamesDiffer
        <4>2. ~ (Depth(user) > 0)
          BY <3>1, NamesDiffer DEF CallersOK
        <4> QED
          BY <4>1, <4>2
      <3> QED
        BY <3>1, <3>2
    <2>2. CASE StopProgram
      BY <2>2 DEF StopProgram, sessionVars
    <2> QED
      BY <2>1, <2>2
  <1>2. t \in Threads /\ t # worker
    BY NamesDiffer
  <1>3. UNCHANGED <<m_scheduler, place, event, is_back_to_back, program, to_add, m_map>>
    BY DEF StopThread, StopProgram, runnerVars, sessionVars
  <1>4. UNCHANGED pivotVars
    BY DEF StopThread, StopProgram
  <1> DEFINE f == Frame(n, "flag", e)
  <1>5. f \in Frames /\ f.node = n
    BY FrameIsFrame, NamesDiffer
  <1>6. /\ calls' = [calls EXCEPT ![t] = Push(@, f)]
        /\ UNCHANGED <<alive, attached, m_scope, waiting>>
    BY <1>1 DEF CallCancel
  <1> HIDE DEF f
  <1>7. Depth(t) = 0
    BY <1>1, <1>2, StackIsFrames
  <1>8. /\ \A u \in Threads : Depth(u)' = IF u = t THEN Depth(u) + 1 ELSE Depth(u)
        /\ calls'[t][Depth(t) + 1] = f
    BY <1>2, <1>5, <1>6, Pushed
  <1>9. \A u \in Threads \ {t} : calls'[u] = calls[u]
    BY <1>6 DEF Inv, ScopeTypeOK
  <1>10. CallersOK'
    <2>1. Depth(t)' = Depth(t) + 1 /\ calls'[t][Depth(t) + 1].node = n
      BY <1>2, <1>5, <1>8
    <2>2. Depth(t)' \in Nat /\ Depth(t)' <= Depth(t) + 1
      BY <1>7, <2>1
    <2>3. at' = at \/ (at \notin {"waiting", "join"} /\ at' = "join")
      BY <1>1
    <2>4. \A i \in 1..Depth(t) : i <= Depth(t)' => calls'[t][i].node = calls[t][i].node
      BY <1>7
    <2>5. \A u \in Threads : waiting'[u] = waiting[u] \/ waiting'[u] = NoScope
      BY <1>6
    <2>6. \/ t = user /\ n = runner /\ at' = "join"
          \/ t = stopper /\ n = root
      BY <1>1
    <2> QED
      BY <1>2, <1>7, <1>9, <2>1, <2>2, <2>3, <2>4, <2>5, <2>6, CallersMove
  <1>11. WorkerOK'
    <2>1. calls'[worker] = calls[worker] /\ Depth(worker)' = Depth(worker)
      BY <1>2, <1>9, NamesDiffer DEF Depth
    <2> QED
      BY <1>3, <2>1 DEF WorkerOK
  <1> QED
    BY <1>1, <1>3, <1>4, <1>6, <1>10, <1>11, CallsKeep

-----------------------------------------------------------------------------
(* Steps of the scheduler.                                                 *)

(* What keeps the order of the events keeps that of who was overtaken.     *)
LEMMA OrderStays ==
    ASSUME CallbacksOK, OvertakenOK, SchedulerOK(m_scheduler)', m_map \subseteq m_map',
           UNCHANGED overtaken,
           \A f, g \in DOMAIN m_scheduler.events :
               InOrder(m_scheduler.schedule, KeyOf(m_scheduler, f), KeyOf(m_scheduler, g))
               => InOrder(m_scheduler'.schedule,
                          KeyOf(m_scheduler', f), KeyOf(m_scheduler', g))
    PROVE  OvertakenOK'
  <1>1. overtaken' \subseteq m_map' \X m_map'
    BY DEF OvertakenOK
  <1>2. ASSUME NEW o \in overtaken
        PROVE  InOrder(m_scheduler'.schedule,
                       KeyOf(m_scheduler', o[2]), KeyOf(m_scheduler', o[1]))
    <2>1. o[1] \in DOMAIN m_scheduler.events /\ o[2] \in DOMAIN m_scheduler.events
      BY DEF OvertakenOK, CallbacksOK
    <2> QED
      BY <2>1 DEF OvertakenOK
  <1> QED
    BY <1>1, <1>2 DEF OvertakenOK

LEMMA AddedKeeps ==
    ASSUME Inv, RoutineInv, CallbackAdded
    PROVE  RoutineInv'
  <1> USE DEF RoutineInv
  <1>1. PICK e \in to_add, p \in Periods :
          AddEventLocked(e, p) /\ m_map' = m_map \cup {e} /\ to_add' = to_add \ {e}
    BY DEF CallbackAdded
  <1>2. /\ at = "adding" /\ at' = "add" /\ UNCHANGED scopeVars /\ UNCHANGED program
        /\ UNCHANGED pivotVars
    BY DEF CallbackAdded, UserMoves
  <1>3. /\ m_scheduler' = AddEvent(m_scheduler, e, p)
        /\ place' = IF place = "none" THEN "start" ELSE place
        /\ UNCHANGED <<event, is_back_to_back>>
    BY <1>1 DEF AddEventLocked
  <1>4. e \in Events
    BY DEF CallbacksOK
  <1>5. /\ SchedulerOK(m_scheduler')
        /\ DOMAIN m_scheduler'.events = DOMAIN m_scheduler.events \cup {e}
        /\ \A f, g \in DOMAIN m_scheduler.events :
              InOrder(m_scheduler.schedule, KeyOf(m_scheduler, f), KeyOf(m_scheduler, g))
              => InOrder(m_scheduler'.schedule,
                         KeyOf(m_scheduler', f), KeyOf(m_scheduler', g))
    BY <1>3, <1>4, AddEventKeeps
  <1>6. NodesOK'
    BY <1>2 DEF NodesOK, InRoutine, scopeVars
  <1>7. CallersOK'
    <2>1. \A t \in Threads : waiting'[t] = NoScope
      BY <1>2 DEF CallersOK, scopeVars
    <2> QED
      BY <1>2, <2>1, CallersStay DEF scopeVars
  <1>8. WorkerOK'
    <2>1. Depth(worker)' = Depth(worker) /\ calls' = calls
      BY <1>2 DEF Depth, scopeVars
    <2> QED
      BY <1>1, <1>3, <2>1 DEF WorkerOK
  <1>9. CallbacksOK'
    BY <1>1, <1>2, <1>3, <1>5 DEF CallbacksOK, InRoutine
  <1>10. OvertakenOK'
    BY <1>1, <1>2, <1>5, OrderStays DEF pivotVars
  <1>11. FramesOK'
    BY <1>2, <1>3 DEF FramesOK, pivotVars
  <1> QED
    BY <1>5, <1>6, <1>7, <1>8, <1>9, <1>10, <1>11

LEMMA RemovedKeeps ==
    ASSUME Inv, RoutineInv, CallbackRemoved
    PROVE  RoutineInv'
  <1> USE DEF RoutineInv
  <1>1. PICK e \in m_map :
          /\ RemoveEventLocked(e) /\ m_map' = m_map \ {e}
          /\ overtaken' = {o \in overtaken : e \notin {o[1], o[2]}}
    BY DEF CallbackRemoved
  <1>2. /\ at = "clearing" /\ at' = "clear" /\ UNCHANGED scopeVars
        /\ UNCHANGED <<program, to_add, has_slept>>
    BY DEF CallbackRemoved, UserMoves
  <1>3. /\ m_scheduler' = RemoveEvent(m_scheduler, e)
        /\ UNCHANGED <<place, event, is_back_to_back>>
        /\ lock[runner] = NoThread
    BY <1>1 DEF RemoveEventLocked
  <1>4. Depth(worker) = 0
    <2>1. Depth(worker) \in Nat
      BY StackIsFrames, NamesDiffer
    <2>2. lock[runner] # worker
      BY <1>3, NamesDiffer
    <2> QED
      BY <2>1, <2>2, WorkerLocks
  <1>4a. place \notin {"request", "run", "none due", "to sleep", "top"}
    <2> HIDE DEF RoutineInv
    <2>1. Depth(worker) # 1 /\ ~ (Depth(worker) > 0)
      BY <1>4
    <2>2. WorkerOK
      BY DEF RoutineInv
    <2> QED
      BY <2>1, <2>2 DEF WorkerOK
  <1>5. /\ SchedulerOK(m_scheduler')
        /\ DOMAIN m_scheduler'.events = DOMAIN m_scheduler.events \ {e}
        /\ m_scheduler'.schedule = m_scheduler.schedule
        /\ \A f \in DOMAIN m_scheduler.events \ {e} :
              KeyOf(m_scheduler', f) = KeyOf(m_scheduler, f)
    BY <1>3, RemoveEventKeeps
  <1>6. NodesOK'
    BY <1>2 DEF NodesOK, InRoutine, scopeVars
  <1>7. CallersOK'
    <2>1. \A t \in Threads : waiting'[t] = NoScope
      BY <1>2 DEF CallersOK, scopeVars
    <2> QED
      BY <1>2, <2>1, CallersStay DEF scopeVars
  <1>8. WorkerOK'
    <2>1. Depth(worker)' = 0 /\ place' = place
      BY <1>2, <1>3, <1>4 DEF Depth, scopeVars
    <2>2. ~ (Depth(worker)' > 0) /\ ~ (Depth(worker)' > 1)
      BY <2>1
    <2> QED
      BY <1>4a, <2>1, <2>2 DEF WorkerOK
  <1>9. CallbacksOK'
    <2>1. place # "run"
      BY <1>4a
    <2> QED
      BY <1>1, <1>2, <1>3, <1>5, <2>1 DEF CallbacksOK, InRoutine
  <1>10. OvertakenOK'
    <2>1. overtaken' \subseteq m_map' \X m_map'
      BY <1>1 DEF OvertakenOK
    <2>2. ASSUME NEW o \in overtaken'
          PROVE  InOrder(m_scheduler'.schedule,
                         KeyOf(m_scheduler', o[2]), KeyOf(m_scheduler', o[1]))
      <3>1. /\ o \in overtaken
            /\ o[1] \in DOMAIN m_scheduler.events \ {e}
            /\ o[2] \in DOMAIN m_scheduler.events \ {e}
        BY <1>1, <2>2 DEF OvertakenOK, CallbacksOK
      <3> QED
        BY <1>5, <3>1 DEF OvertakenOK
    <2> QED
      BY <2>1, <2>2 DEF OvertakenOK
  <1>11. FramesOK'
    BY <1>2, <1>3 DEF FramesOK
  <1> QED
    BY <1>5, <1>6, <1>7, <1>8, <1>9, <1>10, <1>11

LEMMA TickKeeps ==
    ASSUME Inv, RoutineInv, Tick, UNCHANGED sessionVars, UNCHANGED pivotVars
    PROVE  RoutineInv'
  <1> USE DEF RoutineInv
  <1>1. /\ m_scheduler' = TimePasses(m_scheduler)
        /\ UNCHANGED scopeVars /\ UNCHANGED <<place, event, is_back_to_back>>
    BY DEF Tick
  <1>2. UNCHANGED <<at, program, to_add, m_map>>
    BY DEF sessionVars
  <1>3. /\ SchedulerOK(m_scheduler') /\ m_scheduler'.events = m_scheduler.events
        /\ \A f, g \in DOMAIN m_scheduler.events :
              InOrder(m_scheduler.schedule, KeyOf(m_scheduler, f), KeyOf(m_scheduler, g))
              => InOrder(m_scheduler'.schedule,
                         KeyOf(m_scheduler', f), KeyOf(m_scheduler', g))
    <2>1. \A f : KeyOf(TimePasses(m_scheduler), f) = KeyOf(m_scheduler, f)
      BY TimeKeeps DEF KeyOf
    <2> QED
      BY <1>1, <2>1, TimeKeeps
  <1>4. NodesOK'
    BY <1>1, <1>2 DEF NodesOK, InRoutine, scopeVars
  <1>5. CallersOK' /\ WorkerOK'
    BY <1>1, <1>2 DEF CallersOK, WorkerOK, Depth, scopeVars
  <1>6. CallbacksOK'
    BY <1>1, <1>2, <1>3 DEF CallbacksOK, InRoutine
  <1>7. OvertakenOK'
    BY <1>2, <1>3, OrderStays DEF pivotVars
  <1>8. FramesOK'
    BY <1>1 DEF FramesOK, pivotVars
  <1> QED
    BY <1>3, <1>4, <1>5, <1>6, <1>7, <1>8

-----------------------------------------------------------------------------
(* Steps of the runner's thread.                                           *)

(* The lock is taken or given back, or kept.                               *)
LEMMA LoopKeeps ==
    ASSUME Inv, RoutineInv, ThreadLoop, ~ RequestEvent
    PROVE  RoutineInv'
  <1> USE DEF RoutineInv
  <1>1. /\ UNCHANGED <<at, program, to_add, m_map, up_to_date>>
        /\ has_slept' = (has_slept \/ place' = "sleep")
        /\ RunnerStep
    BY DEF ThreadLoop, sessionVars
  <1>2. UNCHANGED <<m_scheduler, event, is_back_to_back>> /\ place # "request"
    BY <1>1 DEF RunnerStep, Start, Stop, Yield, DoNotYield, YieldAgain, YieldOver,
                NotStopped, Sleep, WakeUp, RunnerMoves
  <1>3. overtaken' = overtaken
    BY <1>2 DEF ThreadLoop
  <1>4. /\ CallersOK' /\ UNCHANGED <<alive, attached, m_scope>>
        /\ \/ Depth(worker)' = 0 /\ place' \in {"yield", "sleep", "over"}
           \/ /\ Depth(worker)' = 1 /\ calls'[worker][1].at = "held"
              /\ place' \in {"top", "request", "to sleep"}
        /\ place' \in {"to sleep", "sleep"} => place \in {"none due", "to sleep", "sleep"}
    <2>1. CASE Start \/ YieldOver \/ WakeUp
      <3>1. Enter(worker, runner) /\ place' \in {"top", "request"}
        BY <2>1 DEF Start, YieldOver, WakeUp, RunnerMoves
      <3> QED
        BY <1>1, <3>1, EnterMoves
    <2>2. CASE Stop \/ Yield \/ Sleep
      <3>1. /\ Leave(worker) /\ place' \in {"yield", "sleep", "over"}
            /\ place' = "sleep" => place = "to sleep"
        BY <2>2 DEF Stop, Yield, Sleep, RunnerMoves
      <3> QED
        BY <1>1, <3>1, LeaveMoves
    <2>3. CASE DoNotYield \/ YieldAgain \/ NotStopped
      <3>1. UNCHANGED scopeVars
        BY <2>3 DEF DoNotYield, YieldAgain, NotStopped
      <3>2. CallersOK' /\ Depth(worker)' = Depth(worker)
        BY <1>1, <3>1 DEF CallersOK, Depth, scopeVars
      <3>3. CASE DoNotYield
        <4>1. Depth(worker) = 1
          BY <3>3, WorkerStack DEF DoNotYield
        <4>2. Depth(worker) > 0
          BY <4>1
        <4>3. calls[worker][1].at = "held" /\ place' = "request"
          BY <3>3, <4>2 DEF WorkerOK, DoNotYield, RunnerMoves
        <4> QED
          BY <3>1, <3>2, <4>1, <4>3 DEF scopeVars
      <3>4. CASE YieldAgain
        <4>1. place = "yield" /\ place' = "yield"
          BY <3>4 DEF YieldAgain
        <4>2. Depth(worker) = 0
          BY <4>1 DEF WorkerOK
        <4> QED
          BY <3>1, <3>2, <4>1, <4>2 DEF scopeVars
      <3>5. CASE NotStopped
        <4>1. place = "none due" /\ place' = "to sleep"
          BY <3>5 DEF NotStopped, RunnerMoves
        <4>2. Depth(worker) = 1
          BY <4>1 DEF WorkerOK
        <4>3. Depth(worker) > 0
          BY <4>2
        <4>4. calls[worker][1].at = "held"
          BY <4>3 DEF WorkerOK
        <4> QED
          BY <3>1, <3>2, <4>1, <4>2, <4>4 DEF scopeVars
      <3> QED
        BY <2>3, <3>3, <3>4, <3>5
    <2> QED
      BY <1>1, <2>1, <2>2, <2>3 DEF RunnerStep
  <1>5. NodesOK'
    BY <1>1, <1>4 DEF NodesOK, InRoutine
  <1>6. WorkerOK'
    <2>1. CASE Depth(worker)' = 0 /\ place' \in {"yield", "sleep", "over"}
      <3>1. ~ (Depth(worker)' > 0) /\ ~ (Depth(worker)' > 1)
        BY <2>1
      <3> QED
        BY <2>1, <3>1 DEF WorkerOK
    <2>2. CASE /\ Depth(worker)' = 1 /\ calls'[worker][1].at = "held"
               /\ place' \in {"top", "request", "to sleep"}
      <3>1. Depth(worker)' > 0 /\ ~ (Depth(worker)' > 1)
        <4>1. Depth(worker)' = 1
          BY <2>2
        <4> QED
          BY <4>1
      <3> QED
        BY <2>2, <3>1 DEF WorkerOK
    <2> QED
      BY <1>4, <2>1, <2>2
  <1>7. CallbacksOK'
    <2>1. place' # "run"
      BY <1>4
    <2> QED
      BY <1>1, <1>2, <2>1 DEF CallbacksOK, InRoutine
  <1>8. SchedulerOK(m_scheduler)'
    BY <1>2 DEF SchedulerOK, Sorted, OnceIn, Key, KeyOf
  <1>9. OvertakenOK'
    BY <1>1, <1>2, <1>3 DEF OvertakenOK, InOrder, Key, KeyOf
  <1>10. FramesOK'
    <2>1. /\ place' \in {"to sleep", "sleep"} => ~ is_back_to_back
          /\ place' # "none due" /\ has_slept' \in BOOLEAN
      BY <1>1, <1>4 DEF FramesOK
    <2>2. is_back_to_back => ~ has_slept'
      BY <1>1, <2>1 DEF FramesOK
    <2> QED
      BY <1>2, <2>1, <2>2 DEF FramesOK
  <1> QED
    BY <1>4, <1>5, <1>6, <1>7, <1>8, <1>9, <1>10

LEMMA DueIsDue ==
    ASSUME NEW e \in Events, IsDue(e)
    PROVE  e \in DOMAIN m_scheduler.events /\ DueIn(m_scheduler, e)
  BY DEF IsDue, Current, HasEvent, DueIn, Key, KeyOf

(* Whoever is run comes after those that are due, whom it has not          *)
(* overtaken before.                                                       *)
LEMMA RequestOvertakes ==
    ASSUME CallbacksOK, OvertakenOK, SchedulerOK(m_scheduler), RequestEvent, ThreadLoop
    PROVE  /\ SchedulerOK(m_scheduler)' /\ m_scheduler'.events = m_scheduler.events
           /\ OvertakenOK'
           /\ place' = "run" => /\ event' \in m_map
                                /\ Overtakes(event') \cap overtaken = {}
  <1>1. /\ m_scheduler' = RequestNextEvent(m_scheduler).then
        /\ event' = RequestNextEvent(m_scheduler).event
        /\ place = "request"
        /\ place' = IF event' # NoEvent THEN "run" ELSE "none due"
    BY DEF RequestEvent
  <1>2. /\ SchedulerOK(m_scheduler') /\ m_scheduler'.events = m_scheduler.events
        /\ event' \in DOMAIN m_scheduler.events \cup {NoEvent}
        /\ event' # NoEvent => \A f \in DOMAIN m_scheduler.events \ {event'} :
              /\ ~ InOrder(m_scheduler.schedule,
                           KeyOf(m_scheduler, f), KeyOf(m_scheduler, event'))
              /\ DueIn(m_scheduler, f) =>
                    InOrder(m_scheduler'.schedule,
                            KeyOf(m_scheduler, f), KeyOf(m_scheduler, event'))
        /\ \A f, g \in DOMAIN m_scheduler.events \ {event'} :
              InOrder(m_scheduler.schedule, KeyOf(m_scheduler, f), KeyOf(m_scheduler, g))
              => InOrder(m_scheduler'.schedule,
                         KeyOf(m_scheduler, f), KeyOf(m_scheduler, g))
    BY <1>1, RequestKeeps
  <1>3. \A f : KeyOf(m_scheduler', f) = KeyOf(m_scheduler, f)
    BY <1>2 DEF KeyOf
  <1>4. /\ m_map = DOMAIN m_scheduler.events /\ m_map \subseteq Events /\ m_map' = m_map
        /\ NoEvent \notin m_map
    BY NamesDiffer DEF CallbacksOK, SchedulerOK, ThreadLoop, sessionVars
  <1>5. \A o \in overtaken :
           /\ o[1] \in m_map /\ o[2] \in m_map /\ o = <<o[1], o[2]>>
           /\ InOrder(m_scheduler.schedule,
                      KeyOf(m_scheduler, o[2]), KeyOf(m_scheduler, o[1]))
    BY DEF OvertakenOK
  <1>6. CASE event' = NoEvent
    <2>1. overtaken' = overtaken
      BY <1>1, <1>6 DEF ThreadLoop
    <2>2. \A o \in overtaken :
             InOrder(m_scheduler'.schedule,
                     KeyOf(m_scheduler', o[2]), KeyOf(m_scheduler', o[1]))
      BY <1>2, <1>3, <1>4, <1>5, <1>6
    <2>3. OvertakenOK'
      BY <1>4, <2>1, <2>2 DEF OvertakenOK
    <2> QED
      BY <1>1, <1>2, <1>6, <2>3
  <1>7. CASE event' # NoEvent
    <2>1. overtaken' = {o \in overtaken : o[2] # event'} \cup Overtakes(event')
      BY <1>1, <1>7 DEF ThreadLoop
    <2>2. event' \in m_map
      BY <1>2, <1>4, <1>7
    <2>3. \A o \in Overtakes(event') :
             \E f \in m_map \ {event'} : o = <<event', f>> /\ DueIn(m_scheduler, f)
      BY <1>4, DueIsDue DEF Overtakes
    <2>4. ASSUME NEW o \in Overtakes(event')
          PROVE  /\ o \in m_map \X m_map /\ o \notin overtaken
                 /\ InOrder(m_scheduler'.schedule,
                            KeyOf(m_scheduler', o[2]), KeyOf(m_scheduler', o[1]))
      <3>1. PICK f \in m_map \ {event'} : o = <<event', f>> /\ DueIn(m_scheduler, f)
        BY <2>3
      <3>2. o[1] = event' /\ o[2] = f /\ o \in m_map \X m_map
        BY <2>2, <3>1
      <3>3. /\ ~ InOrder(m_scheduler.schedule,
                         KeyOf(m_scheduler, f), KeyOf(m_scheduler, event'))
            /\ InOrder(m_scheduler'.schedule,
                       KeyOf(m_scheduler, f), KeyOf(m_scheduler, event'))
        BY <1>2, <1>4, <1>7, <3>1
      <3> QED
        BY <1>3, <1>5, <3>2, <3>3
    <2>5. ASSUME NEW o \in overtaken, o[2] # event'
          PROVE  /\ o \in m_map \X m_map
                 /\ InOrder(m_scheduler'.schedule,
                            KeyOf(m_scheduler', o[2]), KeyOf(m_scheduler', o[1]))
      <3>1. o \in m_map \X m_map
        BY DEF OvertakenOK
      <3>2. o[1] # event'
        BY <1>2, <1>4, <1>5, <1>7, <2>5
      <3>3. InOrder(m_scheduler'.schedule,
                    KeyOf(m_scheduler, o[2]), KeyOf(m_scheduler, o[1]))
        BY <1>2, <1>4, <1>5, <2>5, <3>2
      <3> QED
        BY <1>3, <3>1, <3>3
    <2>6. OvertakenOK'
      BY <1>4, <2>1, <2>4, <2>5 DEF OvertakenOK
    <2> QED
      BY <1>2, <2>2, <2>4, <2>6
  <1> QED
    BY <1>6, <1>7

LEMMA RequestEventKeeps ==
    ASSUME Inv, RoutineInv, ThreadLoop, RequestEvent
    PROVE  RoutineInv'
  <1> USE DEF RoutineInv
  <1>1. /\ UNCHANGED <<at, program, to_add, m_map, up_to_date>>
        /\ has_slept' = (has_slept \/ place' = "sleep")
    BY DEF ThreadLoop, sessionVars
  <1>2. /\ place = "request" /\ UNCHANGED scopeVars
        /\ \/ place' = "run" /\ UNCHANGED is_back_to_back
           \/ place' = "none due" /\ is_back_to_back' = FALSE
    BY DEF RequestEvent
  <1>3. /\ SchedulerOK(m_scheduler)' /\ m_scheduler'.events = m_scheduler.events
        /\ OvertakenOK'
        /\ place' = "run" => event' \in m_map
    BY RequestOvertakes
  <1>4. NodesOK' /\ CallersOK'
    BY <1>1, <1>2 DEF NodesOK, InRoutine, CallersOK, Depth, scopeVars
  <1>5. WorkerOK'
    <2>1. Depth(worker)' = Depth(worker) /\ calls' = calls
      BY <1>2 DEF Depth, scopeVars
    <2>2. Depth(worker) = 1
      BY <1>2 DEF WorkerOK
    <2>3. Depth(worker) > 0 /\ ~ (Depth(worker) > 1)
      BY <2>2
    <2>4. calls[worker][1].at = "held"
      BY <2>3 DEF WorkerOK
    <2> QED
      BY <1>2, <2>1, <2>2, <2>3, <2>4 DEF WorkerOK
  <1>6. CallbacksOK'
    BY <1>1, <1>3 DEF CallbacksOK, InRoutine
  <1>7. FramesOK'
    <2>1. has_slept' = has_slept
      BY <1>1, <1>2 DEF FramesOK
    <2>2. /\ is_back_to_back \in BOOLEAN /\ has_slept \in BOOLEAN
          /\ is_back_to_back => ~ has_slept
      BY DEF FramesOK
    <2>3. CASE place' = "run" /\ UNCHANGED is_back_to_back
      BY <2>1, <2>2, <2>3 DEF FramesOK
    <2>4. CASE place' = "none due" /\ is_back_to_back' = FALSE
      BY <2>1, <2>2, <2>4 DEF FramesOK
    <2> QED
      BY <1>2, <2>3, <2>4
  <1> QED
    BY <1>3, <1>4, <1>5, <1>6, <1>7

(* A callback that cancels the routine is in its map while it does.        *)
LEMMA LookKeeps ==
    ASSUME Inv, RoutineInv, LookAtFrame
    PROVE  RoutineInv'
  <1> USE DEF RoutineInv
  <1>1. /\ place = "run" /\ place' = "top" /\ is_back_to_back' = TRUE
        /\ UNCHANGED <<m_scheduler, program, at, to_add, m_map, overtaken>>
        /\ has_slept' = (has_slept /\ ~ NewFrame(event))
        /\ TopIs(worker, "held")
    BY DEF LookAtFrame, HasRun, RunnerMoves
  <1>2. Depth(worker) = 1 /\ Top(worker).node = runner
    BY <1>1, WorkerStack
  <1>3. m_map # {} /\ calls[worker][1].at = "held"
    <2>1. Depth(worker) > 0
      BY <1>2
    <2> QED
      BY <1>1, <2>1 DEF CallbacksOK, WorkerOK
  <1>4. /\ CallersOK' /\ UNCHANGED <<alive, attached, m_scope>>
        /\ Depth(worker)' \in {1, 2} /\ calls'[worker][1].at = "held"
    <2>1. CASE UNCHANGED scopeVars
      <3>1. CallersOK' /\ Depth(worker)' = Depth(worker)
        BY <1>1, <2>1 DEF CallersOK, Depth, scopeVars
      <3> QED
        BY <1>2, <1>3, <2>1, <3>1 DEF scopeVars
    <2>2. CASE \E e \in Exceptions \cup {NoException} : CallCancel(worker, sub, e)
      <3>1. PICK e \in Exceptions \cup {NoException} : CallCancel(worker, sub, e)
        BY <2>2
      <3> DEFINE f == Frame(sub, "flag", e)
      <3>2. f \in Frames /\ f.node = sub
        BY FrameIsFrame, NamesDiffer
      <3>3. /\ calls' = [calls EXCEPT ![worker] = Push(@, f)]
            /\ UNCHANGED <<alive, attached, m_scope, waiting>>
        BY <3>1 DEF CallCancel
      <3> HIDE DEF f
      <3>4. /\ \A u \in Threads : Depth(u)' = IF u = worker THEN Depth(u) + 1 ELSE Depth(u)
            /\ calls'[worker][Depth(worker) + 1] = f
            /\ \A i \in 1..Depth(worker) : calls'[worker][i] = calls[worker][i]
        BY <3>2, <3>3, Pushed, NamesDiffer
      <3>5. Depth(worker)' = 2 /\ calls'[worker][1] = calls[worker][1]
        BY <1>2, <3>4, NamesDiffer
      <3>6. \A u \in Threads \ {worker} : calls'[u] = calls[u]
        BY <3>3 DEF Inv, ScopeTypeOK
      <3>7. CallersOK'
        <4>1. /\ Depth(worker)' \in Nat /\ Depth(worker)' <= Depth(worker) + 1
              /\ calls'[worker][Depth(worker) + 1].node = sub
              /\ Depth(worker) # 0
          BY <1>2, <3>2, <3>4, <3>5
        <4>2. \A i \in 1..Depth(worker) :
                 i <= Depth(worker)' => calls'[worker][i].node = calls[worker][i].node
          BY <3>4
        <4> QED
          BY <1>1, <3>3, <3>6, <4>1, <4>2, CallersMove, NamesDiffer
      <3> QED
        BY <1>3, <3>3, <3>5, <3>7
    <2> QED
      BY <2>1, <2>2 DEF LookAtFrame
  <1>5. NodesOK'
    BY <1>1, <1>4 DEF NodesOK, InRoutine
  <1>6. WorkerOK'
    <2>1. Depth(worker)' > 0 /\ place' = "top" /\ m_map' # {}
      BY <1>1, <1>3, <1>4
    <2> QED
      BY <1>4, <2>1 DEF WorkerOK
  <1>7. CallbacksOK'
    BY <1>1 DEF CallbacksOK, InRoutine
  <1>8. SchedulerOK(m_scheduler)'
    BY <1>1 DEF SchedulerOK, Sorted, OnceIn, Key, KeyOf
  <1>9. OvertakenOK'
    BY <1>1 DEF OvertakenOK, InOrder, Key, KeyOf
  <1>10. FramesOK'
    <2>1. has_slept' = FALSE
      <3>1. ~ NewFrame(event) => is_back_to_back
        BY DEF NewFrame
      <3>2. is_back_to_back => ~ has_slept
        BY DEF FramesOK
      <3>3. ~ (has_slept /\ ~ NewFrame(event))
        BY <3>1, <3>2
      <3> QED
        BY <1>1, <3>3
    <2> QED
      BY <1>1, <2>1 DEF FramesOK
  <1> QED
    BY <1>4, <1>5, <1>6, <1>7, <1>8, <1>9, <1>10

-----------------------------------------------------------------------------
(* The invariant.                                                          *)

LEMMA InitRoutine == Init => Inv /\ RoutineInv
  <1> SUFFICES ASSUME Init
               PROVE  Inv /\ RoutineInv
    OBVIOUS
  <1> USE DEF Init, RunnerInit, ScopeInit, EmptyScheduler
  <1>1. Inv
    BY InitHolds
  <1>2. \A t \in Threads : Depth(t) = 0 /\ waiting[t] = NoScope
    BY DEF Depth
  <1>3. NodesOK
    BY NamesDiffer DEF NodesOK, InRoutine
  <1>4. CallersOK
    BY <1>2 DEF CallersOK
  <1>5. WorkerOK
    <2>1. Depth(worker) = 0
      BY <1>2, NamesDiffer
    <2>2. ~ (Depth(worker) > 0) /\ ~ (Depth(worker) > 1)
      BY <2>1
    <2> QED
      BY <2>1, <2>2 DEF WorkerOK
  <1>6. CallbacksOK
    BY DEF CallbacksOK
  <1>7. SchedulerOK(m_scheduler)
    BY DEF SchedulerOK, Sorted
  <1>8. OvertakenOK
    BY DEF OvertakenOK
  <1>9. FramesOK
    BY DEF FramesOK
  <1> QED
    BY <1>1, <1>3, <1>4, <1>5, <1>6, <1>7, <1>8, <1>9 DEF RoutineInv

LEMMA StepKeeps ==
    ASSUME Inv, RoutineInv, [Next]_vars
    PROVE  RoutineInv'
  <1>1. CASE UserStep
    <2>1. \/ ConstructPivotThrows \/ BeginThrows \/ AddCallback \/ AddCallbackThrows
          \/ AllAdded \/ Waited \/ CommandEnds \/ CommandCancelled \/ Rethrow
          \/ TriggeredIndex \/ RemoveCallback \/ EndProgram
          \/ ConstructPivot \/ Begin \/ LeaveScope \/ EndRoutine \/ DetachPivot \/ Joined
          \/ Wait \/ TimedOut \/ CallbackAdded \/ CallbackRemoved \/ StopThread
      BY <1>1 DEF UserStep
    <2> QED
      BY <2>1, QuietKeeps, TreeStepKeeps, AddedKeeps, RemovedKeeps, StopsKeep
  <1>2. CASE ThreadLoop
    BY <1>2, LoopKeeps, RequestEventKeeps
  <1>3. CASE LookAtFrame
    BY <1>3, LookKeeps
  <1>4. CASE StopProgram
    BY <1>4, StopsKeep
  <1>5. ASSUME NEW t \in Threads, CancelStep(t)
        PROVE  RoutineInv'
    BY <1>5, CancelStepKeeps
  <1>6. CASE Tick /\ UNCHANGED <<sessionVars, pivotVars>>
    BY <1>6, TickKeeps
  <1>7. CASE UNCHANGED vars
    <2>1. /\ UNCHANGED <<alive, attached, m_scope, calls, waiting>>
          /\ UNCHANGED <<m_scheduler, place, event, is_back_to_back>>
          /\ UNCHANGED <<at, program, to_add, m_map>> /\ UNCHANGED pivotVars
      BY <1>7 DEF vars, scopeVars, runnerVars, sessionVars
    <2>2. CallersOK' /\ WorkerOK'
      BY <2>1 DEF RoutineInv, CallersOK, WorkerOK, Depth
    <2> QED
      BY <2>1, <2>2, CallsKeep
  <1> QED
    BY <1>1, <1>2, <1>3, <1>4, <1>5, <1>6, <1>7 DEF Next

LEMMA Inductive == Inv /\ RoutineInv /\ [Next]_vars => Inv' /\ RoutineInv'
  BY NextInTree, NextKeepsInv, StepKeeps

-----------------------------------------------------------------------------
(* Who has been shown the frame.                                           *)

(* A step that shows no frame, and forgets neither the routine's flag nor  *)
(* the cancel() on its way to it.                                          *)
LEMMA NothingShown ==
    ASSUME RoutineInv, ShownOK, UNCHANGED <<shown, up_to_date>>, m_map \subseteq m_map',
           \/ m_map = {}
           \/ /\ sub \in cancelled => sub \in cancelled'
              /\ Depth(worker) > 1 => sub \in cancelled' \/ Depth(worker)' > 1
    PROVE  ShownOK'
  BY DEF ShownOK

LEMMA UserShowsNothing ==
    ASSUME Inv, RoutineInv, ShownOK, UserStep
    PROVE  ShownOK'
  <1> USE DEF UserMoves
  <1>1. CASE CallbackRemoved
    <2>1. PICK e \in m_map :
            m_map' = m_map \ {e} /\ up_to_date' = up_to_date \ {e} /\ shown' = shown \ {e}
      BY <1>1 DEF CallbackRemoved
    <2>2. UNCHANGED <<cancelled, calls>>
      BY <1>1 DEF CallbackRemoved, scopeVars
    <2> QED
      BY <2>1, <2>2 DEF ShownOK, Depth
  <1>2. CASE ConstructPivot \/ Begin \/ EndRoutine \/ Joined
    <2>1. at \in {"new", "idle", "leave", "join"} /\ UNCHANGED <<shown, up_to_date, m_map>>
      BY <1>2 DEF ConstructPivot, Begin, EndRoutine, Joined, pivotVars
    <2>2. m_map = {}
      BY <2>1 DEF RoutineInv, CallbacksOK, InRoutine
    <2> QED
      BY <2>1, <2>2, NothingShown
  <1>3. CASE CallbackAdded \/ StopThread \/ LeaveScope \/ DetachPivot \/ Wait \/ TimedOut
    <2>1. UNCHANGED <<shown, up_to_date>> /\ m_map \subseteq m_map'
      BY <1>3 DEF CallbackAdded, StopThread, LeaveScope, DetachPivot, Wait, TimedOut,
                  pivotVars, sessionVars
    <2>2. cancelled' = cancelled
      BY <1>3 DEF CallbackAdded, StopThread, LeaveScope, DetachPivot, Wait, TimedOut,
                  CallCancel, Detach, WaitIn, WaitEnds, scopeVars
    <2>3. calls'[worker] = calls[worker]
      <3>1. CASE StopThread
        <4>1. calls \in [Threads -> Seq(Frames)]
          BY DEF Inv, ScopeTypeOK
        <4> QED
          BY <3>1, <4>1, NamesDiffer DEF StopThread, CallCancel
      <3>2. CASE ~ StopThread
        BY <1>3, <3>2 DEF CallbackAdded, LeaveScope, DetachPivot, Wait, TimedOut, Detach,
                          WaitIn, WaitEnds, scopeVars
      <3> QED
        BY <3>1, <3>2
    <2> QED
      BY <2>1, <2>2, <2>3, NothingShown DEF Depth
  <1>4. CASE \/ ConstructPivotThrows \/ BeginThrows \/ AddCallback \/ AddCallbackThrows
             \/ AllAdded \/ Waited \/ CommandEnds \/ CommandCancelled \/ Rethrow
             \/ TriggeredIndex \/ RemoveCallback \/ EndProgram
    <2>1. UNCHANGED <<shown, up_to_date, m_map, cancelled, calls>>
      BY <1>4 DEF ConstructPivotThrows, BeginThrows, AddCallback, AddCallbackThrows,
                  AllAdded, Waited, CommandEnds, CommandCancelled, Rethrow,
                  TriggeredIndex, RemoveCallback, EndProgram, pivotVars, scopeVars
    <2> QED
      BY <2>1, NothingShown DEF Depth
  <1> QED
    BY <1>1, <1>2, <1>3, <1>4 DEF UserStep

(* The thread is back from every cancel() when it takes or leaves a lock.  *)
LEMMA LoopShowsNothing ==
    ASSUME Inv, RoutineInv, ShownOK, ThreadLoop
    PROVE  ShownOK'
  <1>1. UNCHANGED <<shown, up_to_date, m_map>> /\ RunnerStep
    BY DEF ThreadLoop, sessionVars
  <1>2. cancelled' = cancelled
    BY <1>1 DEF RunnerStep, Start, Stop, Yield, DoNotYield, YieldAgain, YieldOver,
                RequestEvent, NotStopped, Sleep, WakeUp, Enter, Leave, scopeVars
  <1>3. Depth(worker) > 1 => Depth(worker)' = Depth(worker)
    <2>1. CASE Start \/ YieldOver \/ WakeUp
      <3>1. Depth(worker) = 0
        BY <2>1 DEF Start, YieldOver, WakeUp, Enter, Idle, Depth
      <3> QED
        BY <3>1
    <2>2. CASE Stop \/ Yield \/ Sleep
      <3>1. Depth(worker) = 1
        BY <2>2, WorkerStack DEF Stop, Yield, Sleep, Leave, RoutineInv
      <3> QED
        BY <3>1
    <2>3. CASE DoNotYield \/ YieldAgain \/ RequestEvent \/ NotStopped
      BY <2>3 DEF DoNotYield, YieldAgain, RequestEvent, NotStopped, scopeVars, Depth
    <2> QED
      BY <1>1, <2>1, <2>2, <2>3 DEF RunnerStep
  <1> QED
    BY <1>1, <1>2, <1>3, NothingShown

(* A cancel() of the routine returns when the routine is cancelled.        *)
LEMMA CancelShowsNothing ==
    ASSUME Inv, RoutineInv, ShownOK, NEW t \in Threads, CancelStep(t)
    PROVE  ShownOK'
  <1>1. \/ SetFlag(t) \/ TakeLock(t) \/ CancelChild(t) \/ ScopeDone(t)
        \/ Return(t) \/ Leave(t)
    BY DEF CancelStep, RunnerCancelled, CancelReturns
  <1>2. UNCHANGED <<shown, up_to_date, m_map>>
    BY DEF CancelStep, RunnerCancelled, CancelReturns, sessionVars, pivotVars
  <1>3. cancelled \subseteq cancelled'
    BY <1>1 DEF SetFlag, TakeLock, CancelChild, ScopeDone, Return, Leave
  <1>4. ASSUME Depth(worker) > 1
        PROVE  sub \in cancelled' \/ Depth(worker)' > 1
    <2>1. CASE t # worker
      <3>1. calls'[worker] = calls[worker]
        BY <1>1, <2>1, CancelMoves, NamesDiffer
      <3> QED
        BY <1>4, <3>1 DEF Depth
    <2>2. CASE t = worker
      <3>1. /\ Depth(worker) = 2 /\ calls[worker] # <<>>
            /\ Top(worker) = calls[worker][2] /\ ~ TopIs(worker, "held")
        <4>1. Depth(worker) \in 0..2 /\ (TopIs(worker, "held") => Depth(worker) = 1)
          BY WorkerStack DEF RoutineInv
        <4>2. Depth(worker) = 2
          BY <1>4, <4>1
        <4> QED
          BY <4>1, <4>2, StackIsFrames, NamesDiffer DEF Top
      <3>2. Top(worker).node = sub
        <4>1. calls[worker][1].node = runner
          BY <1>4, <3>1, WorkerLocks DEF RoutineInv
        <4>2. 1 \in 1..Depth(worker) /\ 1 < Depth(worker) /\ 1 + 1 = 2
          BY <3>1
        <4>3. calls[worker][1 + 1].node = sub
          BY <4>1, <4>2, NamesDiffer DEF RoutineInv, CallersOK
        <4> QED
          BY <3>1, <4>2, <4>3
      <3>3. CASE SetFlag(worker)
        BY <3>2, <3>3 DEF SetFlag
      <3>4. CASE Return(worker)
        <4>1. FrameOK(worker, 2) /\ Top(worker).at = "after"
          BY <3>1, <3>4, NamesDiffer DEF Inv, StacksOK, Return, TopIs
        <4> QED
          BY <1>3, <3>1, <3>2, <4>1 DEF FrameOK
      <3>5. CASE TakeLock(worker) \/ CancelChild(worker) \/ ScopeDone(worker)
        <4>1. FrameOK(worker, 2) /\ Top(worker).at \in {"lock", "children"}
          BY <3>1, <3>5, NamesDiffer DEF Inv, StacksOK, TakeLock, CancelChild, ScopeDone,
                                         TopIs
        <4> QED
          BY <1>3, <3>1, <3>2, <4>1 DEF FrameOK, InCascade
      <3> QED
        BY <1>1, <2>2, <3>1, <3>3, <3>4, <3>5 DEF Leave
    <2> QED
      BY <2>1, <2>2
  <1> QED
    BY <1>2, <1>3, <1>4, NothingShown

(* Who stops the routine is up to date, who throws is cancelling it.       *)
LEMMA LookShows ==
    ASSUME Inv, RoutineInv, ShownOK, LookAtFrame
    PROVE  ShownOK'
  <1>1. /\ place = "run" /\ m_map' = m_map /\ TopIs(worker, "held")
        /\ shown' = {event} \cup Kept(shown, event)
    BY DEF LookAtFrame, HasRun, RunnerMoves
  <1>2. event \in m_map /\ Depth(worker) = 1
    BY <1>1, WorkerStack DEF RoutineInv, CallbacksOK
  <1>3. shown \subseteq up_to_date \/ sub \in cancelled
    BY <1>2 DEF ShownOK
  <1>4. shown' \subseteq m_map'
    BY <1>1, <1>2 DEF ShownOK, Kept
  <1>5. cancelled' = cancelled
    BY DEF LookAtFrame, CallCancel, scopeVars
  <1>6. CASE up_to_date' = {event} \cup Kept(up_to_date, event)
    BY <1>1, <1>3, <1>4, <1>5, <1>6 DEF ShownOK, Kept
  <1>7. ASSUME NEW e \in Exceptions, CallCancel(worker, sub, e)
        PROVE  ShownOK'
    <2> DEFINE f == Frame(sub, "flag", e)
    <2>1. f \in Frames
      BY FrameIsFrame, NamesDiffer
    <2>2. calls' = [calls EXCEPT ![worker] = Push(@, f)]
      BY <1>7 DEF CallCancel
    <2> HIDE DEF f
    <2>3. Depth(worker)' = Depth(worker) + 1
      BY <2>1, <2>2, Pushed, NamesDiffer
    <2>4. Depth(worker)' > 1
      BY <1>2, <2>3
    <2> QED
      BY <1>4, <2>4 DEF ShownOK
  <1> QED
    BY <1>6, <1>7 DEF LookAtFrame

LEMMA ShownKeeps ==
    ASSUME Inv, RoutineInv, ShownOK, [Next]_vars
    PROVE  ShownOK'
  <1>1. CASE StopProgram
    <2>1. /\ UNCHANGED <<shown, up_to_date, m_map, cancelled>>
          /\ calls'[worker] = calls[worker]
      BY <1>1, NamesDiffer DEF StopProgram, CallCancel, sessionVars, pivotVars
    <2> QED
      BY <2>1, NothingShown DEF Depth
  <1>2. CASE (Tick /\ UNCHANGED <<sessionVars, pivotVars>>) \/ UNCHANGED vars
    <2>1. UNCHANGED <<shown, up_to_date, m_map, cancelled, calls>>
      BY <1>2 DEF Tick, vars, scopeVars, sessionVars, pivotVars
    <2> QED
      BY <2>1, NothingShown DEF Depth
  <1>3. ASSUME NEW t \in Threads, CancelStep(t)
        PROVE  ShownOK'
    BY <1>3, CancelShowsNothing
  <1> QED
    BY <1>1, <1>2, <1>3, UserShowsNothing, LoopShowsNothing, LookShows DEF Next

LEMMA ShownHolds == Spec => [](Inv /\ RoutineInv /\ ShownOK)
  <1>1. Init => ShownOK
    BY DEF Init, ShownOK
  <1> QED
    BY <1>1, InitRoutine, Inductive, ShownKeeps, PTL DEF Spec

-----------------------------------------------------------------------------
(* What it shows.                                                          *)

(* The routines, the pivot, its runner and whoever stops the program do    *)
(* only what the tree of scopes allows: the routine's scope is destroyed   *)
(* when no callback can still be cancelling it, the runner when its thread *)
(* is over, and every cancel is made in the order of the tree (wait_until, *)
(* run_until, thread_loop, stop_thread).                                   *)
THEOREM RoutinesKeepToScopes == Spec => KeepsToScopes
  <1>1. Init => ScopeInit
    BY DEF Init
  <1>2. Inv /\ RoutineInv /\ [Next]_vars => [ScopeNext]_scopeVars
    BY NextInTree
  <1> QED
    BY <1>1, <1>2, InitRoutine, Inductive, PTL DEF Spec, KeepsToScopes, ScopeSpec

(* So whatever the tree promises, it promises the routines.                *)
THEOREM RoutineTreeSafe == Spec => []TreeIsSafe
  BY RoutinesKeepToScopes, TreeStaysSafe DEF KeepsToScopes

(* Nor are a program's thread, whoever stops it and the runner's thread    *)
(* ever all stuck at the locks, the runner's among them.                   *)
THEOREM RoutinesGoOn ==
    ASSUME IsFiniteSet(Threads)
    PROVE  Spec => []SomebodyGoesOn
  <1>1. ScopeSpec => []SomebodyGoesOn
    BY CancelsGoOn
  <1> QED
    BY <1>1, RoutinesKeepToScopes DEF KeepsToScopes

(* A callback is in the pivot's map, and the scope it may cancel is alive, *)
(* whenever the runner calls it, for any number of callbacks and routines  *)
(* (run, remove_callback, ~InferenceSession).                              *)
THEOREM CallbacksAreLive == Spec => []CallbackIsLive
  <1>1. RoutineInv => CallbackIsLive
    <2> SUFFICES ASSUME RoutineInv, place = "run"
                 PROVE  event \in m_map /\ sub \in alive
      BY DEF CallbackIsLive
    <2>1. event \in m_map /\ InRoutine
      BY DEF RoutineInv, CallbacksOK
    <2> QED
      BY <2>1 DEF RoutineInv, NodesOK
  <1> QED
    BY <1>1, InitRoutine, Inductive, PTL DEF Spec

(* However often an event is removed and added again while its old entries *)
(* are still scheduled, exactly one entry fires it (add_event,             *)
(* remove_event, request_next_event).                                      *)
THEOREM OneEntryFires == Spec => []OneEntryPerEvent
  <1>1. RoutineInv => OneEntryPerEvent
    BY OneEntry DEF RoutineInv, OneEntryPerEvent
  <1> QED
    BY <1>1, InitRoutine, Inductive, PTL DEF Spec

(* A snapshot that a callback shares with the one before it was taken      *)
(* since the runner slept last.  The callback has not been shown it, or    *)
(* threw at it, and then its routine is cancelled by now and nobody will   *)
(* ask what the callback finds (run, thread_loop).                         *)
THEOREM FramesAreNew == Spec => FrameIsNew
  <1>1. ASSUME Inv, RoutineInv, ShownOK, LookAtFrame, ~ NewFrame(event)
        PROVE  ~ has_slept /\ (event \in shown => sub \in cancelled)
    <2>1. is_back_to_back /\ event \notin up_to_date
      BY <1>1 DEF NewFrame
    <2>2. Depth(worker) = 1
      BY <1>1, WorkerStack DEF RoutineInv, LookAtFrame, HasRun
    <2>3. event \in shown => sub \in cancelled
      BY <1>1, <2>1, <2>2 DEF ShownOK
    <2> QED
      BY <1>1, <2>1, <2>3 DEF RoutineInv, FramesOK
  <1>2. Inv /\ RoutineInv /\ ShownOK /\ [Next]_vars =>
           [LookAtFrame /\ ~ NewFrame(event) =>
               ~ has_slept /\ (event \in shown => sub \in cancelled)]_vars
    BY <1>1
  <1> QED
    BY <1>2, ShownHolds, PTL DEF Spec, FrameIsNew

(* With any number of callbacks, and however late the runner is, none of   *)
(* them is called twice while another one is due (request_next_event,      *)
(* thread_loop).                                                           *)
THEOREM NobodyOvertakesTwice == Spec => NoneOvertakenTwice
  <1>1. ASSUME RoutineInv, [Next]_vars, place = "request", place' = "run"
        PROVE  Overtakes(event') \cap overtaken = {}
    <2>1. ThreadLoop /\ RequestEvent
      <3>1. ~ UNCHANGED vars
        BY <1>1 DEF vars, runnerVars
      <3>2. ~ UserStep
        BY <1>1 DEF UserStep, ConstructPivot, ConstructPivotThrows, Begin, BeginThrows,
                    AddCallback, AddCallbackThrows, CallbackAdded, AddEventLocked, AllAdded,
                    Wait, TimedOut, Waited, CommandEnds, CommandCancelled, Rethrow,
                    TriggeredIndex, RemoveCallback, CallbackRemoved, RemoveEventLocked,
                    AskForLock, LeaveScope, EndRoutine, EndProgram, DetachPivot,
                    StopThread, Joined, runnerVars
      <3>3. ~ LookAtFrame /\ ~ StopProgram /\ ~ Tick
        BY <1>1 DEF LookAtFrame, HasRun, RunnerMoves, StopProgram, Tick, runnerVars
      <3>4. \A t \in Threads : ~ CancelStep(t)
        BY <1>1 DEF CancelStep, RunnerCancelled, CancelReturns, runnerVars
      <3>5. ThreadLoop
        BY <1>1, <3>1, <3>2, <3>3, <3>4 DEF Next
      <3> QED
        BY <1>1, <3>5 DEF ThreadLoop, RunnerStep, Start, Stop, Yield, DoNotYield,
                          YieldAgain, YieldOver, NotStopped, Sleep, WakeUp, RunnerMoves
    <2> QED
      BY <1>1, <2>1, RequestOvertakes DEF RoutineInv
  <1>2. RoutineInv /\ [Next]_vars =>
           [place = "request" /\ place' = "run" =>
               Overtakes(event') \cap overtaken = {}]_vars
    BY <1>1
  <1> QED
    BY <1>2, InitRoutine, Inductive, PTL DEF Spec, NoneOvertakenTwice
=============================================================================
