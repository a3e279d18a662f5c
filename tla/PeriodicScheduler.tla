------------------------- MODULE PeriodicScheduler -------------------------
(***************************************************************************)
(* PeriodicScheduler: the events there are and the order they are due in.  *)
(*                                                                         *)
(* A scheduler is a value: events gives each event its id and its period,  *)
(* schedule is the multimap in its order.  Times are counted from now on,  *)
(* so they need no bound; what is overdue by MaxPeriod or more is put at   *)
(* -MaxPeriod, which keeps its place, and its next time is now either way. *)
(***************************************************************************)
EXTENDS Integers, Sequences, FiniteSets, FiniteSetsExt

CONSTANTS Events, NoEvent, Periods, MaxPeriod

ASSUME SchedulerAssumption ==
    /\ NoEvent \notin Events /\ MaxPeriod \in Nat
    /\ Periods \subseteq 1..MaxPeriod

EmptyScheduler == [events |-> <<>>, schedule |-> <<>>]

HasEvent(s, e) == e \in DOMAIN s.events
Ids(s) == {s.schedule[i].id : i \in 1..Len(s.schedule)}

(* Mistake: the counter is not moved on.                                   *)
SameCallbackId(s) == 0

(* m_callback_id is never used twice: the smallest number that is nowhere  *)
(* in use stands for it.                                                   *)
CallbackId(s) == Min((0..Cardinality(Ids(s))) \ Ids(s))

(* The first of the places S of a schedule, or the one after its end.      *)
FirstOf(schedule, S) == Min(S \cup {Len(schedule) + 1})

InsertedAt(schedule, i, entry) ==
    SubSeq(schedule, 1, i - 1) \o <<entry>> \o SubSeq(schedule, i, Len(schedule))

(* Mistake: before the entries of the same time.                           *)
EmplaceFirst(schedule, entry) ==
    LET later == {i \in 1..Len(schedule) : schedule[i].in >= entry.in}
    IN  InsertedAt(schedule, FirstOf(schedule, later), entry)

(* multimap::emplace: after the entries of the same time.                  *)
Emplace(schedule, entry) ==
    LET later == {i \in 1..Len(schedule) : schedule[i].in > entry.in}
    IN  InsertedAt(schedule, FirstOf(schedule, later), entry)

AddEvent(s, e, period) ==
    IF HasEvent(s, e) THEN s
    ELSE [events |-> [x \in DOMAIN s.events \cup {e} |->
                         IF x = e THEN [id |-> CallbackId(s), period |-> period]
                                  ELSE s.events[x]],
          schedule |-> Emplace(s.schedule,
                               [in |-> 0, id |-> CallbackId(s), event |-> e])]

(* Its entry in the schedule stays.                                        *)
RemoveEvent(s, e) ==
    [s EXCEPT !.events = [x \in DOMAIN s.events \ {e} |-> s.events[x]]]

(* An entry whose event is there and has not been added anew since.        *)
Current(s, entry) ==
    HasEvent(s, entry.event) /\ s.events[entry.event].id = entry.id

(* An event that is late does not catch up on what it missed.              *)
NextTime(in, period) == IF in + period > 0 THEN in + period ELSE 0

(* The first event that is due, put back for its next time; the entries    *)
(* before it that are out of date are dropped.                             *)
RequestNextEvent(s) ==
    LET n == Len(s.schedule)
        first == FirstOf(s.schedule,
                         {i \in 1..n : \/ s.schedule[i].in > 0
                                       \/ Current(s, s.schedule[i])})
        entry == s.schedule[first]
        rest == SubSeq(s.schedule, first + 1, n)
    IN  IF first > n THEN [event |-> NoEvent, then |-> [s EXCEPT !.schedule = <<>>]]
        ELSE IF entry.in > 0
        THEN [event |-> NoEvent, then |-> [s EXCEPT !.schedule = <<entry>> \o rest]]
        ELSE [event |-> entry.event,
              then |-> [s EXCEPT !.schedule =
                  Emplace(rest, [entry EXCEPT
                      !.in = NextTime(@, s.events[entry.event].period)])]]

(* next_event() has come.                                                  *)
NextEventIsDue(s) == s.schedule # <<>> /\ Head(s.schedule).in <= 0

TimePasses(s) ==
    [s EXCEPT !.schedule = [i \in 1..Len(s.schedule) |->
        [s.schedule[i] EXCEPT !.in = IF @ > -MaxPeriod THEN @ - 1 ELSE @]]]

-----------------------------------------------------------------------------

(* An event that has been added has one entry that will fire it, and one   *)
(* that has been removed has none, even when it is removed and added again *)
(* at the same address while an old entry is still scheduled (the ABA of   *)
(* PeriodicScheduler.h).                                                   *)
OneEntryEach(s) ==
    \A e \in Events :
        Cardinality({i \in 1..Len(s.schedule) :
            s.schedule[i].event = e /\ Current(s, s.schedule[i])})
        = IF HasEvent(s, e) THEN 1 ELSE 0
=============================================================================
