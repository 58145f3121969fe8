---------------------------- MODULE FixedSchedule -----------------------------
(***************************************************************************)
(* One card with a fixed schedule (`daily@08:05,20:05`): what evaluate of  *)
(* core/schedule.rs makes of the local clock, and the run of the card it   *)
(* leads to.  A slot's result is kept on disk under the slot.  Unattended  *)
(* work only: requests and quiet hours are the scheduler's.                *)
(*                                                                         *)
(* Time runs in half seconds, for the delays of evaluate are whole ones.   *)
(* A day a clock change falls on has local times that are not unique.      *)
(***************************************************************************)
EXTENDS Integers, FiniteSets, FiniteSetsExt

CONSTANTS
  Times,          \* of the slots, within a day
  DayLength, Days,
  RetrySeconds,   \* the interval of the card, for a schedule that does not evaluate
  MaxStarts,
  None

VARIABLES
  now,
  unclear,   \* the slots that are not unique in the local time
  running,   \* the application
  due,       \* when the scheduler polls the card
  flight,    \* the collection under way
  cached,    \* the slot of the result on disk
  stored,    \* how often a result was kept for each slot
  shown,     \* what the card shows: "value", or why there is none
  slot,      \* the slot of the value it shows
  starts

vars == <<now, unclear, running, due, flight, cached, stored, shown, slot, starts>>

Day(instant) == instant \div DayLength
SlotsOn(day) == {day * DayLength + time : time \in Times}
Slots == UNION {SlotsOn(day) : day \in 0 .. Days}
Horizon == Days * DayLength - 1

-----------------------------------------------------------------------------
(* evaluate *)

Earlier(instant) == {s \in SlotsOn(Day(instant)) : s <= instant}

NextSlot(instant) ==
  LET later == {s \in SlotsOn(Day(instant)) : s > instant}
  IN  Min(IF later # {} THEN later ELSE SlotsOn(Day(instant) + 1))

Period(instant) == IF Earlier(instant) = {} THEN None ELSE Max(Earlier(instant))

\* every slot of the day is looked at, and tomorrow's first when none is left
Unevaluable(instant) ==
  unclear \cap (SlotsOn(Day(instant)) \cup {NextSlot(instant)}) # {}

\* Rounded up rather than down.
NextDelayUp(instant) == Max({1, (NextSlot(instant) - instant) \div 2 + 2})

\* in seconds, cut off but never 0
NextDelay(instant) == Max({1, (NextSlot(instant) - instant) \div 2})

Deadline(instant) == instant + 2 * NextDelay(instant)

-----------------------------------------------------------------------------
Init ==
  /\ now = 0
  /\ unclear \in {{}} \cup {{s} : s \in Slots}
  /\ running = FALSE /\ due = None /\ flight = None
  /\ cached = None /\ stored = [s \in Slots |-> 0]
  /\ shown = "nothing" /\ slot = None /\ starts = 0

\* validate_card evaluates the schedule too: a configuration is refused while it cannot be
StartApplication ==
  /\ ~running /\ starts < MaxStarts
  /\ ~Unevaluable(now)
  /\ running' = TRUE /\ starts' = starts + 1
  /\ due' = now /\ shown' = "nothing"
  /\ UNCHANGED <<now, unclear, flight, cached, stored, slot>>

Quit ==
  /\ running
  /\ running' = FALSE /\ due' = None /\ flight' = None
  /\ UNCHANGED <<now, unclear, cached, stored, shown, slot, starts>>

\* a card is polled when it is due; its collection takes the time it takes
Tick ==
  /\ now < Horizon
  /\ running /\ flight = None => due > now
  /\ now' = now + 1
  /\ UNCHANGED <<unclear, running, due, flight, cached, stored, shown, slot, starts>>

Polled == running /\ flight = None /\ due <= now
PollUnchanged == UNCHANGED <<now, unclear, running, cached, stored, starts>>

\* failures without a deadline back off from the interval of the card
PollUnevaluable ==
  /\ Polled /\ Unevaluable(now)
  /\ shown' = "error" /\ slot' = None
  /\ \E factor \in {1, 2} : due' = now + 2 * RetrySeconds * factor
  /\ UNCHANGED flight /\ PollUnchanged

PollWaiting ==
  /\ Polled /\ ~Unevaluable(now) /\ Period(now) = None
  /\ shown' = "waiting" /\ slot' = None /\ due' = Deadline(now)
  /\ UNCHANGED flight /\ PollUnchanged

PollCached ==
  /\ Polled /\ ~Unevaluable(now) /\ Period(now) # None /\ cached = Period(now)
  /\ shown' = "value" /\ slot' = Period(now) /\ due' = Deadline(now)
  /\ UNCHANGED flight /\ PollUnchanged

\* the slot and the deadline are those of the poll, however long the collection takes
PollCollect ==
  /\ Polled /\ ~Unevaluable(now) /\ Period(now) # None /\ cached # Period(now)
  /\ flight' = [slot |-> Period(now), deadline |-> Deadline(now)]
  /\ UNCHANGED <<shown, slot, due>> /\ PollUnchanged

Collected ==
  /\ flight # None
  /\ cached' = flight.slot
  /\ shown' = "value" /\ slot' = flight.slot
  /\ stored' = [stored EXCEPT ![flight.slot] = @ + 1]
  /\ due' = flight.deadline /\ flight' = None
  /\ UNCHANGED <<now, unclear, running, starts>>

\* not tried again before the next slot: the deadline goes before the backoff
CollectionFails ==
  /\ flight # None
  /\ shown' = "failed" /\ slot' = None
  /\ due' = flight.deadline /\ flight' = None
  /\ UNCHANGED <<now, unclear, running, cached, stored, starts>>

Next ==
  \/ StartApplication
  \/ Quit
  \/ Tick
  \/ PollUnevaluable
  \/ PollWaiting
  \/ PollCached
  \/ PollCollect
  \/ Collected
  \/ CollectionFails

Spec == Init /\ [][Next]_vars

-----------------------------------------------------------------------------
TypeOK ==
  /\ now \in 0 .. Horizon /\ unclear \subseteq Slots /\ running \in BOOLEAN
  /\ due \in Nat \cup {None} /\ cached \in Slots \cup {None}
  /\ flight = None \/ flight \in [slot : Slots, deadline : Nat]
  /\ shown \in {"nothing", "waiting", "error", "failed", "value"}
  /\ slot \in Slots \cup {None} /\ (shown = "value" => slot # None)

\* "A card runs at most once per period when paired with the disk cache" (evaluate), over
\* restarts, early wakes and collections a slot passes under.
SlotRunsOnce == \A s \in Slots : stored[s] <= 1

Settled == running /\ flight = None /\ due > now
Passed(s) == s + 2 <= now

\* What a running card shows is never more than a second behind the slots: no cut-off delay
\* and no wake before its slot makes it skip one (evaluate, next_deadline).
SlotFollowed ==
  Settled =>
    /\ shown = "value" => ~\E s \in Slots : slot < s /\ Passed(s)
    /\ shown = "waiting" => ~\E s \in SlotsOn(Day(now)) : Passed(s)

=============================================================================
