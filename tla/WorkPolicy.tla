----------------------------- MODULE WorkPolicy -----------------------------
(***************************************************************************)
(* The pure part of the scheduler: how often a card may be collected under *)
(* the current work level, and which of two refresh reasons wins.          *)
(*                                                                         *)
(* Durations are natural numbers of one time unit (500 ms, the slot of the *)
(* resume and reload spreading).  An interval that is Option::None in the  *)
(* code is NoInterval here: the loader rejects a configured interval of 0. *)
(***************************************************************************)
EXTENDS Integers

CONSTANTS
    SourceKeys,       \* identities of refresh sources (RefreshReason::Source)
    ExpensiveFloor    \* least period of unattended expensive work

ASSUME WorkPolicyAssumption ==
    /\ {"none", "wallclock", "manual"} \cap SourceKeys = {}
    /\ ExpensiveFloor \in Nat \ {0}

-----------------------------------------------------------------------------
Levels    == {"suspended", "minimal", "reduced", "full"}
Contexts  == {"active", "inactive", "idle"}
Workloads == {"live", "normal", "expensive", "event"}
Behaviors == {"inherit", "keep", "throttle", "pause"}

NoInterval == 0

\* The registration parameters of a card: its base interval and TaskPolicy.
Policies ==
    [base : Nat \ {0}, workload : Workloads, scheduled : BOOLEAN,
     inactive : Behaviors, idle : Behaviors,
     inactiveInterval : Nat, idleInterval : Nat, minimum : Nat]

Larger(a, b)  == IF a >= b THEN a ELSE b
Smaller(a, b) == IF a <= b THEN a ELSE b

-----------------------------------------------------------------------------
\* The minimum forgotten.
ClampMinNone(interval, p) == Larger(interval, 1)

ClampMin(interval, p) == Larger(interval, Larger(p.minimum, 1))

Behavior(context, p) ==
    CASE context = "inactive" -> p.inactive
      [] context = "idle"     -> p.idle
      [] context = "active"   -> "inherit"

ExplicitInterval(context, p) ==
    CASE context = "inactive" -> p.inactiveInterval
      [] context = "idle"     -> p.idleInterval
      [] context = "active"   -> NoInterval

\* A throttled card is slowed even while the dashboard as a whole runs at Full.
ThrottleLevel(level, context, p) ==
    IF level = "full" /\ Behavior(context, p) = "throttle"
      THEN IF context = "inactive" THEN "reduced" ELSE "minimal"
      ELSE level

\* Periods of background collection, as multiples of the base interval; 0 where
\* the level admits no unattended collection of that workload.
Multiplier(level, workload) ==
    CASE workload = "event"                      -> 0
      [] workload = "expensive"                  -> IF level = "full" THEN 1 ELSE 0
      [] level = "reduced" /\ workload = "live"   -> 2
      [] level = "reduced" /\ workload = "normal" -> 3
      [] level = "minimal" /\ workload = "live"   -> 4
      [] level = "minimal" /\ workload = "normal" -> 6
      [] OTHER                                   -> 1

FullInterval(p) ==
    IF p.workload = "expensive" THEN Larger(p.base, ExpensiveFloor) ELSE p.base

\* Before the minimum is applied; 0 stands for "no unattended collection".
RawInterval(level, context, p) ==
    LET behavior == Behavior(context, p)
        explicit == ExplicitInterval(context, p)
    IN  CASE p.scheduled \/ behavior = "keep" -> p.base
          [] ~p.scheduled /\ behavior = "throttle" /\ explicit # NoInterval ->
               Larger(explicit, p.base)
          [] ~p.scheduled /\ behavior = "inherit" /\ level = "full" -> FullInterval(p)
          [] OTHER ->
               p.base * Multiplier(ThrottleLevel(level, context, p), p.workload)

\* Fixed schedules barred too.
BarredScheduled(context, p) == p.workload = "event" \/ Behavior(context, p) = "pause"

\* Event-driven and paused cards have no period of their own.
Barred(context, p) ==
    ~p.scheduled /\ (p.workload = "event" \/ Behavior(context, p) = "pause")

\* The period of a card's unattended collection, NoInterval when it has none.
EffectiveInterval(level, context, p) ==
    LET raw == RawInterval(level, context, p)
    IN  IF level = "suspended" \/ Barred(context, p) \/ raw = 0
          THEN NoInterval
          ELSE ClampMin(raw, p)

\* Exponential backoff.  The code counts failures in a saturating u32 and reads
\* min(failures, 6) only, so the count is kept as that minimum; its cap of
\* max(64 * interval, 120 s) is never below 2^6 * interval.
MaxBackoffFailures == 6
FailureCounts == 0 .. MaxBackoffFailures
BackoffFactor == [f \in FailureCounts |->
    CASE f = 0 -> 1 [] f = 1 -> 2 [] f = 2 -> 4 [] f = 3 -> 8
      [] f = 4 -> 16 [] f = 5 -> 32 [] f = 6 -> 64]
Backoff(interval, failures) == interval * BackoffFactor[failures]

-----------------------------------------------------------------------------
\* Why a card is to be collected.  A source event is named by its key;
\* RefreshReason::Periodic is never constructed.
NoReason == "none"
Reasons  == {"wallclock", "manual"} \cup SourceKeys

ReasonPriority(reason) ==
    IF reason = "manual" THEN 3
    ELSE IF reason \in SourceKeys THEN 2
    ELSE IF reason = "wallclock" THEN 1 ELSE 0

PreferReason(current, next) ==
    IF ReasonPriority(current) > ReasonPriority(next) THEN current ELSE next

\* Quiet hours hold back unattended one-shot work only.
RunOncePermitted(reason, quiet) == quiet => reason # "wallclock"

-----------------------------------------------------------------------------
(* Correctness of the table.                                               *)

\* No level, context or behaviour makes a card faster than its configured base
\* interval, and the minimum interval is always enforced.
NeverFaster(lv, ctx, p) ==
    LET interval == EffectiveInterval(lv, ctx, p)
    IN  interval # NoInterval => interval >= p.base /\ interval >= p.minimum

LevelRank == [suspended |-> 0, minimal |-> 1, reduced |-> 2, full |-> 3]

\* Does interval i collect at most as often as j?
NoMoreOften(i, j) == i = NoInterval \/ (j # NoInterval /\ i >= j)

\* Capping the work level never makes a card be collected more often.  A card
\* throttled without an explicit interval is exempt: Full treats it as Minimal
\* while idle, a cap to Reduced as Reduced.
CapsNeverSpeedUp(ctx, p) ==
    Behavior(ctx, p) # "throttle" \/ ExplicitInterval(ctx, p) # NoInterval =>
        \A l1, l2 \in Levels : LevelRank[l1] <= LevelRank[l2] =>
            NoMoreOften(EffectiveInterval(l1, ctx, p), EffectiveInterval(l2, ctx, p))
=============================================================================
