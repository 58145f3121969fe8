--------------------------- MODULE RuntimePolicy ----------------------------
(***************************************************************************)
(* The pure part of the runtime: what the facts of the moment permit       *)
(* (src/core/runtime_policy.rs), the stages of the battery and the         *)
(* boundaries of the quiet hours (src/core/runtime.rs).                    *)
(***************************************************************************)
EXTENDS Integers

CONSTANTS
    HourSeconds,      \* 3600
    DayHours          \* 24

ASSUME RuntimePolicyAssumption == HourSeconds \in Nat \ {0} /\ DayHours \in Nat \ {0}

Stages       == {"unknown", "normal", "low", "critical"}
Thermals     == {"unknown", "normal", "warm", "hot", "throttled"}
Visibilities == {"unmapped", "inactive", "active"}
InhibitModes == {"never", "while-active", "while-mapped"}

-----------------------------------------------------------------------------
(* Work.                                                                   *)

Strength == [suspended |-> 0, minimal |-> 1, reduced |-> 2, full |-> 3]

Lower(a, b) == IF Strength[a] <= Strength[b] THEN a ELSE b

StageCap(stage) ==
    CASE stage = "low" -> "reduced" [] stage = "critical" -> "minimal" [] OTHER -> "full"

ThermalCap(thermal) ==
    CASE thermal = "hot" -> "reduced" [] thermal = "throttled" -> "minimal" [] OTHER -> "full"

Visibility(facts) ==
    CASE ~facts.mapped -> "unmapped" [] facts.mapped /\ facts.active -> "active"
      [] OTHER -> "inactive"

Idle(facts) == facts.userIdle /\ ~facts.interaction

\* The last of the two caps instead of the lower.
WorkLevelLast(facts) ==
    CASE ~facts.mapped -> "suspended"
      [] facts.mapped /\ facts.thermal \in {"hot", "throttled"} -> ThermalCap(facts.thermal)
      [] OTHER -> StageCap(facts.stage)

WorkLevel(facts) ==
    Lower(IF facts.mapped THEN "full" ELSE "suspended",
          Lower(StageCap(facts.stage), ThermalCap(facts.thermal)))

\* Activity and visibility as the scheduler takes them (set_work_level_at).
WorkContext(facts) ==
    CASE Idle(facts) -> "idle"
      [] ~Idle(facts) /\ Visibility(facts) = "inactive" -> "inactive"
      [] OTHER -> "active"

VisualPolicy(facts) ==
    CASE ~facts.mapped -> "stopped"
      [] facts.mapped /\ facts.thermal \in {"hot", "throttled"} -> "frozen"
      [] OTHER -> "full"

Inhibits(mode, facts) ==
    CASE mode = "never"        -> FALSE
      [] mode = "while-active" -> Visibility(facts) = "active"
      [] mode = "while-mapped" -> facts.mapped

\* evaluate.  Of the reasons only that of the inactive grace is kept: no other field
\* tells it.  The power verdict decides nothing, and the idle view follows from idle.
Evaluate(facts, cfg) ==
    [visibility |-> Visibility(facts),
     idle       |-> Idle(facts),
     level      |-> WorkLevel(facts),
     visual     |-> VisualPolicy(facts),
     inhibited  |-> {flag \in DOMAIN cfg.inhibit : Inhibits(cfg.inhibit[flag], facts)},
     paused     |-> facts.quiet /\ ~facts.interaction,
     quiet      |-> facts.quiet,
     leased     |-> facts.interaction,
     graceOver  |-> facts.graceOver /\ Visibility(facts) = "inactive",
     agent      |-> facts.agent,
     stage      |-> facts.stage,
     thermal    |-> facts.thermal]

-----------------------------------------------------------------------------
(* Quiet hours: local seconds since midnight.                              *)

DaySeconds == DayHours * HourSeconds

QuietWindow(cfg) ==
    cfg.quietEnabled /\ cfg.quietStart < DayHours /\ cfg.quietEnd < DayHours
        /\ cfg.quietStart # cfg.quietEnd

QuietHoursActive(cfg, second) ==
    LET hour == second \div HourSeconds
    IN  /\ QuietWindow(cfg)
        /\ IF cfg.quietStart < cfg.quietEnd
             THEN hour >= cfg.quietStart /\ hour < cfg.quietEnd
             ELSE hour >= cfg.quietStart \/ hour < cfg.quietEnd

\* Without the wrap at midnight.
SecondsUntilClamped(hour, second) ==
    LET delta == hour * HourSeconds - second IN IF delta <= 0 THEN DaySeconds ELSE delta

\* A boundary that is now is a day away.
SecondsUntil(hour, second) ==
    LET delta == (hour * HourSeconds - second) % DaySeconds
    IN  IF delta = 0 THEN DaySeconds ELSE delta

\* seconds_until_quiet_boundary, of a window that is not empty.
SecondsUntilQuietBoundary(cfg, second) ==
    LET start == SecondsUntil(cfg.quietStart, second)
        end   == SecondsUntil(cfg.quietEnd, second)
    IN  IF start <= end THEN start ELSE end

-----------------------------------------------------------------------------
(* The battery.                                                            *)

\* What the loader accepts: without it the stages could chase each other.
BatteryThresholds(top) ==
    {t \in [criticalEnter : 0 .. top, criticalExit : 0 .. top,
            lowEnter : 0 .. top, lowExit : 0 .. top] :
        t.criticalEnter < t.criticalExit /\ t.criticalExit <= t.lowEnter
            /\ t.lowEnter < t.lowExit}

\* The critical stage left as soon as it would not be entered.
BatteryStageLeft(capacity, current, t) ==
    CASE current = "critical" ->
           IF capacity > t.criticalEnter THEN "low" ELSE "critical"
      [] current = "low" ->
           IF capacity <= t.criticalEnter THEN "critical"
           ELSE IF capacity >= t.lowEnter THEN "normal" ELSE "low"
      [] OTHER ->
           IF capacity <= t.criticalEnter THEN "critical"
           ELSE IF capacity <= t.lowEnter THEN "low" ELSE "normal"

\* battery_stage_for; its ordering of the thresholds changes none that were loaded.
BatteryStageFor(capacity, current, t) ==
    CASE current = "critical" ->
           IF capacity >= t.criticalExit THEN "low" ELSE "critical"
      [] current = "low" ->
           IF capacity <= t.criticalEnter THEN "critical"
           ELSE IF capacity >= t.lowExit THEN "normal" ELSE "low"
      [] OTHER ->
           IF capacity <= t.criticalEnter THEN "critical"
           ELSE IF capacity <= t.lowEnter THEN "low" ELSE "normal"

-----------------------------------------------------------------------------
(* Correctness of the tables.                                              *)

\* From one second to the next quiet hours change exactly where the next boundary
\* was announced: the timer of the runtime neither sleeps through one nor wakes for
\* none.  A day of one quiet hour, or of one other, is no exception.
BoundaryAnnounced(cfg, second) ==
    QuietWindow(cfg) =>
        LET next == (second + 1) % DaySeconds
        IN  (QuietHoursActive(cfg, second) # QuietHoursActive(cfg, next))
                <=> SecondsUntilQuietBoundary(cfg, second) = 1

\* A capacity that stays ends in a stage that stays, after two samples at most: the
\* two pairs of thresholds cannot chase each other.
StageSettles(capacity, stage, t) ==
    LET once  == BatteryStageFor(capacity, stage, t)
        twice == BatteryStageFor(capacity, once, t)
    IN  BatteryStageFor(capacity, twice, t) = twice

\* "The stage persists between each pair of thresholds" (docs/RUNTIME_POWER.md): a
\* stage that a sample left is not entered again by a sample one percent away.
StagePersists(capacity, stage, t) ==
    LET once == BatteryStageFor(capacity, stage, t)
    IN  once # stage /\ stage # "unknown" =>
            \A near \in {capacity - 1, capacity, capacity + 1} :
                t.criticalExit - t.criticalEnter > 1 /\ t.lowExit - t.lowEnter > 1
                    => BatteryStageFor(near, once, t) # stage
=============================================================================
