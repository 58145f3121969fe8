---------------------------- MODULE TablesProofs ----------------------------
(***************************************************************************)
(* The tables of the scheduler, the runtime and the configuration, for any *)
(* values, hours and days: the interval of a card under every permit, the  *)
(* boundaries of the quiet hours, the stages of the battery, what is       *)
(* written, read, converted and accepted of cards, settings and actions,   *)
(* the documents of a changed configuration, the frames of an animation, a *)
(* pass of the disk janitor, and the list of the memory cache.             *)
(***************************************************************************)
EXTENDS MCTables, SharedLemmas, TLAPS

-----------------------------------------------------------------------------
(* The intervals of WorkPolicy.                                            *)

\* No throttling, level or context ever makes a card faster than its configured
\* base interval, and its minimum interval is enforced: effective_interval of
\* the scheduler, clamp_min and the workload multipliers.
THEOREM IntervalBounds ==
    ASSUME NEW lv \in Levels, NEW ctx \in Contexts, NEW p \in Policies
    PROVE  NeverFaster(lv, ctx, p)
<1> DEFINE factor == Multiplier(ThrottleLevel(lv, ctx, p), p.workload)
           raw    == RawInterval(lv, ctx, p)
<1>1. p.base \in Nat \ {0} /\ p.minimum \in Nat
  BY DEF Policies
<1>2. factor \in {0, 1, 2, 3, 4, 6}
  BY DEF Multiplier, Policies, Workloads
<1>3. p.base * factor = 0 \/ p.base * factor >= p.base
  <2> HIDE DEF factor
  <2>1. CASE factor = 0 BY <2>1, <1>1
  <2>2. CASE factor = 1 BY <2>2, <1>1
  <2>3. CASE factor = 2 BY <2>3, <1>1
  <2>4. CASE factor = 3 BY <2>4, <1>1
  <2>5. CASE factor = 4 BY <2>5, <1>1
  <2>6. CASE factor = 6 BY <2>6, <1>1
  <2> QED BY <1>2, <2>1, <2>2, <2>3, <2>4, <2>5, <2>6
<1>4. FullInterval(p) \in Nat /\ FullInterval(p) >= p.base
  BY <1>1, WorkPolicyAssumption DEF FullInterval, Larger
<1>5. ExplicitInterval(ctx, p) \in Nat
  BY DEF ExplicitInterval, Policies, Contexts, NoInterval
<1>6. /\ Larger(ExplicitInterval(ctx, p), p.base) \in Nat
      /\ Larger(ExplicitInterval(ctx, p), p.base) >= p.base
  BY <1>1, <1>5 DEF Larger
<1>7. p.base * factor \in Nat
  BY <1>1, <1>2
<1>8. raw \in Nat /\ (raw = 0 \/ raw >= p.base)
  <2> HIDE DEF factor
  <2> QED
    BY <1>1, <1>3, <1>4, <1>6, <1>7 DEF RawInterval, factor
<1>9. /\ ClampMin(raw, p) \in Nat
      /\ ClampMin(raw, p) >= raw /\ ClampMin(raw, p) >= p.minimum
  <2> HIDE DEF raw
  <2> QED BY <1>1, <1>8 DEF ClampMin, Larger
<1>10. \/ EffectiveInterval(lv, ctx, p) = NoInterval
       \/ raw # 0 /\ EffectiveInterval(lv, ctx, p) = ClampMin(raw, p)
  BY DEF EffectiveInterval
<1> QED
  <2> HIDE DEF raw
  <2> QED BY <1>1, <1>8, <1>9, <1>10 DEF NeverFaster

LEMMA ClampMonotone ==
    ASSUME NEW i \in Nat, NEW j \in Nat, i >= j, NEW p \in Policies
    PROVE  /\ ClampMin(i, p) \in Nat \ {0} /\ ClampMin(j, p) \in Nat \ {0}
           /\ ClampMin(i, p) >= ClampMin(j, p)
BY DEF ClampMin, Larger, Policies

\* Where a capped level admits collection at all, the uncapped one does, as often at least.
LEMMA RawMonotone ==
    ASSUME NEW ctx \in Contexts, NEW p \in Policies, ~Barred(ctx, p),
           Behavior(ctx, p) = "throttle" => ExplicitInterval(ctx, p) # NoInterval,
           NEW l1 \in Levels \ {"suspended"}, NEW l2 \in Levels \ {"suspended"},
           LevelRank[l1] <= LevelRank[l2],
           RawInterval(l1, ctx, p) # 0
    PROVE  /\ RawInterval(l1, ctx, p) \in Nat /\ RawInterval(l2, ctx, p) \in Nat \ {0}
           /\ RawInterval(l1, ctx, p) >= RawInterval(l2, ctx, p)
<1> DEFINE behavior == Behavior(ctx, p)
           explicit == ExplicitInterval(ctx, p)
<1>1. p.base \in Nat \ {0} /\ behavior \in Behaviors /\ explicit \in Nat
  BY DEF Policies, Behavior, Behaviors, ExplicitInterval, Contexts, NoInterval
<1>2. CASE p.scheduled \/ behavior = "keep"
  BY <1>1, <1>2 DEF RawInterval
<1>3. CASE ~p.scheduled /\ behavior = "throttle"
  <2>1. \A lv \in Levels : RawInterval(lv, ctx, p) = Larger(explicit, p.base)
    BY <1>3 DEF RawInterval
  <2> HIDE DEF explicit
  <2>2. Larger(explicit, p.base) \in Nat \ {0}
    BY <1>1 DEF Larger
  <2> QED
    BY <2>1, <2>2
<1>4. CASE ~p.scheduled /\ behavior = "inherit"
  <2>1. \A lv \in Levels :
          RawInterval(lv, ctx, p) = IF lv = "full" THEN FullInterval(p)
                                    ELSE p.base * Multiplier(lv, p.workload)
    BY <1>4 DEF RawInterval, ThrottleLevel
  <2>2. p.workload \in {"live", "normal", "expensive"}
    BY <1>4 DEF Barred, Policies, Workloads
  <2>3. CASE p.workload = "live"
    <3>1. FullInterval(p) = p.base /\ Multiplier("reduced", p.workload) = 2
          /\ Multiplier("minimal", p.workload) = 4
      BY <2>3 DEF FullInterval, Multiplier
    <3> QED
      BY <1>1, <2>1, <3>1 DEF Levels, LevelRank
  <2>4. CASE p.workload = "normal"
    <3>1. FullInterval(p) = p.base /\ Multiplier("reduced", p.workload) = 3
          /\ Multiplier("minimal", p.workload) = 6
      BY <2>4 DEF FullInterval, Multiplier
    <3> QED
      BY <1>1, <2>1, <3>1 DEF Levels, LevelRank
  <2>5. CASE p.workload = "expensive"
    <3>1. \A lv \in Levels \ {"full"} : Multiplier(lv, p.workload) = 0
      BY <2>5 DEF Multiplier
    <3>2. l1 = "full"
      BY <1>1, <2>1, <3>1
    <3>3. l2 = "full"
      BY <3>2 DEF Levels, LevelRank
    <3>4. FullInterval(p) \in Nat \ {0}
      BY <1>1, WorkPolicyAssumption DEF FullInterval, Larger
    <3> QED
      BY <2>1, <3>2, <3>3, <3>4
  <2> QED
    BY <2>2, <2>3, <2>4, <2>5
<1> QED
  BY <1>1, <1>2, <1>3, <1>4 DEF Behaviors, Barred

\* A work level that is capped lower never makes a card be collected more often, in any
\* context and for any policy but one throttled without an interval of its own
\* (effective_interval).
THEOREM CapsBound ==
    ASSUME NEW ctx \in Contexts, NEW p \in Policies
    PROVE  CapsNeverSpeedUp(ctx, p)
<1> SUFFICES ASSUME Behavior(ctx, p) = "throttle" => ExplicitInterval(ctx, p) # NoInterval,
                    NEW l1 \in Levels, NEW l2 \in Levels, LevelRank[l1] <= LevelRank[l2],
                    EffectiveInterval(l1, ctx, p) # NoInterval
             PROVE  /\ EffectiveInterval(l2, ctx, p) # NoInterval
                    /\ EffectiveInterval(l1, ctx, p) >= EffectiveInterval(l2, ctx, p)
  BY DEF CapsNeverSpeedUp, NoMoreOften
<1>1. /\ l1 # "suspended" /\ ~Barred(ctx, p) /\ RawInterval(l1, ctx, p) # 0
      /\ EffectiveInterval(l1, ctx, p) = ClampMin(RawInterval(l1, ctx, p), p)
  BY DEF EffectiveInterval
<1>2. l2 # "suspended"
  BY <1>1 DEF Levels, LevelRank
<1>3. /\ RawInterval(l1, ctx, p) \in Nat /\ RawInterval(l2, ctx, p) \in Nat \ {0}
      /\ RawInterval(l1, ctx, p) >= RawInterval(l2, ctx, p)
  BY <1>1, <1>2, RawMonotone
<1>4. EffectiveInterval(l2, ctx, p) = ClampMin(RawInterval(l2, ctx, p), p)
  BY <1>1, <1>2, <1>3 DEF EffectiveInterval
<1> QED
  BY <1>1, <1>3, <1>4, ClampMonotone DEF NoInterval

\* A battery or a temperature that gets worse lowers the work level, or leaves it.
LEMMA WorseIsLower ==
    ASSUME NEW levels \in Worsenings
    PROVE  /\ levels[1] \in Levels /\ levels[2] \in Levels
           /\ LevelRank[levels[2]] <= LevelRank[levels[1]]
<1>1. \A a, b \in {"minimal", "reduced", "full"} :
         Lower("full", Lower(a, b)) = IF LevelRank[a] <= LevelRank[b] THEN a ELSE b
  BY DEF Lower, Strength, LevelRank
<1>2. \A stage \in Stages, thermal \in Thermals :
         /\ LevelAt(stage, thermal) = Lower("full", Lower(StageCap(stage), ThermalCap(thermal)))
         /\ StageCap(stage) \in {"minimal", "reduced", "full"}
         /\ ThermalCap(thermal) \in {"minimal", "reduced", "full"}
  BY DEF LevelAt, WorkLevel, StageCap, ThermalCap
<1>3. \A a, b, c \in {"minimal", "reduced", "full"} :
         LevelRank[b] <= LevelRank[a] =>
           /\ LevelRank[Lower("full", Lower(b, c))] <= LevelRank[Lower("full", Lower(a, c))]
           /\ LevelRank[Lower("full", Lower(c, b))] <= LevelRank[Lower("full", Lower(c, a))]
  BY <1>1 DEF LevelRank
<1>4. \A a, b \in {"minimal", "reduced", "full"} : Lower("full", Lower(a, b)) \in Levels
  BY <1>1 DEF Levels
<1>5. \A from \in {"normal", "low"}, to \in {"low", "critical"} :
         LevelRank[StageCap(to)] <= LevelRank[StageCap(from)]
  BY DEF StageCap, LevelRank
<1>6. \A from \in {"warm", "hot"}, to \in {"hot", "throttled"} :
         LevelRank[ThermalCap(to)] <= LevelRank[ThermalCap(from)]
  BY DEF ThermalCap, LevelRank
<1>7. CASE \E from \in {"normal", "low"}, to \in {"low", "critical"}, thermal \in Thermals :
             levels = <<LevelAt(from, thermal), LevelAt(to, thermal)>>
  <2>1. PICK from \in {"normal", "low"}, to \in {"low", "critical"}, thermal \in Thermals :
          levels = <<LevelAt(from, thermal), LevelAt(to, thermal)>>
    BY <1>7
  <2>2. levels[1] = LevelAt(from, thermal) /\ levels[2] = LevelAt(to, thermal)
    BY <2>1
  <2>3. from \in Stages /\ to \in Stages
    BY DEF Stages
  <2> QED
    BY <1>2, <1>3, <1>4, <1>5, <2>2, <2>3
<1>8. CASE \E stage \in Stages, from \in {"warm", "hot"}, to \in {"hot", "throttled"} :
             levels = <<LevelAt(stage, from), LevelAt(stage, to)>>
  <2>1. PICK stage \in Stages, from \in {"warm", "hot"}, to \in {"hot", "throttled"} :
          levels = <<LevelAt(stage, from), LevelAt(stage, to)>>
    BY <1>8
  <2>2. levels[1] = LevelAt(stage, from) /\ levels[2] = LevelAt(stage, to)
    BY <2>1
  <2>3. from \in Thermals /\ to \in Thermals
    BY DEF Thermals
  <2> QED
    BY <1>2, <1>3, <1>4, <1>6, <2>2, <2>3
<1> QED
  BY <1>7, <1>8 DEF Worsenings

\* Only a fixed schedule outlives a cap of expensive work, and nothing but hiding stops it.
LEMMA Expensive ==
    ASSUME NEW lv \in Levels, NEW ctx \in Contexts, NEW p \in Policies
    PROVE  /\ (/\ p.workload = "expensive" /\ ~p.scheduled
               /\ Behavior(ctx, p) = "inherit" /\ lv # "full")
                => EffectiveInterval(lv, ctx, p) = NoInterval
           /\ p.scheduled /\ lv # "suspended" => EffectiveInterval(lv, ctx, p) # NoInterval
<1>1. p.base \in Nat \ {0}
  BY DEF Policies
<1>2. ASSUME p.workload = "expensive", ~p.scheduled, Behavior(ctx, p) = "inherit", lv # "full"
      PROVE  EffectiveInterval(lv, ctx, p) = NoInterval
  <2>1. RawInterval(lv, ctx, p) = p.base * Multiplier(lv, p.workload)
        /\ Multiplier(lv, p.workload) = 0
    BY <1>2 DEF RawInterval, ThrottleLevel, Multiplier
  <2> QED
    BY <1>1, <2>1 DEF EffectiveInterval
<1>3. ASSUME p.scheduled, lv # "suspended"
      PROVE  EffectiveInterval(lv, ctx, p) # NoInterval
  <2>1. RawInterval(lv, ctx, p) = p.base /\ ~Barred(ctx, p)
    BY <1>3 DEF RawInterval, Barred
  <2>2. ClampMin(p.base, p) \in Nat \ {0}
    BY <1>1, ClampMonotone
  <2> QED
    BY <1>1, <1>3, <2>1, <2>2 DEF EffectiveInterval, NoInterval
<1> QED
  BY <1>2, <1>3

-----------------------------------------------------------------------------
(* The stages of the battery.                                              *)

LEMMA Thresholds ==
    ASSUME NEW top \in Nat, NEW t \in BatteryThresholds(top)
    PROVE  /\ t.criticalEnter \in Nat /\ t.criticalExit \in Nat
           /\ t.lowEnter \in Nat /\ t.lowExit \in Nat
           /\ t.criticalEnter < t.criticalExit /\ t.criticalExit <= t.lowEnter
           /\ t.lowEnter < t.lowExit
BY DEF BatteryThresholds

\* A capacity that stays ends in a stage that stays, and a stage that was left is not
\* entered again by a capacity next to it (battery_stage_for), for any thresholds the
\* loader accepts.
THEOREM StageHysteresis ==
    ASSUME NEW top \in Nat, NEW t \in BatteryThresholds(top), NEW capacity \in Nat,
           NEW stage \in Stages
    PROVE  StageSettles(capacity, stage, t) /\ StagePersists(capacity, stage, t)
<1>1. StageSettles(capacity, stage, t)
  BY Thresholds DEF StageSettles, BatteryStageFor, Stages
<1>2. StagePersists(capacity, stage, t)
  BY Thresholds DEF StagePersists, BatteryStageFor, Stages
<1> QED
  BY <1>1, <1>2

-----------------------------------------------------------------------------
(* The rules of ConfigRules: what is written is what is read, what is      *)
(* accepted can be run.  Rules!N is N of WorkPolicy.                       *)

\* A duration that a unit divides is that many units, and does not overflow a word.
LEMMA DaysWhole ==
    ASSUME NEW n \in Nat, NEW w \in Nat, n <= w, n % 86400 = 0
    PROVE  n \div 86400 \in Nat /\ (n \div 86400) * 86400 = n /\ ~(n \div 86400 > w \div 86400)
BY SMTT(60)

LEMMA HoursWhole ==
    ASSUME NEW n \in Nat, NEW w \in Nat, n <= w, n % 3600 = 0
    PROVE  n \div 3600 \in Nat /\ (n \div 3600) * 3600 = n /\ ~(n \div 3600 > w \div 3600)
BY SMTT(60)

LEMMA MinutesWhole ==
    ASSUME NEW n \in Nat, NEW w \in Nat, n <= w, n % 60 = 0
    PROVE  n \div 60 \in Nat /\ (n \div 60) * 60 = n /\ ~(n \div 60 > w \div 60)
BY SMTT(60)

LEMMA SecondsWhole ==
    ASSUME NEW n \in Nat, NEW w \in Nat, n <= w
    PROVE  n \div 1 \in Nat /\ (n \div 1) * 1 = n /\ ~(n \div 1 > w \div 1)
BY SMTT(60)

\* What a duration is written as is read as that duration, as long as a u64 holds it
\* (format_duration, parse_duration).
THEOREM DurationsReadBack ==
    ASSUME NEW seconds \in Nat, Word \in Nat, seconds <= Word
    PROVE  Rules!ParseDuration(Rules!FormatDuration(seconds)) = seconds
<1> DEFINE text == Rules!FormatDuration(seconds)
           Fits(unit) == seconds > 0 /\ seconds % Rules!UnitSeconds[unit] = 0
           In(unit, length) == /\ text = [amount |-> seconds \div length, unit |-> unit]
                               /\ seconds % length = 0
<1>1. /\ Rules!UnitSeconds["s"] = 1 /\ Rules!UnitSeconds["m"] = 60
      /\ Rules!UnitSeconds["h"] = 3600 /\ Rules!UnitSeconds["d"] = 86400
      /\ DOMAIN Rules!UnitSeconds = {"s", "m", "h", "d"}
  BY DEF Rules!UnitSeconds
<1>2. \/ In("d", 86400)
      \/ In("h", 3600)
      \/ In("m", 60)
      \/ text = [amount |-> seconds \div 1, unit |-> "s"]
  <2>1. seconds % 86400 = 0 => seconds % 3600 = 0 /\ seconds % 60 = 0
    OBVIOUS
  <2>2. seconds % 3600 = 0 => seconds % 60 = 0
    OBVIOUS
  <2>3. CASE Fits("d")
    BY <1>1, <2>3 DEF Rules!FormatDuration
  <2>4. CASE Fits("h") /\ ~Fits("d")
    BY <1>1, <2>4 DEF Rules!FormatDuration
  <2>5. CASE Fits("m") /\ ~Fits("h")
    BY <1>1, <2>1, <2>5 DEF Rules!FormatDuration
  <2>6. CASE ~Fits("m") /\ ~Fits("h") /\ ~Fits("d")
    BY <1>1, <2>6 DEF Rules!FormatDuration
  <2> QED BY <2>3, <2>4, <2>5, <2>6
<1> HIDE DEF text
<1>3. CASE In("d", 86400)
  BY <1>1, <1>3, DaysWhole DEF Rules!ParseDuration, text
<1>4. CASE In("h", 3600)
  BY <1>1, <1>4, HoursWhole DEF Rules!ParseDuration, text
<1>5. CASE In("m", 60)
  BY <1>1, <1>5, MinutesWhole DEF Rules!ParseDuration, text
<1>6. CASE text = [amount |-> seconds \div 1, unit |-> "s"]
  BY <1>1, <1>6, SecondsWhole DEF Rules!ParseDuration, text
<1> QED BY <1>2, <1>3, <1>4, <1>5, <1>6

Times == 0 .. Word

RuntimeTables ==
    [workload : {"auto"} \cup Workloads, inactive : Behaviors, idle : Behaviors,
     inactiveInterval : Int \cup {None}, idleInterval : Int \cup {None},
     minimum : Int \cup {None}]

\* None is no value of a field and no text.
LEMMA NoneApart ==
    /\ None \notin Int /\ None \notin BOOLEAN /\ None \notin {"value", "chart"}
    /\ None \notin {"auto"} \cup Workloads \cup Behaviors
    /\ \A seconds \in Nat : Rules!FormatDuration(seconds) # None
    /\ \A r \in RuntimeTables : Rules!WrittenRuntime(r) # None
<1>1. None \notin Int /\ None \notin BOOLEAN /\ None \notin {"value", "chart"}
  BY DocumentsAssumption
<1>2. None \notin {"auto"} \cup Workloads \cup Behaviors
  BY DocumentsAssumption
<1>3. ASSUME NEW seconds \in Nat
      PROVE  Rules!FormatDuration(seconds) # None
  <2>1. /\ Rules!UnitSeconds["s"] = 1 /\ Rules!UnitSeconds["m"] = 60
        /\ Rules!UnitSeconds["h"] = 3600 /\ Rules!UnitSeconds["d"] = 86400
    BY DEF Rules!UnitSeconds
  <2>2. \E unit \in {"d", "h", "m", "s"} :
          Rules!FormatDuration(seconds) = [amount |-> seconds \div Rules!UnitSeconds[unit], unit |-> unit]
    BY DEF Rules!FormatDuration
  <2>3. \A unit \in {"d", "h", "m", "s"} : seconds \div Rules!UnitSeconds[unit] \in Int
    BY <2>1
  <2>4. Rules!FormatDuration(seconds) \in [amount : Int, unit : {"d", "h", "m", "s"}]
    BY <2>2, <2>3
  <2> QED BY <2>4, DocumentsAssumption
<1>4. ASSUME NEW r \in RuntimeTables
      PROVE  Rules!WrittenRuntime(r) # None
  <2> DEFINE Fields == {"workload", "inactive", "idle", "inactiveInterval", "idleInterval", "minimum"}
             Values == Int \cup {"auto"} \cup Workloads \cup Behaviors \cup {None}
             w == Rules!WrittenRuntime(r)
  <2>1. DOMAIN r = Fields /\ DOMAIN Rules!DefaultRuntime = Fields /\ \A f \in Fields : r[f] \in Values
    BY DEF RuntimeTables, Rules!DefaultRuntime
  <2>2. w = [f \in Fields |-> Rules!Kept(r[f], Rules!DefaultRuntime[f])]
    BY <2>1 DEF Rules!WrittenRuntime
  <2>3. \A f \in Fields : Rules!Kept(r[f], Rules!DefaultRuntime[f]) \in Values
    BY <2>1 DEF Rules!Kept
  <2> HIDE DEF Fields, w
  <2>4. w \in [Fields -> Values]
    BY <2>2, <2>3
  <2> QED BY <2>1, <2>4, DocumentsAssumption DEF w
<1> QED BY <1>1, <1>2, <1>3, <1>4

\* The time of a card: None is no text.
LEMMA TimesReadBack ==
    ASSUME NEW time, NEW default, time \in Times \/ time = None
    PROVE  /\ time # None => Rules!GivenTime(Rules!Duration(Rules!Kept(time, default)), default) = time
           /\ Rules!GivenTime(Rules!Duration(time), None) = time
<1>0. Word \in Nat
  BY DocumentsAssumption
<1>1. CASE time = None
  BY <1>1 DEF Rules!GivenTime, Rules!Duration, Rules!Kept
<1>2. CASE time # None
  <2>1. Rules!ParseDuration(Rules!FormatDuration(time)) = time
    BY <1>0, <1>2, DurationsReadBack DEF Times
  <2>2. Rules!FormatDuration(time) # None
    BY <1>0, <1>2, NoneApart DEF Times
  <2> QED
    BY <1>2, <2>1, <2>2 DEF Rules!GivenTime, Rules!Duration, Rules!Kept
<1> QED BY <1>1, <1>2

\* What a card is written with, of a card that is in memory.
Saveable(card) ==
    /\ card.order \in Int /\ card.renderer # None /\ card.enabled \in BOOLEAN
    /\ card.refresh \in Times /\ card.timeout \in Times /\ card.cacheTtl \in Times \cup {None}
    /\ card.runtime \in RuntimeTables

\* A value left out as the default is given the default again.
LEMMA ValuesReadBack ==
    ASSUME NEW value, NEW default, value # None \/ default = None
    PROVE  Rules!Given(Rules!Kept(value, default), default) = value
BY DEF Rules!Given, Rules!Kept

\* So is a runtime section, field by field.
LEMMA RuntimesReadBack ==
    ASSUME NEW r \in RuntimeTables
    PROVE  /\ Rules!WrittenRuntime(r) # None
           /\ [f \in DOMAIN Rules!DefaultRuntime |->
                 Rules!Given(Rules!WrittenRuntime(r)[f], Rules!DefaultRuntime[f])] = r
<1> DEFINE Fields == {"workload", "inactive", "idle", "inactiveInterval", "idleInterval", "minimum"}
<1>1. DOMAIN r = Fields /\ DOMAIN Rules!DefaultRuntime = Fields /\ r = [f \in Fields |-> r[f]]
  BY DEF RuntimeTables, Rules!DefaultRuntime
<1>2. ASSUME NEW f \in Fields
      PROVE  r[f] # None \/ Rules!DefaultRuntime[f] = None
  <2>1. None \notin {"auto"} \cup Workloads \cup Behaviors
    BY NoneApart
  <2>2. f \in {"workload", "inactive", "idle"} => r[f] \in {"auto"} \cup Workloads \cup Behaviors
    BY DEF RuntimeTables
  <2>3. f \in {"inactiveInterval", "idleInterval", "minimum"} => Rules!DefaultRuntime[f] = None
    BY DEF Rules!DefaultRuntime
  <2> QED BY <2>1, <2>2, <2>3
<1>3. ASSUME NEW f \in Fields
      PROVE  Rules!Given(Rules!WrittenRuntime(r)[f], Rules!DefaultRuntime[f]) = r[f]
  <2>1. Rules!WrittenRuntime(r)[f] = Rules!Kept(r[f], Rules!DefaultRuntime[f])
    BY <1>1 DEF Rules!WrittenRuntime
  <2> QED BY <1>2, <2>1, ValuesReadBack
<1>4. Rules!WrittenRuntime(r) # None
  BY NoneApart
<1> QED BY <1>1, <1>3, <1>4

\* A card that is saved is the card that is loaded again (CardConfig and the defaults of
\* its fields), whichever of them are left out.
THEOREM CardsReadBack ==
    ASSUME NEW card, Saveable(card)
    PROVE  Rules!ReadsBack(card)
<1> DEFINE again == Rules!Read(Rules!Written(card))
<1>1. again.refresh = card.refresh /\ again.timeout = card.timeout /\ again.cacheTtl = card.cacheTtl
  <2>1. card.refresh # None /\ card.timeout # None
    BY DocumentsAssumption, NoneApart DEF Saveable, Times
  <2> QED
    BY <2>1, TimesReadBack DEF Saveable, Rules!Read, Rules!Written
<1>2. again.order = card.order /\ again.renderer = card.renderer /\ again.enabled = card.enabled
  <2>1. card.order # None /\ card.renderer # None /\ card.enabled # None
    BY NoneApart DEF Saveable
  <2> QED
    BY <2>1, ValuesReadBack DEF Rules!Read, Rules!Written
<1>3. again.runtime = card.runtime
  BY RuntimesReadBack DEF Saveable, Rules!Read, Rules!Written
<1>4. DOMAIN again = {"order", "renderer", "enabled", "refresh", "cacheTtl", "timeout", "runtime"}
  BY DEF Rules!Read
<1> HIDE DEF again
<1>5. \A f \in DOMAIN again : again[f] = card[f]
  BY <1>1, <1>2, <1>3, <1>4
<1> QED BY <1>5 DEF Rules!ReadsBack, again

\* The limits of the loader leave room for the greatest setting, and for a byte.
LEMMA Limits ==
    /\ Rules!MaxDurationSeconds \in Nat /\ Rules!MaxDurationSeconds >= 3600
    /\ Rules!MaxOutputBytes \in Nat \ {0}
    /\ Rules!HardMaxLease = 300
BY DEF Rules!MaxDurationSeconds, Rules!MaxOutputBytes, Rules!HardMaxLease

RuntimeFields ==
    {"quietStart", "quietEnd", "lease", "criticalEnter", "criticalExit", "lowEnter", "lowExit",
     "grace", "idleTimeout", "idleStability", "powerSample", "thermalSample", "attention",
     "brightness"}

\* Whatever the settings page can set in a runtime section is one the loader accepts, and
\* the rest of the section is what it was (add_settings_content_with_context,
\* validate_runtime).
THEOREM SettingsAlwaysAccepted ==
    ASSUME NEW runtime \in [RuntimeFields -> Int]
    PROVE  Rules!SettingsAccepted(runtime)
<1> SUFFICES ASSUME Rules!AcceptsRuntime(runtime), NEW field \in DOMAIN Rules!SpinRange,
                    NEW changed \in Rules!Settings(runtime, field)
             PROVE  Rules!AcceptsRuntime(changed)
  BY DEF Rules!SettingsAccepted
<1>1. PICK value \in Rules!SpinRange[field] : changed = [runtime EXCEPT ![field] = value]
  BY DEF Rules!Settings
<1>2. field \in {"grace", "idleTimeout", "idleStability", "brightness", "quietStart", "quietEnd",
                 "lease", "attention"}
  BY DEF Rules!SpinRange
<1>3. /\ value \in 0 .. 3600
      /\ field \in {"quietStart", "quietEnd"} => value <= 23
      /\ field = "lease" => value \in 1 .. 300
      /\ field = "brightness" => value <= 100
  BY <1>1, <1>2 DEF Rules!SpinRange
<1>4. \A other \in RuntimeFields :
        changed[other] = IF other = field THEN value ELSE runtime[other]
  BY <1>1
<1>5. \A other \in RuntimeFields : runtime[other] \in Int
  OBVIOUS
<1>6. changed.quietStart <= 23 /\ changed.quietEnd <= 23 /\ changed.brightness <= 100
  BY <1>2, <1>3, <1>4, <1>5 DEF Rules!AcceptsRuntime, RuntimeFields
<1>7. changed.lease \in 1 .. Rules!HardMaxLease
  BY <1>2, <1>3, <1>4, <1>5, Limits DEF Rules!AcceptsRuntime, RuntimeFields
<1>8. /\ changed.criticalEnter < changed.criticalExit /\ changed.criticalExit <= changed.lowEnter
      /\ changed.lowEnter < changed.lowExit /\ changed.lowExit <= 100
  BY <1>2, <1>4 DEF Rules!AcceptsRuntime, RuntimeFields
<1>9. ASSUME NEW f \in {"grace", "idleTimeout", "idleStability", "powerSample", "thermalSample",
                       "attention"}
      PROVE  changed[f] <= Rules!MaxDurationSeconds
  <2>1. runtime[f] <= Rules!MaxDurationSeconds /\ runtime[f] \in Int /\ f \in RuntimeFields
    BY <1>5 DEF Rules!AcceptsRuntime, RuntimeFields
  <2>2. changed[f] = value \/ changed[f] = runtime[f]
    BY <1>4, <2>1
  <2> QED BY <1>3, <2>1, <2>2, Limits
<1> QED
  BY <1>6, <1>7, <1>8, <1>9 DEF Rules!AcceptsRuntime

\* Whatever the global bound is reloaded to, an accepted action holds no more than its own
\* bound or that one, and no less than a byte (execute_action_async, CommandMetric::collect).
THEOREM ActionsAlwaysBudgeted ==
    ASSUME NEW action, NEW pages, NEW global \in Nat, global <= Rules!MaxOutputBytes
    PROVE  Rules!Budgeted(action, pages, global)
<1> SUFFICES ASSUME Rules!AcceptsAction(action, pages)
             PROVE  LET budget == Rules!OutputBudget(action.output, global)
                    IN  /\ budget >= 1 /\ budget <= Rules!MaxOutputBytes
                        /\ global >= 1 => budget <= global
                        /\ global >= 1 /\ action.output # None
                             => budget = Rules!Smaller(action.output, global)
  BY DEF Rules!Budgeted
<1>1. action.output = None \/ action.output \in 1 .. Rules!MaxOutputBytes
  BY DEF Rules!AcceptsAction, Rules!Optional
<1>2. CASE action.output = None
  BY <1>2, Limits DEF Rules!OutputBudget, Rules!Given, Rules!Larger, Rules!Smaller
<1>3. CASE action.output # None
  BY <1>1, <1>3, Limits
     DEF Rules!OutputBudget, Rules!Given, Rules!Larger, Rules!Smaller
<1> QED
  BY <1>2, <1>3

\* What the fields of a card's runtime section are parsed into.
Parsed(r) ==
    /\ r.workload \in {"auto"} \cup Rules!Workloads
    /\ r.inactive \in Rules!Behaviors /\ r.idle \in Rules!Behaviors

\* An accepted source has a workload of its own.
LEMMA SourcesHaveWorkload ==
    ASSUME NEW source, Rules!AcceptsSource(source)
    PROVE  Rules!AutoWorkload(source) \in Rules!Workloads
BY DEF Rules!AcceptsSource, Rules!AutoWorkload, Rules!Workloads

\* A full permit in the active context collects what something drives.
LEMMA DrivenIsCollected ==
    ASSUME NEW p \in Rules!Policies, p.workload # "event" \/ p.scheduled
    PROVE  Rules!EffectiveInterval("full", "active", p) # Rules!NoInterval
<1>1. Rules!RawInterval("full", "active", p) \in Nat \ {0}
  BY WorkPolicyAssumption
     DEF Rules!RawInterval, Rules!Behavior, Rules!FullInterval, Rules!Larger, Rules!Policies
<1>2. ~Rules!Barred("active", p)
  BY DEF Rules!Barred, Rules!Behavior, Rules!Policies
<1>3. Rules!ClampMin(Rules!RawInterval("full", "active", p), p) \in Nat \ {0}
  BY <1>1 DEF Rules!ClampMin, Rules!Larger, Rules!Policies
<1> QED
  BY <1>1, <1>2, <1>3 DEF Rules!EffectiveInterval, Rules!NoInterval

\* The policy of any card the loader accepts is one the scheduler can run (validate_card,
\* task_policy): an interval that is given is at least a second, and unless nothing drives
\* the card it is collected under a full permit.
THEOREM AcceptedIsRunnable ==
    ASSUME NEW card, NEW pages, NEW actions, Parsed(card.runtime)
    PROVE  Rules!Runnable(card, pages, actions)
<1> SUFFICES ASSUME Rules!AcceptsCard(card, pages, actions)
             PROVE  LET policy == Rules!TaskPolicyOf(card)
                    IN  /\ policy \in Rules!Policies
                        /\ \A f \in {"inactiveInterval", "idleInterval", "minimum"} :
                             card.runtime[f] # None => policy[f] # Rules!NoInterval
                        /\ (policy.workload # "event" \/ policy.scheduled)
                             => Rules!EffectiveInterval("full", "active", policy) # Rules!NoInterval
  BY DEF Rules!Runnable
<1> DEFINE policy == Rules!TaskPolicyOf(card)
<1>1. card.refresh \in Nat \ {0}
  <2>1. card.refresh \in 1 .. Rules!MaxDurationSeconds
    BY DEF Rules!AcceptsCard
  <2> QED BY <2>1, Limits
<1>2. ASSUME NEW f \in {"inactiveInterval", "idleInterval", "minimum"}
      PROVE  card.runtime[f] = None \/ card.runtime[f] \in Nat \ {0}
  BY Limits DEF Rules!AcceptsCard, Rules!OptionalInterval, Rules!Optional
<1>3. policy.workload \in Rules!Workloads
  BY SourcesHaveWorkload DEF Rules!AcceptsCard, Rules!TaskPolicyOf, Parsed
<1>4. ASSUME NEW f \in {"inactiveInterval", "idleInterval", "minimum"}
      PROVE  policy[f] \in Nat /\ (card.runtime[f] # None => policy[f] # Rules!NoInterval)
  BY <1>2 DEF Rules!TaskPolicyOf, Rules!NoInterval
<1>5. policy \in Rules!Policies
  BY <1>1, <1>3, <1>4 DEF Rules!TaskPolicyOf, Parsed, Rules!Policies
<1> HIDE DEF policy
<1>6. policy.workload # "event" \/ policy.scheduled
        => Rules!EffectiveInterval("full", "active", policy) # Rules!NoInterval
  BY <1>5, DrivenIsCollected
<1> QED BY <1>4, <1>5, <1>6 DEF policy

\* A varied record has in each field what it had, or one of the values of that field.
LEMMA VariedFields ==
    ASSUME NEW base, NEW values, NEW varied \in Rules!Varied(base, values), NEW f \in DOMAIN base
    PROVE  varied[f] = base[f] \/ (f \in DOMAIN values /\ varied[f] \in values[f])
<1>1. CASE varied = base
  BY <1>1
<1>2. CASE \E g \in DOMAIN values, h \in DOMAIN values : \E v \in values[g], w \in values[h] :
             varied = [base EXCEPT ![g] = v, ![h] = w]
  <2>1. PICK g \in DOMAIN values, h \in DOMAIN values :
               \E v \in values[g], w \in values[h] : varied = [base EXCEPT ![g] = v, ![h] = w]
    BY <1>2
  <2>2. PICK v \in values[g], w \in values[h] : varied = [base EXCEPT ![g] = v, ![h] = w]
    BY <2>1
  <2>3. varied[f] = IF f = h THEN w ELSE IF f = g THEN v ELSE base[f]
    BY <2>2
  <2> QED BY <2>3
<1> QED BY <1>1, <1>2 DEF Rules!Varied

LEMMA VariedDomain ==
    ASSUME NEW base, NEW values, NEW varied \in Rules!Varied(base, values),
           base = [f \in DOMAIN base |-> base[f]]
    PROVE  varied = [f \in DOMAIN base |-> varied[f]]
BY DEF Rules!Varied

\* The cards, settings and bounds of the run have fields of these kinds.
LEMMA CardInputs ==
    ASSUME NEW card \in Rules!CardSamples
    PROVE  Parsed(card.runtime)
<1> DEFINE Tables == Rules!CardValues["runtime"]
<1>1. card.runtime = Rules!DefaultRuntime \/ card.runtime \in Tables
  <2>1. "runtime" \in DOMAIN Rules!Card /\ Rules!Card["runtime"] = Rules!DefaultRuntime
    BY DEF Rules!Card
  <2> QED BY <2>1, VariedFields DEF Rules!CardSamples
<1>2. Parsed(Rules!DefaultRuntime)
  BY DEF Rules!DefaultRuntime, Parsed, Rules!Behaviors
<1>3. ASSUME NEW r \in Tables
      PROVE  Parsed(r)
  <2> DEFINE varying == [workload |-> {"auto"} \cup Rules!Workloads, inactive |-> Rules!Behaviors,
                         inactiveInterval |-> {None, 0, 1, 60}, minimum |-> {None, 0, 90}]
  <2>1. r \in Rules!Varied(Rules!DefaultRuntime, varying)
    BY <1>3 DEF Rules!CardValues, Rules!Workloads, Rules!Behaviors
  <2>2. {"workload", "inactive", "idle"} \subseteq DOMAIN Rules!DefaultRuntime
    BY DEF Rules!DefaultRuntime
  <2>3. /\ varying["workload"] = {"auto"} \cup Rules!Workloads /\ varying["inactive"] = Rules!Behaviors
        /\ "idle" \notin DOMAIN varying
    OBVIOUS
  <2> HIDE DEF varying
  <2>4. \A f \in {"workload", "inactive", "idle"} :
          r[f] = Rules!DefaultRuntime[f] \/ (f \in DOMAIN varying /\ r[f] \in varying[f])
    BY <2>1, <2>2, VariedFields
  <2> QED
    BY <1>2, <2>3, <2>4 DEF Parsed
<1> QED BY <1>1, <1>2, <1>3

LEMMA GlobalsWithin ==
    ASSUME NEW global \in Rules!GlobalBounds
    PROVE  global \in Nat /\ global <= Rules!MaxOutputBytes
<1>1. 2 <= Rules!MaxOutputBytes
  BY DEF Rules!MaxOutputBytes
<1> QED BY <1>1, Limits DEF Rules!GlobalBounds

LEMMA RuntimeInputs == Rules!RuntimeSamples \subseteq [RuntimeFields -> Int]
<1> SUFFICES ASSUME NEW runtime \in Rules!RuntimeSamples
             PROVE  runtime \in [RuntimeFields -> Int]
  OBVIOUS
<1> DEFINE varying ==
             [quietStart |-> {0, 23, 24}, lease |-> {0, 1, 300, 301}, criticalEnter |-> {8, 12},
              lowEnter |-> {11, 12, 25}, lowExit |-> {100, 101},
              grace |-> {0, Rules!MaxDurationSeconds + 1}, brightness |-> {0, 100, 101}]
<1>1. runtime \in Rules!Varied(Rules!RuntimeSection, varying)
  BY DEF Rules!RuntimeSamples
<1>2. Rules!RuntimeSection \in [RuntimeFields -> Int] /\ DOMAIN Rules!RuntimeSection = RuntimeFields
  BY DEF Rules!RuntimeSection, RuntimeFields
<1>3. \A f \in DOMAIN varying : varying[f] \subseteq Int
  BY DEF Rules!MaxDurationSeconds
<1> HIDE DEF varying
<1>4. runtime = [f \in RuntimeFields |-> runtime[f]]
  BY <1>1, <1>2, VariedDomain
<1>5. \A f \in RuntimeFields : runtime[f] \in Int
  BY <1>1, <1>2, <1>3, VariedFields
<1> QED BY <1>4, <1>5

-----------------------------------------------------------------------------
(* The rows of MCTables.                                                   *)

\* An input stays in its table.
Inputs ==
    /\ table = "intervals" => input \in SmallPolicies
    /\ table = "quiet"     => input \in Windows
    /\ table = "battery"   => input \in Batteries
    /\ table = "card"      => input \in Rules!CardSamples
    /\ table = "runtime"   => input \in Rules!RuntimeSamples
    /\ table = "action"    => input \in Rules!ActionSamples \X Rules!GlobalBounds

LEMMA InitInputs == InitAll => Inputs
BY DEF InitAll, Inputs

LEMMA NextInputs == Inputs /\ [Look \/ Use]_<<lookup, vars>> => Inputs'
BY DEF Look, Use, lookup, Inputs

LEMMA PolicyInput == SmallPolicies \subseteq Policies
BY TablesAssumption DEF SmallPolicies, Policies

LEMMA IntervalRows == Inputs => IntervalsRespected
<1> SUFFICES ASSUME input \in Policies
             PROVE  BaseRespected /\ CapsRespected /\ ExpensiveCapped
  BY PolicyInput DEF Inputs, IntervalsRespected, Of
<1>1. BaseRespected
  BY IntervalBounds DEF BaseRespected
<1>2. CapsRespected
  <2> SUFFICES ASSUME NEW context \in Contexts, NEW levels \in Worsenings,
                      Behavior(context, input) = "throttle"
                        => ExplicitInterval(context, input) # NoInterval
               PROVE  NoMoreOften(EffectiveInterval(levels[2], context, input),
                                  EffectiveInterval(levels[1], context, input))
    BY DEF CapsRespected
  <2>1. CapsNeverSpeedUp(context, input)
    BY CapsBound
  <2> QED
    BY <2>1, WorseIsLower DEF CapsNeverSpeedUp
<1>3. ExpensiveCapped
  BY Expensive DEF ExpensiveCapped
<1> QED
  BY <1>1, <1>2, <1>3

LEMMA EdgeRows == Inputs => EdgesHold
<1> SUFFICES ASSUME Inputs
             PROVE  EdgesHold
  OBVIOUS
<1>1. ASSUME table = "quiet", NEW second \in 0 .. DaySeconds - 1
      PROVE  BoundaryAnnounced(input, second)
  <2>1. input.quietStart \in Nat /\ input.quietEnd \in Nat
    BY <1>1, RuntimePolicyAssumption DEF Inputs, Windows
  <2> QED
    BY <2>1, Boundary DEF BoundaryAnnounced
<1>2. ASSUME table = "battery"
      PROVE  /\ StageSettles(input.capacity, input.stage, input.thresholds)
             /\ StagePersists(input.capacity, input.stage, input.thresholds)
  <2>1. /\ input.capacity \in Nat /\ input.stage \in Stages
        /\ input.thresholds \in BatteryThresholds(MaxCapacity)
    BY <1>2, TablesAssumption DEF Inputs, Batteries
  <2> QED
    BY <2>1, StageHysteresis, TablesAssumption
<1> QED
  BY <1>1, <1>2 DEF EdgesHold, Of

\* No permit makes a card be collected more often than was configured, one that gets worse
\* makes none more often than before, and expensive work is capped (effective_interval), for
\* intervals of any length.
THEOREM IntervalsAlwaysRespected == SpecAll => []IntervalsRespected
BY InitInputs, NextInputs, IntervalRows, PTL DEF SpecAll

\* Quiet hours change exactly where their boundary was announced a second before, and the
\* stages of the battery do not chase each other (seconds_until_quiet_boundary,
\* battery_stage_for): for hours and days of any length, and any thresholds.
THEOREM EdgesAlwaysHold == SpecAll => []EdgesHold
BY InitInputs, NextInputs, EdgeRows, PTL DEF SpecAll

LEMMA LoadedRows == Inputs => LoadedIsRunnable
<1> SUFFICES ASSUME Inputs
             PROVE  LoadedIsRunnable
  OBVIOUS
<1>1. ASSUME table = "card"
      PROVE  Rules!Runnable(input, {"monitor"}, {"act"})
  BY <1>1, CardInputs, AcceptedIsRunnable DEF Inputs
<1>2. ASSUME table = "runtime"
      PROVE  Rules!SettingsAccepted(input)
  BY <1>2, RuntimeInputs, SettingsAlwaysAccepted DEF Inputs
<1>3. ASSUME table = "action"
      PROVE  Rules!Budgeted(input[1], {"monitor"}, input[2])
  <2>1. input[2] \in Rules!GlobalBounds
    BY <1>3 DEF Inputs
  <2>2. input[2] \in Nat /\ input[2] <= Rules!MaxOutputBytes
    BY <2>1, GlobalsWithin
  <2> QED BY <2>2, ActionsAlwaysBudgeted
<1> QED
  BY <1>1, <1>2, <1>3 DEF LoadedIsRunnable, Of

\* What the loader accepts can be run, what the settings page sets is accepted, and an
\* action keeps within its bound and the global one: the rows of the run are instances of
\* AcceptedIsRunnable, SettingsAlwaysAccepted and ActionsAlwaysBudgeted, which hold for any
\* values (validate_card, validate_runtime, validate_action, task_policy).
THEOREM LoadedAlwaysRunnable == SpecAll => []LoadedIsRunnable
BY InitInputs, NextInputs, LoadedRows, PTL DEF SpecAll

-----------------------------------------------------------------------------
(* The documents of the third schema.                                      *)

LEMMA RenamedIs ==
    /\ DOMAIN Legacy!Renamed = {"power_sample_seconds", "agent_attention_seconds",
                                "agent_completion_sound", "external_boost", "idle_view"}
    /\ Legacy!Renamed["power_sample_seconds"] = "external_sample_seconds"
    /\ Legacy!Renamed["agent_attention_seconds"] = "codex_attention_seconds"
    /\ Legacy!Renamed["agent_completion_sound"] = "codex_completion_sound"
    /\ Legacy!Renamed["external_boost"] = "external_realtime"
    /\ Legacy!Renamed["idle_view"] = "idle_display"
BY DEF Legacy!Renamed

LEMMA RenamedValues ==
    ASSUME NEW new \in DOMAIN Legacy!Renamed
    PROVE  /\ Legacy!Renamed[new] \in Legacy!V3Fields
           /\ Legacy!V3Values(Legacy!Renamed[new]) \subseteq Legacy!V4Values(new)
           /\ new \in Legacy!V4RuntimeFields
           /\ new # "profile" /\ new # "screen_inhibit"
<1>1. CASE new = "power_sample_seconds"
  BY <1>1, RenamedIs
     DEF Legacy!V3Fields, Legacy!CountFields, Legacy!BooleanFields, Legacy!V3Values,
         Legacy!V4Values, Legacy!V4RuntimeFields
<1>2. CASE new = "agent_attention_seconds"
  BY <1>2, RenamedIs
     DEF Legacy!V3Fields, Legacy!CountFields, Legacy!BooleanFields, Legacy!V3Values,
         Legacy!V4Values, Legacy!V4RuntimeFields
<1>3. CASE new = "agent_completion_sound"
  BY <1>3, RenamedIs
     DEF Legacy!V3Fields, Legacy!CountFields, Legacy!BooleanFields, Legacy!V3Values,
         Legacy!V4Values, Legacy!V4RuntimeFields
<1>4. CASE new = "external_boost"
  BY <1>4, RenamedIs
     DEF Legacy!V3Fields, Legacy!CountFields, Legacy!BooleanFields, Legacy!V3Values,
         Legacy!V4Values, Legacy!V4RuntimeFields
<1>5. CASE new = "idle_view"
  BY <1>5, RenamedIs
     DEF Legacy!V3Fields, Legacy!CountFields, Legacy!BooleanFields, Legacy!V3Values,
         Legacy!V4Values, Legacy!V4RuntimeFields
<1> QED
  BY <1>1, <1>2, <1>3, <1>4, <1>5, RenamedIs

\* What a table that is converted becomes, field by field.
LEMMA Converted ==
    ASSUME NEW t, Legacy!MigratedRuntime(t) # Refusal
    PROVE  /\ DOMAIN Legacy!MigratedRuntime(t)
                = Legacy!MadeFields(t) \cup (DOMAIN t \ Legacy!V3Fields)
           /\ \A f \in DOMAIN t \cap Legacy!V3Fields : t[f] \in Legacy!V3Values(f)
           /\ \A f \in Legacy!MadeFields(t) : Legacy!MigratedRuntime(t)[f] = Legacy!Made(t, f)
           /\ \A f \in (DOMAIN t \ Legacy!V3Fields) \ Legacy!MadeFields(t) :
                  Legacy!MigratedRuntime(t)[f] = t[f]
<1>1. ~ \E f \in DOMAIN t \cap Legacy!V3Fields : t[f] \notin Legacy!V3Values(f)
  BY DEF Legacy!MigratedRuntime
<1>2. Legacy!MigratedRuntime(t)
        = [f \in Legacy!MadeFields(t) \cup (DOMAIN t \ Legacy!V3Fields) |->
             IF f \in Legacy!MadeFields(t) THEN Legacy!Made(t, f) ELSE t[f]]
  BY <1>1 DEF Legacy!MigratedRuntime
<1> QED
  BY <1>1, <1>2

LEMMA MadeCases ==
    ASSUME NEW t
    PROVE  /\ \A new \in DOMAIN Legacy!Renamed :
                 Legacy!Has(t, Legacy!Renamed[new]) =>
                    new \in Legacy!MadeFields(t) /\ Legacy!Made(t, new) = t[Legacy!Renamed[new]]
           /\ \A f \in Legacy!MadeFields(t) :
                 \/ f \in DOMAIN Legacy!Renamed /\ Legacy!Has(t, Legacy!Renamed[f])
                 \/ f = "profile"
                 \/ f = "screen_inhibit" /\ Legacy!Has(t, "keep_screen_on")
           /\ Legacy!Made(t, "profile") = Legacy!MigratedProfile(t)
           /\ Legacy!Made(t, "screen_inhibit")
                = IF t["keep_screen_on"] = "true" THEN "while-mapped" ELSE "never"
           /\ "profile" \in Legacy!MadeFields(t)
                <=> Legacy!Has(t, "idle_power_saving") \/ Legacy!Has(t, "refresh_saving_strength")
           /\ "screen_inhibit" \in Legacy!MadeFields(t) <=> Legacy!Has(t, "keep_screen_on")
<1>1. \A new \in DOMAIN Legacy!Renamed : new # "profile" /\ new # "screen_inhibit"
  BY RenamedValues
<1>2. \A new \in DOMAIN Legacy!Renamed : Legacy!Made(t, new) = t[Legacy!Renamed[new]]
  BY <1>1 DEF Legacy!Made
<1>3. Legacy!Made(t, "profile") = Legacy!MigratedProfile(t)
  BY DEF Legacy!Made
<1>4. Legacy!Made(t, "screen_inhibit")
        = IF t["keep_screen_on"] = "true" THEN "while-mapped" ELSE "never"
  BY DEF Legacy!Made
<1>5. "profile" \notin DOMAIN Legacy!Renamed /\ "screen_inhibit" \notin DOMAIN Legacy!Renamed
  BY <1>1
<1> QED
  BY <1>2, <1>3, <1>4, <1>5 DEF Legacy!MadeFields

\* What `config migrate` makes of a runtime section of the third schema is one the fourth
\* reads: no field of the third is left, and every value made is one of the fourth's
\* (migrate_toml_runtime, migrate_json_value, validate_migrated_document).
THEOREM RuntimeAlwaysFits ==
    ASSUME NEW t
    PROVE  Legacy!RuntimeFits(t)
<1> DEFINE m == Legacy!MigratedRuntime(t)
           kept == Legacy!Without(t, Legacy!V3Fields)
<1> SUFFICES ASSUME m # Refusal, Legacy!Fits(kept, Legacy!V4RuntimeFields)
             PROVE  Legacy!Fits(m, Legacy!V4RuntimeFields)
  BY DEF Legacy!RuntimeFits
<1>1. DOMAIN kept = DOMAIN t \ Legacy!V3Fields /\ \A f \in DOMAIN kept : kept[f] = t[f]
  BY DEF Legacy!Without
<1>2. \A f \in DOMAIN t \ Legacy!V3Fields : f \in Legacy!V4RuntimeFields /\ t[f] \in Legacy!V4Values(f)
  BY <1>1 DEF Legacy!Fits
<1>3. ASSUME NEW f \in Legacy!MadeFields(t)
      PROVE  f \in Legacy!V4RuntimeFields /\ Legacy!Made(t, f) \in Legacy!V4Values(f)
  <2>1. CASE f \in DOMAIN Legacy!Renamed /\ Legacy!Has(t, Legacy!Renamed[f])
    <3>1. t[Legacy!Renamed[f]] \in Legacy!V3Values(Legacy!Renamed[f])
      BY <2>1, Converted, RenamedValues DEF Legacy!Has
    <3> QED
      BY <2>1, <3>1, MadeCases, RenamedValues
  <2>2. CASE f = "profile"
    <3>1. Legacy!Made(t, f) \in {"performance", "balanced", "eco"}
      BY <2>2, MadeCases DEF Legacy!MigratedProfile
    <3>2. Legacy!V4Values(f) = {"performance", "balanced", "eco"}
      BY <2>2 DEF Legacy!V4Values
    <3> QED
      BY <2>2, <3>1, <3>2 DEF Legacy!V4RuntimeFields
  <2>3. CASE f = "screen_inhibit"
    <3>1. Legacy!Made(t, f) \in {"never", "while-mapped"}
      BY <2>3, MadeCases
    <3>2. Legacy!V4Values(f) = {"never", "while-active", "while-mapped"}
      BY <2>3 DEF Legacy!V4Values
    <3> QED
      BY <2>3, <3>1, <3>2 DEF Legacy!V4RuntimeFields
  <2> QED
    BY <2>1, <2>2, <2>3, MadeCases
<1> HIDE DEF kept
<1> QED
  BY <1>2, <1>3, Converted DEF Legacy!Fits

\* ... and says what the user had said: no saving while idle, the strongest saving, the
\* screen that was kept on, and the fields that were only renamed (migrated_profile).
THEOREM MeaningAlwaysKept ==
    ASSUME NEW t
    PROVE  Legacy!MeaningKept(t)
<1> DEFINE m == Legacy!MigratedRuntime(t)
           Asked(field, value) == Legacy!Has(t, field) /\ t[field] = value
           Says(field, value)  == Legacy!Has(m, field) /\ m[field] = value
<1> SUFFICES ASSUME m # Refusal
             PROVE  /\ Asked("idle_power_saving", "false") => Says("profile", "performance")
                    /\ Asked("idle_power_saving", "true") => ~Says("profile", "performance")
                    /\ Asked("refresh_saving_strength", "aggressive") /\ ~Asked("idle_power_saving", "false")
                         => Says("profile", "eco")
                    /\ \A held \in Legacy!Booleans :
                         Asked("keep_screen_on", held)
                           => Says("screen_inhibit", IF held = "true" THEN "while-mapped" ELSE "never")
                    /\ \A new \in DOMAIN Legacy!Renamed :
                         Legacy!Has(t, Legacy!Renamed[new]) => Says(new, t[Legacy!Renamed[new]])
  BY DEF Legacy!MeaningKept
<1>1. \A f \in Legacy!MadeFields(t) : Legacy!Has(m, f) /\ m[f] = Legacy!Made(t, f)
  BY Converted DEF Legacy!Has
<1>2. ASSUME Legacy!Has(t, "idle_power_saving") \/ Legacy!Has(t, "refresh_saving_strength")
      PROVE  Legacy!Has(m, "profile") /\ m["profile"] = Legacy!MigratedProfile(t)
  BY <1>1, <1>2, MadeCases
<1>3. Asked("idle_power_saving", "false") => Says("profile", "performance")
  BY <1>2 DEF Legacy!MigratedProfile
<1>4. Asked("idle_power_saving", "true") => ~Says("profile", "performance")
  BY <1>2 DEF Legacy!MigratedProfile
<1>5. Asked("refresh_saving_strength", "aggressive") /\ ~Asked("idle_power_saving", "false")
        => Says("profile", "eco")
  BY <1>2 DEF Legacy!MigratedProfile
<1>6. ASSUME NEW held \in Legacy!Booleans, Asked("keep_screen_on", held)
      PROVE  Says("screen_inhibit", IF held = "true" THEN "while-mapped" ELSE "never")
  BY <1>1, <1>6, MadeCases
<1>7. ASSUME NEW new \in DOMAIN Legacy!Renamed, Legacy!Has(t, Legacy!Renamed[new])
      PROVE  Says(new, t[Legacy!Renamed[new]])
  BY <1>1, <1>7, MadeCases
<1> QED
  BY <1>3, <1>4, <1>5, <1>6, <1>7

\* The runtime table of a card becomes one the fourth schema reads, its class the workload
\* of that class (migrate_toml_card_runtime, migrated_workload).
THEOREM CardAlwaysFits ==
    ASSUME NEW t
    PROVE  Legacy!CardFits(t)
<1> DEFINE m == Legacy!MigratedCard(t)
           kept == Legacy!Without(t, Legacy!V3CardFields)
<1> SUFFICES ASSUME m # Refusal, Legacy!Fits(kept, Legacy!V4CardFields)
             PROVE  Legacy!Fits(m, Legacy!V4CardFields)
  BY DEF Legacy!CardFits
<1>1. DOMAIN kept = DOMAIN t \ Legacy!V3CardFields /\ \A f \in DOMAIN kept : kept[f] = t[f]
  BY DEF Legacy!Without
<1>2. \A f \in DOMAIN t \ Legacy!V3CardFields : f \in Legacy!V4CardFields /\ t[f] \in Legacy!V4Values(f)
  BY <1>1 DEF Legacy!Fits
<1>3. ~ \E f \in DOMAIN t \cap (Legacy!V3CardFields \cup {"idle_behavior"}) :
            t[f] \notin Legacy!CardValues(f)
  BY DEF Legacy!MigratedCard
<1>4. m = [f \in {g \in {"workload"} : Legacy!Has(t, "class")} \cup (DOMAIN t \ Legacy!V3CardFields) |->
             IF f = "workload" /\ Legacy!Has(t, "class")
             THEN Legacy!MigratedWorkload(t["class"]) ELSE t[f]]
  BY <1>3 DEF Legacy!MigratedCard
<1>5. ASSUME Legacy!Has(t, "class")
      PROVE  "workload" \in Legacy!V4CardFields
             /\ Legacy!MigratedWorkload(t["class"]) \in Legacy!V4Values("workload")
  <2>1. t["class"] \in Legacy!V3Classes
    BY <1>3, <1>5 DEF Legacy!Has, Legacy!V3CardFields, Legacy!CardValues
  <2>2. Legacy!MigratedWorkload(t["class"]) \in {"auto", "live", "expensive", "event", "normal"}
    BY <2>1 DEF Legacy!MigratedWorkload, Legacy!V3Classes
  <2>3. Legacy!V4Values("workload") = {"auto", "live", "normal", "expensive", "event"}
    BY DEF Legacy!V4Values
  <2> QED
    BY <2>2, <2>3 DEF Legacy!V4CardFields
<1>6. /\ DOMAIN m = {g \in {"workload"} : Legacy!Has(t, "class")} \cup (DOMAIN t \ Legacy!V3CardFields)
      /\ \A f \in DOMAIN m : m[f] = IF f = "workload" /\ Legacy!Has(t, "class")
                                    THEN Legacy!MigratedWorkload(t["class"]) ELSE t[f]
  BY <1>4
<1> HIDE DEF m, kept
<1> QED
  BY <1>2, <1>5, <1>6 DEF Legacy!Fits

LEMMA LegacyRows == MigratedFits
BY RuntimeAlwaysFits, MeaningAlwaysKept, CardAlwaysFits DEF MigratedFits

\* A document of the third schema that is converted is one the program reads, and says what
\* it said: whatever its tables hold.
THEOREM MigratedAlwaysFits == SpecAll => []MigratedFits
<1>1. MigratedFits
  BY LegacyRows
<1> QED
  BY <1>1, PTL

-----------------------------------------------------------------------------
(* The frames of an animation.                                             *)

FrameLimits == [count |-> MaxFrameCount, pixels |-> MaxFramePixels, bytes |-> MaxStateBytes]

LEMMA FramesFilmed ==
    /\ FilmLimits(FrameLimits) /\ Frames!Pictures = Film(FrameLimits)!Pictures
    /\ \A s : Frames!FramesBytes(s) = Film(FrameLimits)!FramesBytes(s)
    /\ \A l, path : Frames!LoadOne(l, path) = Film(FrameLimits)!LoadOne(l, path)
    /\ \A P : Frames!Range(P) = Film(FrameLimits)!Range(P)
    /\ \A P, F : Frames!Untried(P, F) = Film(FrameLimits)!Untried(P, F)
<1> DEFINE lim == FrameLimits
<1>1. lim.count = MaxFrameCount /\ lim.pixels = MaxFramePixels /\ lim.bytes = MaxStateBytes
  BY DEF FrameLimits
<1>2. \A f, S : Frames!Total(f, S) = Film(lim)!Total(f, S)
  BY DEF Frames!Total, Frames!MapThenSumSet, Frames!MapThenFoldSet, Film!Total, Film!MapThenSumSet,
         Film!MapThenFoldSet
<1>3. ASSUME NEW s
      PROVE  Frames!FramesBytes(s) = Film(lim)!FramesBytes(s)
  BY <1>2 DEF Frames!FramesBytes, Film!FramesBytes, Frames!Bytes, Film!Bytes
<1> HIDE DEF lim
<1>4. ASSUME NEW l, NEW path
      PROVE  Frames!LoadOne(l, path) = Film(lim)!LoadOne(l, path)
  <2>1. Frames!Decodes(path.picture, Frames!FramesBytes(l.frames))
          <=> Film(lim)!Decodes(path.picture, Film(lim)!FramesBytes(l.frames))
    BY <1>1, <1>3 DEF Frames!Decodes, Film!Decodes, Frames!PassesPreflight, Film!PassesPreflight,
                      Frames!Bytes, Film!Bytes
  <2> QED BY <2>1 DEF Frames!LoadOne, Film!LoadOne
<1>5. \A P : Frames!Range(P) = Film(lim)!Range(P)
  BY DEF Frames!Range, Film!Range
<1>6. \A P, F : Frames!Untried(P, F) = Film(lim)!Untried(P, F)
  BY <1>5 DEF Frames!Untried, Film!Untried, Frames!Without, Film!Without
<1>7. FilmLimits(lim) /\ Frames!Pictures = Film(lim)!Pictures
  BY <1>1, TablesAssumption DEF FilmLimits, Frames!Pictures, Film!Pictures, Frames!Headers, Film!Headers
<1> QED BY <1>3, <1>4, <1>5, <1>6, <1>7 DEF lim

LEMMA LoadsFilmed ==
    ASSUME NEW P, Len(P) \in Nat
    PROVE  Frames!LoadFrames(P) = Film(FrameLimits)!LoadFrames(P)
<1> DEFINE lim == FrameLimits
           N == Len(P)
           Equal(f) == f = [n \in 0 .. N |-> IF n = 0 THEN [frames |-> <<>>, failures |-> {}]
                                             ELSE Frames!LoadOne(f[n - 1], P[n])]
           h == CHOOSE f : Equal(f)
<1>1. lim.count = MaxFrameCount /\ lim.count \in Nat
  BY TablesAssumption DEF FrameLimits
<1> HIDE DEF lim
<1>2. \A f : Equal(f) <=> Loads(lim, f, P, N)
  BY FramesFilmed DEF Loads, lim
<1>3. PICK f : /\ Loads(lim, f, P, N)
               /\ Film(lim)!LoadFrames(P) = IF N > lim.count
                                            THEN [frames |-> <<>>, failures |-> {"<animation>"}]
                                            ELSE f[N]
  BY <1>1, LoadFramesLoads
<1>4. Loads(lim, h, P, N)
  <2>1. Equal(h)
    <3> HIDE DEF Equal
    <3> QED BY <1>2, <1>3
  <2> QED BY <1>2, <2>1
<1>5. Frames!LoadFrames(P) = IF N > lim.count THEN [frames |-> <<>>, failures |-> {"<animation>"}]
                             ELSE h[N]
  BY <1>1 DEF Frames!LoadFrames
<1> HIDE DEF h
<1>6. f[N] = h[N]
  BY <1>3, <1>4, LoadsUnique
<1> QED BY <1>3, <1>5, <1>6 DEF lim

LEMMA SettlingFilmed ==
    ASSUME NEW P, Len(P) \in Nat, Film(FrameLimits)!LoadSettles(P),
           \A F : Len(Frames!Untried(P, F)) \in Nat
    PROVE  Frames!LoadSettles(P)
<1>1. Frames!CutRepeat(P) <=> Film(FrameLimits)!CutRepeat(P)
  BY FramesFilmed DEF Frames!CutRepeat, Film!CutRepeat, FrameLimits
<1>2. Frames!LoadFrames(P) = Film(FrameLimits)!LoadFrames(P)
  BY LoadsFilmed
<1> DEFINE F == Frames!LoadFrames(P).failures
<1>3. Frames!LoadFrames(Frames!Untried(P, F)) = Film(FrameLimits)!LoadFrames(Film(FrameLimits)!Untried(P, F))
  BY FramesFilmed, LoadsFilmed
<1> QED BY <1>1, <1>2, <1>3, FramesFilmed DEF Frames!LoadSettles, Film!LoadSettles, FrameLimits

\* What load_frames is called with.
LEMMA DirectoryPaths ==
    ASSUME NEW animation \in Rules!Animations
    PROVE  \E K : Album(FrameLimits, K) /\ Rules!PathsOf(animation) \in Seq(K)
<1> DEFINE D == animation.directory
           L == animation.listing
           K == {[name |-> n, picture |-> D[n]] : n \in {"a", "b", "c"}}
<1>1. PICK m \in 0 .. 4 : L \in [1 .. m -> {"a", "b", "c"}]
  BY DEF Rules!Animations
<1>2. D \in [{"a", "b", "c"} -> Rules!PictureSamples]
  BY DEF Rules!Animations
<1>3. Rules!PictureSamples \subseteq Film(FrameLimits)!Pictures
  BY DEF Rules!PictureSamples, Rules!Picture, Film!Pictures, Film!Headers
<1> HIDE DEF L, D
<1>4. Album(FrameLimits, K)
  <2>1. \A path \in K : path.name \in {"a", "b", "c"} /\ path.picture = D[path.name]
    OBVIOUS
  <2>2. \A p, q \in K : p.name = q.name => p = q
    OBVIOUS
  <2>3. \A path \in K : path.picture \in Film(FrameLimits)!Pictures
    BY <1>2, <1>3, <2>1
  <2> HIDE DEF K
  <2> QED BY <2>1, <2>2, <2>3 DEF Album
<1>5. Rules!PathsOf(animation) = [n \in 1 .. m |-> [name |-> L[n], picture |-> D[L[n]]]]
  BY <1>1 DEF Rules!PathsOf, L, D
<1>6. \A n \in 1 .. m : [name |-> L[n], picture |-> D[L[n]]] \in K
  BY <1>1
<1> HIDE DEF K
<1>7. Rules!PathsOf(animation) \in Seq(K)
  BY <1>5, <1>6
<1> QED BY <1>4, <1>7

\* One load of an animation keeps within its limits and loses no picture that would have
\* fitted, and a second load, which leaves out the files that failed in the first, yields the
\* same frames, however many paths it has and whatever is found there (load_frames,
\* decode_frame).
THEOREM AlwaysSettles ==
    ASSUME NEW K, Album(FrameLimits, K), NEW P \in Seq(K)
    PROVE  Frames!LoadSettles(P)
<1>1. Film(FrameLimits)!LoadSettles(P)
  BY FramesFilmed, Settling
<1>2. ASSUME NEW F
      PROVE  Len(Frames!Untried(P, F)) \in Nat
  <2> DEFINE X == {path \in Frames!Range(P) : path.name \in F}
  <2>1. Frames!Untried(P, F) = Without(P, X)
    BY DEF Frames!Untried, Frames!Without, Without
  <2> HIDE DEF X
  <2>2. PICK k : Without(P, X) = k[Len(P)] /\ \A n \in 0 .. Len(P) : k[n] \in Seq(K)
    BY WithoutKeeps
  <2>3. Len(P) \in 0 .. Len(P)
    OBVIOUS
  <2>4. k[Len(P)] \in Seq(K)
    BY <2>2, <2>3
  <2> QED BY <2>1, <2>2, <2>4
<1> QED BY <1>1, <1>2, SettlingFilmed

\* The animations of the run are instances of AlwaysSettles: whatever the directory of an
\* animation holds and however its listing repeats a file (load_frames).
THEOREM FramesAlwaysSettle == SpecAll => []FramesSettle
<1> DEFINE Inv == table = "frames" => input \in Rules!Animations
<1>1. InitAll => Inv
  BY DEF InitAll
<1>2. Inv /\ [Look \/ Use]_<<lookup, vars>> => Inv'
  BY DEF Look, Use, lookup, Inv
<1>3. Inv => FramesSettle
  BY DirectoryPaths, AlwaysSettles DEF FramesSettle, Of
<1> QED BY <1>1, <1>2, <1>3, PTL DEF SpecAll
-----------------------------------------------------------------------------
(* The pass of the disk janitor.                                           *)

FilesOf(D) == [D -> [kind : Disk!FileKinds, age : Int, size : Nat, stuck : BOOLEAN]]

\* The sort of the list is one: no file is before itself, of two one is first, and what is
\* before a file is before all that follow it.
LEMMA Ordered ==
    ASSUME NEW D \in SUBSET Nat, NEW dir \in FilesOf(D)
    PROVE  /\ \A n \in D : ~ Disk!Before(dir, n, n)
           /\ \A m, n \in D : m # n => Disk!Before(dir, m, n) \/ Disk!Before(dir, n, m)
           /\ \A k, m, n \in D :
                Disk!Before(dir, k, m) /\ Disk!Before(dir, m, n) => Disk!Before(dir, k, n)
<1>1. \A n \in D : n \in Nat /\ dir[n].age \in Int
  BY DEF FilesOf
<1> QED BY <1>1 DEF Disk!Before

LEMMA ListedFiles ==
    ASSUME NEW D \in SUBSET Nat, IsFiniteSet(D), NEW dir \in FilesOf(D)
    PROVE  /\ Disk!Listed(dir) \subseteq D /\ IsFiniteSet(Disk!Listed(dir))
           /\ \A n : Disk!Earlier(dir, n) \subseteq Disk!Listed(dir)
           /\ Disk!Tried(dir) \subseteq Disk!Listed(dir)
<1>1. Disk!Listed(dir) \subseteq D
  BY DEF FilesOf, Disk!Listed, Disk!Entries
<1>2. IsFiniteSet(Disk!Listed(dir))
  BY <1>1, FS_Subset
<1>3. \A n : Disk!Earlier(dir, n) \subseteq Disk!Listed(dir)
  BY DEF Disk!Earlier
<1>4. Disk!Tried(dir) \subseteq Disk!Listed(dir)
  BY DEF Disk!Tried
<1> QED BY <1>1, <1>2, <1>3, <1>4

\* Of any of the files that are listed one comes first.
LEMMA FirstFile ==
    ASSUME NEW D \in SUBSET Nat, IsFiniteSet(D), NEW dir \in FilesOf(D),
           NEW X \in SUBSET Disk!Listed(dir), X # {}
    PROVE  \E n \in X : \A m \in X : ~ Disk!Before(dir, m, n)
<1> DEFINE F(n) == {m \in X : Disk!Before(dir, m, n)}
           B == {F(n) : n \in X}
<1>1. IsFiniteSet(X) /\ X \subseteq D
  BY ListedFiles, FS_Subset
<1>2. B \subseteq SUBSET X /\ B # {}
  OBVIOUS
<1>3. PICK U \in B : \A V \in B : V \subseteq U => V = U
  <2>1. B \subseteq SUBSET X
    BY <1>2
  <2>2. B # {}
    BY <1>2
  <2>3. IsFiniteSet(X)
    BY <1>1
  <2> HIDE DEF B, F
  <2> QED BY <2>1, <2>2, <2>3, LeastSet
<1>4. PICK n \in X : U = F(n)
  BY <1>3
<1>5. ASSUME NEW m \in X, Disk!Before(dir, m, n)
      PROVE  FALSE
  <2>1. F(m) \subseteq F(n)
    BY <1>1, <1>5, Ordered
  <2>2. m \in F(n) /\ m \notin F(m)
    BY <1>1, <1>5, Ordered
  <2>3. F(m) \in B
    OBVIOUS
  <2> HIDE DEF F, B
  <2> QED BY <2>1, <2>2, <2>3, <1>3, <1>4
<1> QED BY <1>5

\* The loop takes the list from its front, and where it stops it need not go on.
LEMMA TriedFiles ==
    ASSUME NEW D \in SUBSET Nat, IsFiniteSet(D), NEW dir \in FilesOf(D)
    PROVE  /\ Disk!Tried(dir) # Disk!Listed(dir) => ~ Disk!Over(dir, Disk!Tried(dir))
           /\ \A n \in Disk!Tried(dir) :
                Disk!Over(dir, Disk!Earlier(dir, n)) /\ Disk!Earlier(dir, n) \subseteq Disk!Tried(dir)
<1> DEFINE L == Disk!Listed(dir)
           T == Disk!Tried(dir)
           E(n) == Disk!Earlier(dir, n)
           Goes(n) == Disk!Over(dir, E(n))
<1>1. L \subseteq D /\ T \subseteq L
  BY ListedFiles
<1>2. \A m, n : m \in E(n) <=> m \in L /\ Disk!Before(dir, m, n)
  BY DEF Disk!Earlier
<1>3. \A n : n \in T <=> n \in L /\ \A m \in E(n) \cup {n} : Goes(m)
  BY DEF Disk!Tried
<1> HIDE DEF L, T, E, Goes
<1>4. ASSUME NEW n \in T
      PROVE  Goes(n) /\ E(n) \subseteq T
  <2>1. Goes(n)
    BY <1>3, <1>4
  <2>2. ASSUME NEW m \in E(n), NEW k \in E(m) \cup {m}
        PROVE  k \in E(n)
    <3>1. m \in D /\ n \in D /\ k \in D
      BY <1>1, <1>2, <1>4, <2>2
    <3> QED BY <3>1, <1>2, <2>2, Ordered
  <2>3. ASSUME NEW m \in E(n)
        PROVE  m \in T
    BY <1>2, <1>3, <1>4, <2>2, <2>3
  <2> QED BY <2>1, <2>3
<1>5. ASSUME T # L
      PROVE  ~ Disk!Over(dir, T)
  <2>1. L \ T \in SUBSET L /\ L \ T # {}
    BY <1>1, <1>5
  <2>2. PICK n \in L \ T : \A m \in L \ T : ~ Disk!Before(dir, m, n)
    <3> USE DEF L
    <3> QED BY <2>1, FirstFile
  <2>3. E(n) \subseteq T
    BY <1>2, <2>2
  <2>4. ASSUME NEW m \in T PROVE m \in E(n)
    <3>1. m \in D /\ n \in D /\ m # n
      BY <1>1, <2>2, <2>4
    <3>2. ~ Disk!Before(dir, n, m)
      BY <1>2, <1>4, <2>2, <2>4
    <3> QED BY <1>1, <1>2, <2>4, <3>1, <3>2, Ordered
  <2>5. E(n) = T
    BY <2>3, <2>4
  <2>6. ~ Goes(n)
    BY <1>3, <1>4, <2>2, <2>3
  <2> QED BY <2>5, <2>6 DEF Goes
<1> QED
  BY <1>4, <1>5 DEF L, T, E, Goes

\* What is left of a directory: what did not expire and was not tried, or is stuck.
LEMMA FilesLeft ==
    ASSUME NEW D \in SUBSET Nat, IsFiniteSet(D), NEW dir \in FilesOf(D)
    PROVE  /\ \A n \in Disk!Listed(dir) :
                n \in Disk!CleanedUp(dir) <=> n \notin Disk!Tried(dir) \/ dir[n].stuck
           /\ \A n \in D : n \notin Disk!CleanedUp(dir) =>
                n \in Disk!Expired(dir) \cup Disk!Tried(dir)
           /\ \A n \in Disk!Expired(dir) : n \in Disk!CleanedUp(dir) => dir[n].stuck
<1>1. DOMAIN dir = D
  BY DEF FilesOf
<1>2. Disk!Tried(dir) \subseteq Disk!Listed(dir) /\ Disk!Listed(dir) \subseteq D
  BY ListedFiles
<1>3. Disk!Listed(dir) \cap Disk!Expired(dir) = {} /\ Disk!Expired(dir) \subseteq D
  BY <1>1 DEF Disk!Listed, Disk!Expired
<1> QED BY <1>1, <1>2, <1>3 DEF Disk!CleanedUp, Disk!Stuck

LEMMA BytesOfPart ==
    ASSUME NEW D \in SUBSET Nat, IsFiniteSet(D), NEW dir \in FilesOf(D),
           NEW X \in SUBSET D, NEW Y \in SUBSET X
    PROVE  /\ Disk!TotalBytes(dir, X) \in Nat /\ Disk!TotalBytes(dir, Y) \in Nat
           /\ Disk!TotalBytes(dir, Y) <= Disk!TotalBytes(dir, X)
<1> DEFINE f == [n \in DOMAIN dir |-> dir[n].size]
<1>1. \A n \in X : f[n] \in Nat
  BY DEF FilesOf
<1>2. IsFiniteSet(X)
  BY FS_Subset
<1>3. /\ Disk!TotalBytes(dir, X) = Total(f, X) /\ Disk!TotalBytes(dir, Y) = Total(f, Y)
  BY DEF Disk!TotalBytes, Disk!Total, Disk!MapThenSumSet, Disk!MapThenFoldSet,
         Total, MapThenSumSet, MapThenFoldSet
<1> HIDE DEF f
<1>4. /\ Total(f, Y) \in Nat /\ Total(f, X \ Y) \in Nat /\ Total(f, X) \in Nat
      /\ Total(f, X) = Total(f, Y) + Total(f, X \ Y)
  BY <1>1, <1>2, TotalPart
<1> QED BY <1>3, <1>4

LEMMA CountOfPart ==
    ASSUME NEW D \in SUBSET Nat, IsFiniteSet(D), NEW X \in SUBSET D, NEW Y \in SUBSET X
    PROVE  /\ Cardinality(X) \in Nat /\ Cardinality(Y) \in Nat
           /\ Cardinality(Y) <= Cardinality(X)
BY FS_Subset, FS_CardinalityType

LEMMA SameCount == \A X : Disk!Cardinality(X) = Cardinality(X)
BY DEF Disk!Cardinality, Cardinality

\* The directory is within its bounds after a pass, whatever it holds.
LEMMA PassBounds ==
    ASSUME NEW D \in SUBSET Nat, IsFiniteSet(D), NEW dir \in FilesOf(D)
    PROVE  Disk!DiskBounded(dir)
<1> DEFINE L == Disk!Listed(dir)
           T == Disk!Tried(dir)
           left == Disk!CleanedUp(dir) \cap L
           rest == L \ T
           stuck == {n \in T : dir[n].stuck}
           loose == {n \in left : ~ dir[n].stuck}
<1>1. T \subseteq L /\ L \subseteq D
  BY ListedFiles
<1>2. \A n \in L : n \in Disk!CleanedUp(dir) <=> n \notin T \/ dir[n].stuck
  BY FilesLeft
<1>3. left = rest \cup stuck /\ loose \subseteq rest /\ left \subseteq D /\ rest \subseteq D
  BY <1>1, <1>2
<1>4. Disk!Stuck(dir, left) = left \ loose
  BY DEF Disk!Stuck
<1>5. CASE T = L
  <2>1. left = stuck /\ loose = {}
    BY <1>1, <1>3, <1>5
  <2>2. left \ (left \ loose) = {} /\ left \ loose = left
    BY <2>1
  <2>3. Cardinality({}) <= MaxFiles
    BY FS_EmptySet, DirectoriesAssumption
  <2> HIDE DEF left, loose, L, T
  <2> QED BY <1>4, <2>2, <2>3, SameCount DEF Disk!DiskBounded, left, L
<1>6. CASE T # L
  <2>1. ~ Disk!Over(dir, T)
    BY <1>6, TriedFiles
  <2>2. Disk!Stuck(dir, T) = stuck
    BY DEF Disk!Stuck
  <2>3. ~ (Cardinality(rest) > MaxFiles) /\ ~ (Disk!TotalBytes(dir, left) > MaxFileBytes)
    BY <2>1, <2>2, <1>3, SameCount DEF Disk!Over
  <2>4. left \ (left \ loose) = loose
    OBVIOUS
  <2>5. /\ Cardinality(rest) \in Nat /\ Cardinality(loose) \in Nat
        /\ Cardinality(loose) <= Cardinality(rest)
    <3> HIDE DEF rest, loose
    <3> QED BY <1>3, CountOfPart
  <2>6. Disk!TotalBytes(dir, left) \in Nat
    <3> HIDE DEF left
    <3> QED BY <1>3, BytesOfPart
  <2> HIDE DEF left, loose, rest
  <2>7. Disk!TotalBytes(dir, left) <= MaxFileBytes /\ Cardinality(loose) <= MaxFiles
    BY <2>3, <2>5, <2>6, DirectoriesAssumption
  <2> QED BY <1>4, <2>4, <2>7, SameCount DEF Disk!DiskBounded, left
<1> QED BY <1>5, <1>6

LEMMA PassTakesOldest ==
    ASSUME NEW D \in SUBSET Nat, IsFiniteSet(D), NEW dir \in FilesOf(D)
    PROVE  Disk!OldestGoFirst(dir)
<1> SUFFICES ASSUME NEW n \in D, n \notin Disk!CleanedUp(dir)
             PROVE  /\ dir[n].kind # "other"
                    /\ dir[n].kind = "temporary" => dir[n].age > MaxTemporaryAge
                    /\ n \in Disk!Entries(dir) /\ dir[n].age <= MaxAge =>
                          \A m \in Disk!CleanedUp(dir) \cap Disk!Entries(dir) :
                              dir[m].age <= dir[n].age \/ dir[m].stuck
  BY DEF FilesOf, Disk!OldestGoFirst
<1>1. DOMAIN dir = D /\ \A m \in D : dir[m].age \in Int
  BY DEF FilesOf
<1>2. n \in Disk!Expired(dir) \cup Disk!Tried(dir)
  BY FilesLeft
<1>3. Disk!Tried(dir) \subseteq Disk!Listed(dir) /\ Disk!Listed(dir) \subseteq D
  BY ListedFiles
<1>4. /\ dir[n].kind # "other"
      /\ dir[n].kind = "temporary" => dir[n].age > MaxTemporaryAge
  BY <1>2, <1>3 DEF Disk!Expired, Disk!Listed, Disk!Entries
<1>5. ASSUME n \in Disk!Entries(dir), dir[n].age <= MaxAge,
             NEW m \in Disk!CleanedUp(dir) \cap Disk!Entries(dir), dir[m].age > dir[n].age
      PROVE  dir[m].stuck
  <2>1. n \in Disk!Tried(dir)
    <3>1. dir[n].age \in Int /\ MaxAge \in Nat
      BY <1>1, DirectoriesAssumption
    <3>2. ~ (dir[n].age > MaxAge)
      BY <1>5, <3>1
    <3>3. dir[n].kind = "entry"
      BY <1>5 DEF Disk!Entries
    <3> QED BY <1>2, <3>2, <3>3 DEF Disk!Expired
  <2>2. CASE m \in Disk!Expired(dir)
    BY <2>2, <1>5, FilesLeft
  <2>3. CASE m \notin Disk!Expired(dir)
    <3>1. m \in Disk!Earlier(dir, n)
      BY <1>5, <2>3 DEF Disk!Earlier, Disk!Listed, Disk!Before
    <3>2. m \in Disk!Tried(dir)
      BY <2>1, <3>1, TriedFiles
    <3> QED BY <1>3, <1>5, <3>2, FilesLeft
  <2> QED BY <2>2, <2>3
<1>6. ASSUME n \in Disk!Entries(dir),
             NEW m \in Disk!CleanedUp(dir) \cap Disk!Entries(dir)
      PROVE  dir[m].age <= dir[n].age \/ dir[m].age > dir[n].age
  <2>1. m \in D
    BY <1>1 DEF Disk!Entries
  <2>2. dir[m].age \in Int /\ dir[n].age \in Int
    BY <1>1, <2>1
  <2> QED BY <2>2
<1> QED BY <1>4, <1>5, <1>6

LEMMA PassTakesNoMore ==
    ASSUME NEW D \in SUBSET Nat, IsFiniteSet(D), NEW dir \in FilesOf(D)
    PROVE  Disk!OnlyAsNeeded(dir)
<1> SUFFICES ASSUME NEW n \in Disk!Listed(dir) \ Disk!CleanedUp(dir)
             PROVE  LET younger == {m \in Disk!Entries(dir) : dir[m].age <= dir[n].age}
                    IN  \/ Cardinality(younger) > MaxFiles
                        \/ Disk!TotalBytes(dir, younger \cup Disk!Stuck(dir, Disk!Listed(dir)))
                              > MaxFileBytes
  BY SameCount DEF Disk!OnlyAsNeeded
<1> DEFINE L == Disk!Listed(dir)
           E == Disk!Earlier(dir, n)
           younger == {m \in Disk!Entries(dir) : dir[m].age <= dir[n].age}
           counted == (L \ E) \cup Disk!Stuck(dir, E)
           held == younger \cup Disk!Stuck(dir, L)
<1>1. L \subseteq D /\ E \subseteq L /\ L \subseteq Disk!Entries(dir)
  BY ListedFiles DEF Disk!Listed
<1>2. Disk!Entries(dir) \subseteq D /\ \A m \in D : dir[m].age \in Int
  BY DEF Disk!Entries, FilesOf
<1>3. n \in Disk!Tried(dir)
  BY FilesLeft
<1>4. Cardinality(L \ E) > MaxFiles \/ Disk!TotalBytes(dir, counted) > MaxFileBytes
  BY <1>3, TriedFiles, SameCount DEF Disk!Over
<1>5. L \ E \subseteq younger
  <2> SUFFICES ASSUME NEW m \in L, m \notin E
               PROVE  m \in younger
    OBVIOUS
  <2>1. ~ (dir[m].age > dir[n].age)
    BY DEF Disk!Earlier, Disk!Before
  <2>2. dir[m].age \in Int /\ dir[n].age \in Int
    BY <1>1, <1>2
  <2> QED BY <2>1, <2>2, <1>1
<1>6. younger \subseteq D /\ held \subseteq D /\ counted \subseteq held
  BY <1>1, <1>2, <1>5 DEF Disk!Stuck
<1> HIDE DEF younger, counted, held, L, E
<1>7. /\ Cardinality(younger) \in Nat /\ Cardinality(L \ E) \in Nat
      /\ Cardinality(L \ E) <= Cardinality(younger)
  BY <1>5, <1>6, CountOfPart
<1>8. /\ Disk!TotalBytes(dir, held) \in Nat /\ Disk!TotalBytes(dir, counted) \in Nat
      /\ Disk!TotalBytes(dir, counted) <= Disk!TotalBytes(dir, held)
  BY <1>6, BytesOfPart
<1>9. Cardinality(younger) > MaxFiles \/ Disk!TotalBytes(dir, held) > MaxFileBytes
  BY <1>4, <1>7, <1>8, DirectoriesAssumption
<1> QED BY <1>9 DEF younger, held, L

LEMMA DirectoryInputs ==
    ASSUME NEW dir \in Directories
    PROVE  \E D \in SUBSET Nat : IsFiniteSet(D) /\ dir \in FilesOf(D)
<1>1. PICK D \in SUBSET Files :
        dir \in [D -> [kind : Disk!FileKinds, age : Ages, size : FileSizes, stuck : BOOLEAN]]
  BY DEF Directories
<1>2. D \in SUBSET Nat /\ IsFiniteSet(D)
  BY DirectoriesAssumption, FS_Subset
<1>3. dir \in FilesOf(D)
  BY <1>1, DirectoriesAssumption DEF FilesOf
<1> QED BY <1>2, <1>3

\* Whatever files the cache directory holds, of any ages and sizes, and whichever of them
\* cannot be removed: a pass of cleanup_disk_cache leaves it within its bounds, takes the
\* oldest entries first and no more than it has to.
THEOREM DirectoryAlwaysTidied == SpecAll => []DirectoryTidied
<1> DEFINE Inv == table = "directory" => input \in Directories
<1>1. InitAll => Inv
  BY DEF InitAll
<1>2. Inv /\ [Look \/ Use]_<<lookup, vars>> => Inv'
  BY DEF Look, Use, lookup, Inv
<1>3. Inv => DirectoryTidied
  <2>1. ASSUME NEW dir \in Directories
        PROVE  Disk!DiskBounded(dir) /\ Disk!OldestGoFirst(dir) /\ Disk!OnlyAsNeeded(dir)
    <3>1. PICK D \in SUBSET Nat : IsFiniteSet(D) /\ dir \in FilesOf(D)
      BY DirectoryInputs
    <3> QED BY <3>1, PassBounds, PassTakesOldest, PassTakesNoMore
  <2> QED BY <2>1 DEF DirectoryTidied, Of
<1> QED BY <1>1, <1>2, <1>3, PTL DEF SpecAll

-----------------------------------------------------------------------------
(* The list of the memory cache                                            *)

Node == [bytes : Sizes, prev : Keys \cup {None}, next : Keys \cup {None}]

LEMMA LinkedNext ==
    ASSUME NEW D, NEW map \in [D -> Node], NEW k, NEW to \in Keys \cup {None}
    PROVE  LET m == Linked(map, k, "next", to)
           IN  /\ DOMAIN m = D /\ m \in [D -> Node]
               /\ \A x \in D : /\ m[x].bytes = map[x].bytes /\ m[x].prev = map[x].prev
                               /\ m[x].next = IF x = k THEN to ELSE map[x].next
<1>1. CASE k \notin D
  BY <1>1 DEF Linked
<1>2. CASE k \in D
  <2> DEFINE m == [map EXCEPT ![k]["next"] = to]
  <2>1. Linked(map, k, "next", to) = m
    BY <1>2 DEF Linked
  <2>2. map[k] \in Node
    BY <1>2
  <2>3. m \in [D -> Node]
    BY <1>2, <2>2 DEF Node
  <2>4. \A x \in D :
          /\ m[x].bytes = map[x].bytes /\ m[x].prev = map[x].prev
          /\ m[x].next = IF x = k THEN to ELSE map[x].next
    BY <1>2, <2>2 DEF Node
  <2> HIDE DEF m
  <2> QED BY <1>2, <2>1, <2>3, <2>4
<1> QED BY <1>1, <1>2

LEMMA LinkedPrev ==
    ASSUME NEW D, NEW map \in [D -> Node], NEW k, NEW to \in Keys \cup {None}
    PROVE  LET m == Linked(map, k, "prev", to)
           IN  /\ DOMAIN m = D /\ m \in [D -> Node]
               /\ \A x \in D : /\ m[x].bytes = map[x].bytes /\ m[x].next = map[x].next
                               /\ m[x].prev = IF x = k THEN to ELSE map[x].prev
<1>1. CASE k \notin D
  BY <1>1 DEF Linked
<1>2. CASE k \in D
  <2> DEFINE m == [map EXCEPT ![k]["prev"] = to]
  <2>1. Linked(map, k, "prev", to) = m
    BY <1>2 DEF Linked
  <2>2. map[k] \in Node
    BY <1>2
  <2>3. m \in [D -> Node]
    BY <1>2, <2>2 DEF Node
  <2>4. \A x \in D :
          /\ m[x].bytes = map[x].bytes /\ m[x].next = map[x].next
          /\ m[x].prev = IF x = k THEN to ELSE map[x].prev
    BY <1>2, <2>2 DEF Node
  <2> HIDE DEF m
  <2> QED BY <1>2, <2>1, <2>3, <2>4
<1> QED BY <1>1, <1>2

\* The entries are typed, and a cache is what its four fields are.
Noded(c) ==
    /\ c = [entries |-> c.entries, head |-> c.head, tail |-> c.tail, total |-> c.total]
    /\ c.entries \in [DOMAIN c.entries -> Node] /\ DOMAIN c.entries \subseteq Keys

LEMMA DetachedNodes ==
    ASSUME NEW c, Noded(c), NEW k \in DOMAIN c.entries
    PROVE  LET d == Detached(c, k)
               e == c.entries[k]
           IN  /\ Noded(d) /\ DOMAIN d.entries = DOMAIN c.entries /\ d.total = c.total
               /\ d.head = IF e.prev = None THEN e.next ELSE c.head
               /\ d.tail = IF e.next = None THEN e.prev ELSE c.tail
               /\ \A x \in DOMAIN c.entries :
                    /\ d.entries[x].bytes = c.entries[x].bytes
                    /\ d.entries[x].next = IF x = k THEN None
                                           ELSE IF x = e.prev THEN e.next ELSE c.entries[x].next
                    /\ d.entries[x].prev = IF x = k THEN None
                                           ELSE IF x = e.next THEN e.prev ELSE c.entries[x].prev
<1> DEFINE e  == c.entries[k]
           m1 == Linked(c.entries, e.prev, "next", e.next)
           m2 == Linked(m1, e.next, "prev", e.prev)
           m3 == [m2 EXCEPT ![k].prev = None, ![k].next = None]
           d  == Detached(c, k)
           D  == DOMAIN c.entries
<1>1. e \in Node /\ e.prev \in Keys \cup {None} /\ e.next \in Keys \cup {None}
  BY DEF Noded, Node
<1>2. c.entries \in [DOMAIN c.entries -> Node]
  BY DEF Noded
<1>3. /\ DOMAIN m1 = D /\ m1 \in [D -> Node]
      /\ \A x \in D : /\ m1[x].bytes = c.entries[x].bytes /\ m1[x].prev = c.entries[x].prev
                      /\ m1[x].next = IF x = e.prev THEN e.next ELSE c.entries[x].next
  BY <1>1, <1>2, LinkedNext
<1> HIDE DEF m1
<1>4. /\ DOMAIN m2 = D /\ m2 \in [D -> Node]
      /\ \A x \in D : /\ m2[x].bytes = m1[x].bytes /\ m2[x].next = m1[x].next
                      /\ m2[x].prev = IF x = e.next THEN e.prev ELSE m1[x].prev
  BY <1>1, <1>3, LinkedPrev
<1> HIDE DEF m2
<1>5. /\ DOMAIN m3 = D /\ m3 \in [D -> Node]
      /\ \A x \in D : /\ m3[x].bytes = m2[x].bytes
                      /\ m3[x].next = IF x = k THEN None ELSE m2[x].next
                      /\ m3[x].prev = IF x = k THEN None ELSE m2[x].prev
  BY <1>4 DEF Node
<1> HIDE DEF m3
<1>6. d = [c EXCEPT !.entries = m3, !.head = IF e.prev = None THEN e.next ELSE @,
                    !.tail = IF e.next = None THEN e.prev ELSE @]
  BY DEF Detached, m1, m2, m3
<1> HIDE DEF d, e
<1>7. /\ d = [entries |-> d.entries, head |-> d.head, tail |-> d.tail, total |-> d.total]
      /\ d.entries = m3 /\ d.total = c.total
      /\ d.head = IF e.prev = None THEN e.next ELSE c.head
      /\ d.tail = IF e.next = None THEN e.prev ELSE c.tail
  BY <1>6 DEF Noded
<1>8. Noded(d)
  BY <1>5, <1>7 DEF Noded
<1> QED BY <1>3, <1>4, <1>5, <1>7, <1>8 DEF d, e

LEMMA AttachedNodes ==
    ASSUME NEW c, Noded(c), NEW k \in DOMAIN c.entries, c.tail \in (Keys \ {k}) \cup {None}
    PROVE  LET d == Attached(c, k)
           IN  /\ Noded(d) /\ DOMAIN d.entries = DOMAIN c.entries /\ d.total = c.total
               /\ d.head = IF c.tail = None THEN k ELSE c.head
               /\ d.tail = k
               /\ \A x \in DOMAIN c.entries :
                    /\ d.entries[x].bytes = c.entries[x].bytes
                    /\ d.entries[x].next = IF x = k THEN None
                                           ELSE IF x = c.tail THEN k ELSE c.entries[x].next
                    /\ d.entries[x].prev = IF x = k THEN c.tail ELSE c.entries[x].prev
<1> DEFINE m1 == Linked(c.entries, c.tail, "next", k)
           m2 == [m1 EXCEPT ![k].prev = c.tail, ![k].next = None]
           d  == Attached(c, k)
           D  == DOMAIN c.entries
<1>1. c.entries \in [DOMAIN c.entries -> Node] /\ k \in Keys
  BY DEF Noded
<1>2. /\ DOMAIN m1 = D /\ m1 \in [D -> Node]
      /\ \A x \in D : /\ m1[x].bytes = c.entries[x].bytes /\ m1[x].prev = c.entries[x].prev
                      /\ m1[x].next = IF x = c.tail THEN k ELSE c.entries[x].next
  BY <1>1, LinkedNext
<1> HIDE DEF m1
<1>3. /\ DOMAIN m2 = D /\ m2 \in [D -> Node]
      /\ \A x \in D : /\ m2[x].bytes = m1[x].bytes
                      /\ m2[x].next = IF x = k THEN None ELSE m1[x].next
                      /\ m2[x].prev = IF x = k THEN c.tail ELSE m1[x].prev
  BY <1>2 DEF Node
<1> HIDE DEF m2
<1>4. d = [c EXCEPT !.entries = m2, !.head = IF c.tail = None THEN k ELSE @, !.tail = k]
  BY DEF Attached, m1, m2
<1> HIDE DEF d
<1>5. /\ d = [entries |-> d.entries, head |-> d.head, tail |-> d.tail, total |-> d.total]
      /\ d.entries = m2 /\ d.total = c.total
      /\ d.head = IF c.tail = None THEN k ELSE c.head
      /\ d.tail = k
  BY <1>4 DEF Noded
<1>6. Noded(d)
  BY <1>3, <1>5 DEF Noded
<1> QED BY <1>2, <1>3, <1>5, <1>6 DEF d

\* The keys of S, each once, are what the links of the cache join.
Chain(c, S) ==
    /\ Noded(c) /\ S \in Seq(DOMAIN c.entries) /\ Distinct(S)
    /\ c.head = (IF Len(S) = 0 THEN None ELSE S[1])
    /\ c.tail = (IF Len(S) = 0 THEN None ELSE S[Len(S)])
    /\ \A n \in 1 .. Len(S) :
         /\ c.entries[S[n]].prev = (IF n = 1 THEN None ELSE S[n - 1])
         /\ c.entries[S[n]].next = (IF n = Len(S) THEN None ELSE S[n + 1])

\* Keys are no None, and a place has one key.
LEMMA ChainKeys ==
    ASSUME NEW c, NEW S, Chain(c, S)
    PROVE  /\ Len(S) \in Nat
           /\ \A n \in 1 .. Len(S) : S[n] \in DOMAIN c.entries /\ S[n] \in Keys /\ S[n] # None
           /\ \A m, n \in 1 .. Len(S) : S[m] = S[n] => m = n
<1>1. S \in Seq(DOMAIN c.entries) /\ DOMAIN c.entries \subseteq Keys /\ None \notin Keys
  BY LruListAssumption DEF Chain, Noded
<1>2. \A n \in 1 .. Len(S) : S[n] \in DOMAIN c.entries
  BY <1>1
<1>3. \A m, n \in 1 .. Len(S) : S[m] = S[n] => m = n
  BY DEF Chain, Distinct
<1> QED BY <1>1, <1>2, <1>3

LEMMA DetachedChain ==
    ASSUME NEW c, NEW S, Chain(c, S), NEW i \in 1 .. Len(S)
    PROVE  Chain(Detached(c, S[i]), Without(S, {S[i]}))
<1> DEFINE k == S[i]
           e == c.entries[k]
           d == Detached(c, k)
           N == Len(S)
           w == Without(S, {k})
           D == DOMAIN c.entries
<1>1. /\ N \in Nat /\ i \in 1 .. N
      /\ \A n \in 1 .. N : S[n] \in D /\ S[n] \in Keys /\ S[n] # None
      /\ \A m, n \in 1 .. N : S[m] = S[n] => m = n
  BY ChainKeys
<1>2. k \in D /\ Noded(c) /\ S \in Seq(D) /\ Distinct(S)
  BY <1>1 DEF Chain
<1>3. /\ Noded(d) /\ DOMAIN d.entries = D
      /\ d.head = IF e.prev = None THEN e.next ELSE c.head
      /\ d.tail = IF e.next = None THEN e.prev ELSE c.tail
      /\ \A x \in D :
           /\ d.entries[x].next = IF x = k THEN None
                                  ELSE IF x = e.prev THEN e.next ELSE c.entries[x].next
           /\ d.entries[x].prev = IF x = k THEN None
                                  ELSE IF x = e.next THEN e.prev ELSE c.entries[x].prev
  BY <1>2, DetachedNodes
<1>4. /\ w \in Seq(D) /\ Len(w) = N - 1 /\ Distinct(w)
      /\ \A m \in 1 .. Len(w) : w[m] = IF m < i THEN S[m] ELSE S[m + 1]
  BY <1>2, WithoutOne, WithoutProperties
<1>5. /\ e.prev = (IF i = 1 THEN None ELSE S[i - 1])
      /\ e.next = (IF i = N THEN None ELSE S[i + 1])
      /\ c.head = S[1] /\ c.tail = S[N]
  BY <1>1 DEF Chain
<1>6. \A n \in 1 .. N :
        /\ c.entries[S[n]].prev = (IF n = 1 THEN None ELSE S[n - 1])
        /\ c.entries[S[n]].next = (IF n = N THEN None ELSE S[n + 1])
  BY DEF Chain
<1> HIDE DEF d, w, e, N, D
<1>7. (i # 1 => i - 1 \in 1 .. N) /\ (i # N => i + 1 \in 1 .. N) /\ 1 \in 1 .. N /\ N \in 1 .. N
  BY <1>1
<1>8. d.head = (IF Len(w) = 0 THEN None ELSE w[1])
  <2>1. CASE i = 1
    <3>1. d.head = IF N = 1 THEN None ELSE S[2]
      BY <1>3, <1>5, <2>1
    <3> QED BY <1>1, <1>4, <2>1, <3>1
  <2>2. CASE i # 1
    <3>1. d.head = S[1] /\ N > 1
      BY <1>1, <1>3, <1>5, <1>7, <2>2
    <3>2. 1 \in 1 .. Len(w) /\ 1 < i
      BY <1>1, <1>4, <2>2, <3>1
    <3> QED BY <1>4, <3>1, <3>2
  <2> QED BY <2>1, <2>2
<1>9. d.tail = (IF Len(w) = 0 THEN None ELSE w[Len(w)])
  <2>1. CASE i = N
    <3>1. d.tail = IF N = 1 THEN None ELSE S[N - 1]
      BY <1>3, <1>5, <2>1
    <3>2. N # 1 => Len(w) \in 1 .. Len(w) /\ Len(w) < i /\ Len(w) # 0
      BY <1>1, <1>4, <2>1
    <3> QED BY <1>1, <1>4, <3>1, <3>2
  <2>2. CASE i # N
    <3>1. d.tail = S[N]
      BY <1>1, <1>3, <1>5, <1>7, <2>2
    <3>2. Len(w) \in 1 .. Len(w) /\ ~(Len(w) < i) /\ Len(w) + 1 = N /\ Len(w) # 0
      BY <1>1, <1>4, <2>2
    <3> QED BY <1>4, <3>1, <3>2
  <2> QED BY <2>1, <2>2
<1>10. ASSUME NEW m \in 1 .. Len(w)
       PROVE  /\ d.entries[w[m]].prev = (IF m = 1 THEN None ELSE w[m - 1])
              /\ d.entries[w[m]].next = (IF m = Len(w) THEN None ELSE w[m + 1])
  <2> DEFINE p == IF m < i THEN m ELSE m + 1
             x == S[p]
  <2>1. p \in 1 .. N /\ p # i /\ m \in Nat /\ w[m] = x
    BY <1>1, <1>4
  <2>2. x \in D /\ x # k
    BY <1>1, <2>1
  <2>3. /\ d.entries[x].next = IF x = e.prev THEN e.next ELSE c.entries[x].next
        /\ d.entries[x].prev = IF x = e.next THEN e.prev ELSE c.entries[x].prev
    BY <1>3, <2>2
  <2>4. /\ x = e.prev <=> (i # 1 /\ p = i - 1)
        /\ x = e.next <=> (i # N /\ p = i + 1)
    BY <1>1, <1>5, <1>7, <2>1
  <2>5. /\ m # Len(w) => m + 1 \in 1 .. Len(w)
        /\ m # 1 => m - 1 \in 1 .. Len(w)
        /\ Len(w) = N - 1
    BY <1>1, <1>4
  <2>6. d.entries[x].next = (IF m = Len(w) THEN None ELSE w[m + 1])
    <3>1. CASE p = i - 1
      <4>1. m = i - 1 /\ i # 1 /\ d.entries[x].next = IF i = N THEN None ELSE S[i + 1]
        BY <1>1, <1>5, <2>1, <2>3, <2>4, <3>1
      <4>2. m # Len(w) => w[m + 1] = S[i + 1]
        BY <1>1, <1>4, <2>5, <4>1
      <4> QED BY <1>1, <2>5, <4>1, <4>2
    <3>2. CASE p # i - 1
      <4>1. d.entries[x].next = IF p = N THEN None ELSE S[p + 1]
        BY <1>6, <2>1, <2>3, <2>4, <3>2
      <4>2. (m = Len(w)) <=> (p = N)
        BY <1>1, <2>1, <2>5, <3>2
      <4>3. m # Len(w) => w[m + 1] = S[p + 1]
        BY <1>1, <1>4, <2>1, <2>5, <3>2
      <4> QED BY <4>1, <4>2, <4>3
    <3> QED BY <3>1, <3>2
  <2>7. d.entries[x].prev = (IF m = 1 THEN None ELSE w[m - 1])
    <3>1. CASE p = i + 1
      <4>1. m = i /\ i # N /\ d.entries[x].prev = IF i = 1 THEN None ELSE S[i - 1]
        BY <1>1, <1>5, <2>1, <2>3, <2>4, <3>1
      <4>2. m # 1 => w[m - 1] = S[i - 1]
        BY <1>1, <1>4, <2>5, <4>1
      <4> QED BY <4>1, <4>2
    <3>2. CASE p # i + 1
      <4>1. d.entries[x].prev = IF p = 1 THEN None ELSE S[p - 1]
        BY <1>6, <2>1, <2>3, <2>4, <3>2
      <4>2. (m = 1) <=> (p = 1)
        BY <1>1, <2>1, <2>5, <3>2
      <4>3. m # 1 => w[m - 1] = S[p - 1]
        BY <1>1, <1>4, <2>1, <2>5, <3>2
      <4> QED BY <4>1, <4>2, <4>3
    <3> QED BY <3>1, <3>2
  <2> QED BY <2>1, <2>6, <2>7
<1>11. Chain(d, w)
  BY <1>3, <1>4, <1>8, <1>9, <1>10 DEF Chain
<1> QED BY <1>11 DEF d, w

LEMMA AttachedChain ==
    ASSUME NEW c, NEW S, Chain(c, S), NEW k \in DOMAIN c.entries, k \notin ToSet(S)
    PROVE  Chain(Attached(c, k), Append(S, k))
<1> DEFINE d == Attached(c, k)
           N == Len(S)
           w == Append(S, k)
           D == DOMAIN c.entries
<1>1. /\ N \in Nat
      /\ \A n \in 1 .. N : S[n] \in D /\ S[n] \in Keys /\ S[n] # None
      /\ \A m, n \in 1 .. N : S[m] = S[n] => m = n
  BY ChainKeys
<1>2. Noded(c) /\ S \in Seq(D) /\ Distinct(S) /\ DOMAIN S = 1 .. N
  BY DEF Chain
<1>3. \A n \in 1 .. N : S[n] # k
  BY <1>2 DEF ToSet
<1>4. c.tail = (IF N = 0 THEN None ELSE S[N]) /\ c.head = (IF N = 0 THEN None ELSE S[1])
  BY DEF Chain
<1>5. c.tail \in (Keys \ {k}) \cup {None} /\ (c.tail = None <=> N = 0)
  BY <1>1, <1>3, <1>4
<1>6. /\ Noded(d) /\ DOMAIN d.entries = D
      /\ d.head = IF c.tail = None THEN k ELSE c.head
      /\ d.tail = k
      /\ \A x \in D :
           /\ d.entries[x].next = IF x = k THEN None
                                  ELSE IF x = c.tail THEN k ELSE c.entries[x].next
           /\ d.entries[x].prev = IF x = k THEN c.tail ELSE c.entries[x].prev
  BY <1>2, <1>5, AttachedNodes
<1>7. /\ w \in Seq(D) /\ Len(w) = N + 1 /\ Distinct(w)
  BY <1>2, AppendDistinct
<1>8. w[N + 1] = k /\ \A m \in 1 .. N : w[m] = S[m]
  BY <1>2, AppendProperties
<1>9. \A n \in 1 .. N :
        /\ c.entries[S[n]].prev = (IF n = 1 THEN None ELSE S[n - 1])
        /\ c.entries[S[n]].next = (IF n = N THEN None ELSE S[n + 1])
  BY DEF Chain
<1> HIDE DEF d, w, N, D
<1>10. d.head = w[1] /\ d.tail = w[N + 1] /\ N + 1 # 0
  BY <1>1, <1>4, <1>5, <1>6, <1>8
<1>11. ASSUME NEW m \in 1 .. N + 1
       PROVE  /\ d.entries[w[m]].prev = (IF m = 1 THEN None ELSE w[m - 1])
              /\ d.entries[w[m]].next = (IF m = N + 1 THEN None ELSE w[m + 1])
  <2>1. CASE m = N + 1
    <3>1. w[m] = k /\ k \in D
      BY <1>8, <2>1 DEF D
    <3>2. d.entries[k].next = None /\ d.entries[k].prev = c.tail
      BY <1>6, <3>1
    <3>3. m # 1 => m - 1 = N /\ N \in 1 .. N /\ N # 0
      BY <1>1, <2>1
    <3>4. c.tail = (IF m = 1 THEN None ELSE w[m - 1])
      BY <1>1, <1>4, <1>8, <2>1, <3>3
    <3> QED BY <2>1, <3>1, <3>2, <3>4
  <2>2. CASE m # N + 1
    <3>1. m \in 1 .. N /\ (m # 1 => m - 1 \in 1 .. N) /\ (m # N => m + 1 \in 1 .. N) /\ N \in 1 .. N
          /\ N # 0
      BY <1>1, <2>2
    <3>2. w[m] = S[m] /\ S[m] \in D /\ S[m] # k /\ (S[m] = c.tail <=> m = N)
      BY <1>1, <1>3, <1>4, <1>8, <3>1
    <3>3. /\ d.entries[S[m]].next = IF m = N THEN k ELSE S[m + 1]
          /\ d.entries[S[m]].prev = IF m = 1 THEN None ELSE S[m - 1]
      BY <1>6, <1>9, <3>1, <3>2
    <3>4. w[m + 1] = IF m = N THEN k ELSE S[m + 1]
      BY <1>8, <3>1
    <3>5. m # 1 => w[m - 1] = S[m - 1]
      BY <1>8, <3>1
    <3> QED BY <2>2, <3>2, <3>3, <3>4, <3>5
  <2> QED BY <2>1, <2>2
<1>12. Chain(d, w)
  BY <1>6, <1>7, <1>10, <1>11 DEF Chain
<1> QED BY <1>12 DEF d, w

\* Entries that are not in the chain come and go.
LEMMA SameChain ==
    ASSUME NEW c, NEW S, Chain(c, S), NEW d, Noded(d),
           d.head = c.head, d.tail = c.tail, ToSet(S) \subseteq DOMAIN d.entries,
           \A x \in ToSet(S) : d.entries[x] = c.entries[x]
    PROVE  Chain(d, S)
<1>1. Len(S) \in Nat /\ S \in Seq(DOMAIN c.entries) /\ DOMAIN S = 1 .. Len(S)
  BY DEF Chain
<1>2. \A n \in 1 .. Len(S) : S[n] \in ToSet(S)
  BY <1>1 DEF ToSet
<1>3. S \in Seq(DOMAIN d.entries)
  <2>1. S \in [1 .. Len(S) -> DOMAIN d.entries]
    BY <1>1, <1>2
  <2> QED BY <1>1, <2>1, SeqDef
<1> QED BY <1>2, <1>3 DEF Chain

SizesOf(c) == [x \in DOMAIN c.entries |-> c.entries[x].bytes]

HeldSum(c) == Total(SizesOf(c), DOMAIN c.entries)

\* The links join all the entries, in the order S.
Listed(c, S) == Chain(c, S) /\ ToSet(S) = DOMAIN c.entries /\ c.total \in Nat

LEMMA ListedSizes ==
    ASSUME NEW c, NEW S, Listed(c, S)
    PROVE  /\ IsFiniteSet(DOMAIN c.entries) /\ Cardinality(DOMAIN c.entries) = Len(S)
           /\ \A x \in DOMAIN c.entries : /\ c.entries[x].bytes \in Sizes /\ c.entries[x].bytes \in Nat
                                           /\ SizesOf(c)[x] \in Nat
           /\ HeldSum(c) \in Nat
<1>1. S \in Seq(DOMAIN c.entries) /\ Distinct(S) /\ ToSet(S) = DOMAIN c.entries
  BY DEF Listed, Chain
<1>2. IsFiniteSet(DOMAIN c.entries) /\ Cardinality(DOMAIN c.entries) = Len(S)
  BY <1>1, DistinctCount
<1>3. \A x \in DOMAIN c.entries : c.entries[x].bytes \in Sizes
  BY DEF Listed, Chain, Noded, Node
<1>4. Sizes \subseteq Nat
  BY LruListAssumption
<1>5. \A x \in DOMAIN c.entries : SizesOf(c)[x] = c.entries[x].bytes
  BY DEF SizesOf
<1>6. HeldSum(c) \in Nat
  BY <1>2, <1>3, <1>4, <1>5, TotalNat DEF HeldSum
<1> QED BY <1>2, <1>3, <1>4, <1>5, <1>6

\* One entry less, and its bytes less.
LEMMA SumRemoved ==
    ASSUME NEW c, NEW r, NEW k \in DOMAIN c.entries, IsFiniteSet(DOMAIN c.entries),
           \A x \in DOMAIN c.entries : SizesOf(c)[x] \in Nat,
           DOMAIN r.entries = DOMAIN c.entries \ {k},
           \A x \in DOMAIN r.entries : r.entries[x].bytes = c.entries[x].bytes
    PROVE  HeldSum(r) \in Nat /\ HeldSum(c) = c.entries[k].bytes + HeldSum(r)
<1> DEFINE D == DOMAIN c.entries
           f == SizesOf(c)
           g == SizesOf(r)
<1>1. f[k] = c.entries[k].bytes /\ \A x \in D \ {k} : f[x] = g[x]
  BY DEF SizesOf
<1>2. IsFiniteSet(D \ {k})
  BY FS_Subset
<1> HIDE DEF f, g
<1>3. Total(f, D) = f[k] + Total(f, D \ {k})
  BY TotalSplit DEF f
<1>4. Total(f, D \ {k}) = Total(g, D \ {k})
  BY <1>1, <1>2, TotalSame
<1>5. Total(f, D \ {k}) \in Nat
  BY <1>2, TotalNat DEF f
<1> QED BY <1>1, <1>3, <1>4, <1>5 DEF HeldSum, f, g

LEMMA RemovedListed ==
    ASSUME NEW c, NEW S, Listed(c, S), NEW k \in DOMAIN c.entries
    PROVE  LET r == Removed(c, k)
           IN  /\ Listed(r, Without(S, {k})) /\ DOMAIN r.entries = DOMAIN c.entries \ {k}
               /\ \A x \in DOMAIN r.entries : r.entries[x].bytes = c.entries[x].bytes
               /\ r.total = SatSub(c.total, c.entries[k].bytes)
               /\ HeldSum(r) \in Nat /\ HeldSum(c) = c.entries[k].bytes + HeldSum(r)
<1> DEFINE d == Detached(c, k)
           r == Removed(c, k)
           D == DOMAIN c.entries
           w == Without(S, {k})
<1>1. Chain(c, S) /\ Noded(c) /\ S \in Seq(D) /\ Distinct(S) /\ ToSet(S) = D /\ c.total \in Nat
  BY DEF Listed, Chain
<1>2. PICK i \in 1 .. Len(S) : k = S[i]
  <2>1. DOMAIN S = 1 .. Len(S)
    BY <1>1
  <2> QED BY <1>1, <2>1 DEF ToSet
<1>3. Chain(d, w)
  BY <1>1, <1>2, DetachedChain
<1>4. /\ Noded(d) /\ DOMAIN d.entries = D /\ d.total = c.total
      /\ \A x \in D : d.entries[x].bytes = c.entries[x].bytes
  BY <1>1, DetachedNodes
<1>5. w \in Seq(D) /\ ToSet(w) = D \ {k} /\ Distinct(w)
  BY <1>1, WithoutProperties
<1>6. r = [d EXCEPT !.entries = Restrict(@, DOMAIN @ \ {k}),
                    !.total = SatSub(@, c.entries[k].bytes)]
  BY DEF Removed
<1> HIDE DEF d, r, w
<1>7. /\ r = [entries |-> r.entries, head |-> r.head, tail |-> r.tail, total |-> r.total]
      /\ r.entries = [x \in D \ {k} |-> d.entries[x]]
      /\ r.head = d.head /\ r.tail = d.tail /\ r.total = SatSub(c.total, c.entries[k].bytes)
  BY <1>4, <1>6 DEF Noded, Restrict
<1>8. DOMAIN r.entries = D \ {k} /\ \A x \in D \ {k} : r.entries[x] = d.entries[x]
  BY <1>7
<1>9. Noded(r)
  BY <1>4, <1>7, <1>8 DEF Noded
<1>10. Chain(r, w)
  BY <1>3, <1>5, <1>7, <1>8, <1>9, SameChain
<1>11. /\ IsFiniteSet(D) /\ \A x \in D : c.entries[x].bytes \in Nat /\ SizesOf(c)[x] \in Nat
  BY ListedSizes
<1>12. \A x \in DOMAIN r.entries : r.entries[x].bytes = c.entries[x].bytes
  BY <1>4, <1>8
<1>13. HeldSum(r) \in Nat /\ HeldSum(c) = c.entries[k].bytes + HeldSum(r)
  BY <1>8, <1>11, <1>12, SumRemoved
<1>14. c.entries[k].bytes \in Nat
  BY <1>11
<1>15. r.total \in Nat
  BY <1>1, <1>7, <1>14 DEF SatSub
<1> QED BY <1>5, <1>7, <1>8, <1>10, <1>12, <1>13, <1>15 DEF Listed, r, w

\* The count is exact, or behind by what an entry without a size saturated away.
Counted(c, S) ==
    \/ c.total = HeldSum(c)
    \/ /\ Len(S) > 0 /\ c.entries[S[Len(S)]].bytes = Top
       /\ \E lost \in 0 .. MaxBytes : HeldSum(c) = c.total + lost

LEMMA InsertedListed ==
    ASSUME NEW c, NEW S, Listed(c, S), c.total = HeldSum(c), c.total <= MaxBytes,
           NEW k \in Keys, NEW b \in Sizes
    PROVE  LET j == Attached(Put(c, k, b), k)
           IN  /\ Listed(j, UsedLast(S, k)) /\ DOMAIN j.entries = DOMAIN c.entries \cup {k}
               /\ \A x \in DOMAIN j.entries :
                    j.entries[x].bytes = IF x = k THEN b ELSE c.entries[x].bytes
               /\ Counted(j, UsedLast(S, k))
<1> DEFINE d == Detached(c, k)
           p == Put(c, k, b)
           j == Attached(p, k)
           D == DOMAIN c.entries
           w == Without(S, {k})
           previous == IF k \in D THEN c.entries[k].bytes ELSE 0
<1>1. Chain(c, S) /\ Noded(c) /\ S \in Seq(D) /\ Distinct(S) /\ ToSet(S) = D /\ c.total \in Nat
      /\ DOMAIN S = 1 .. Len(S)
  BY DEF Listed, Chain
<1>2. w \in Seq(D) /\ ToSet(w) = D \ {k} /\ Distinct(w)
  BY <1>1, WithoutProperties
<1>3. /\ Chain(d, w) /\ Noded(d) /\ DOMAIN d.entries = D /\ d.total = c.total
      /\ \A x \in D : d.entries[x].bytes = c.entries[x].bytes
  <2>1. CASE k \in D
    <3>1. PICK i \in 1 .. Len(S) : k = S[i]
      BY <1>1, <2>1 DEF ToSet
    <3>2. Chain(d, w)
      BY <1>1, <3>1, DetachedChain
    <3>3. /\ Noded(d) /\ DOMAIN d.entries = D /\ d.total = c.total
          /\ \A x \in D : d.entries[x].bytes = c.entries[x].bytes
      BY <1>1, <2>1, DetachedNodes
    <3> QED BY <3>2, <3>3
  <2>2. CASE k \notin D
    <3>1. d = c
      BY <2>2 DEF Detached
    <3>2. w = S
      BY <1>1, <2>2, WithoutNone
    <3> QED BY <1>1, <3>1, <3>2
  <2> QED BY <2>1, <2>2
<1>4. p = [d EXCEPT !.entries = [x \in DOMAIN @ \cup {k} |->
                        IF x = k THEN [bytes |-> b, prev |-> None, next |-> None] ELSE @[x]],
                    !.total = SatAdd(SatSub(@, previous), b)]
  BY DEF Put
<1>5. /\ \A x \in D : c.entries[x].bytes \in Nat
      /\ b \in Nat /\ previous \in Nat /\ Top \in Nat /\ MaxBytes \in Nat
      /\ 2 * MaxBytes < Top /\ (b # Top => b + MaxBytes <= Top)
  <2>1. \A x \in D : c.entries[x].bytes \in Nat
    BY ListedSizes
  <2>2. /\ Top \in Nat /\ Sizes \subseteq 0 .. Top /\ MaxBytes \in Nat /\ 2 * MaxBytes < Top
        /\ \A n \in Sizes \ {Top} : n + MaxBytes <= Top
    BY LruListAssumption
  <2>3. b \in Nat /\ (b # Top => b + MaxBytes <= Top)
    BY <2>2
  <2> QED BY <2>1, <2>2, <2>3
<1> HIDE DEF d, p, w, previous
<1>6. /\ p = [entries |-> p.entries, head |-> p.head, tail |-> p.tail, total |-> p.total]
      /\ p.entries = [x \in D \cup {k} |->
                        IF x = k THEN [bytes |-> b, prev |-> None, next |-> None] ELSE d.entries[x]]
      /\ p.head = d.head /\ p.tail = d.tail /\ p.total = SatAdd(SatSub(c.total, previous), b)
  BY <1>3, <1>4 DEF Noded
<1>7. /\ DOMAIN p.entries = D \cup {k} /\ p.entries[k] = [bytes |-> b, prev |-> None, next |-> None]
      /\ \A x \in D \ {k} : p.entries[x] = d.entries[x]
  BY <1>6
<1>8. Noded(p)
  <2>1. [bytes |-> b, prev |-> None, next |-> None] \in Node
    BY DEF Node
  <2>2. \A x \in D : d.entries[x] \in Node
    BY <1>3 DEF Noded
  <2>3. \A x \in D \cup {k} : p.entries[x] \in Node
    BY <1>7, <2>1, <2>2
  <2>4. p.entries \in [D \cup {k} -> Node]
    BY <1>6, <2>3
  <2> QED BY <1>1, <1>6, <1>7, <2>4 DEF Noded
<1>9. Chain(p, w)
  BY <1>2, <1>3, <1>6, <1>7, <1>8, SameChain
<1>10. p.total \in Nat
  BY <1>1, <1>5, <1>6 DEF SatAdd, SatSub
<1>11. k \in DOMAIN p.entries /\ k \notin ToSet(w)
  BY <1>2, <1>7
<1>12. Chain(j, Append(w, k))
  BY <1>9, <1>11, AttachedChain
<1>13. p.tail \in (Keys \ {k}) \cup {None}
  <2>1. \A n \in 1 .. Len(w) : w[n] \in Keys /\ w[n] # k
    <3>1. DOMAIN w = 1 .. Len(w) /\ D \subseteq Keys
      BY <1>1, <1>2 DEF Noded
    <3> QED BY <1>2, <3>1 DEF ToSet
  <2>2. Len(w) \in Nat
    BY <1>2
  <2> QED BY <1>9, <2>1, <2>2 DEF Chain
<1>14. /\ DOMAIN j.entries = D \cup {k} /\ j.total = p.total
       /\ \A x \in D \cup {k} : j.entries[x].bytes = p.entries[x].bytes
  BY <1>7, <1>8, <1>11, <1>13, AttachedNodes
<1> DEFINE T == UsedLast(S, k)
<1>15. T = Append(w, k)
  BY DEF UsedLast, w
<1>16. /\ ToSet(T) = D \cup {k} /\ Len(T) = Len(w) + 1 /\ T[Len(T)] = k /\ Len(w) \in Nat
  <2>1. w \in Seq(D \cup {k})
    <3>1. w \in [1 .. Len(w) -> D] /\ Len(w) \in Nat
      BY <1>2
    <3>2. w \in [1 .. Len(w) -> D \cup {k}]
      BY <3>1
    <3> QED BY <3>1, <3>2, SeqDef
  <2>2. ToSet(Append(w, k)) = ToSet(w) \cup {k} /\ Len(Append(w, k)) = Len(w) + 1
    BY <2>1, AppendDistinct
  <2>3. Append(w, k)[Len(w) + 1] = k
    BY <2>1, AppendProperties
  <2> QED BY <1>2, <1>15, <2>1, <2>2, <2>3
<1> HIDE DEF j, T
<1>17. Listed(j, T)
  BY <1>10, <1>12, <1>14, <1>15, <1>16 DEF Listed
<1>18. \A x \in D \cup {k} : j.entries[x].bytes = IF x = k THEN b ELSE c.entries[x].bytes
  BY <1>3, <1>7, <1>14
<1>19. Counted(j, T)
  <2> DEFINE f == SizesOf(j)
             g == SizesOf(c)
             rest == Total(g, D \ {k})
  <2>1. f[k] = b /\ \A x \in D \ {k} : f[x] = g[x]
    BY <1>14, <1>18 DEF SizesOf
  <2>2. IsFiniteSet(D) /\ \A x \in D : g[x] \in Nat /\ g[x] = c.entries[x].bytes
    BY ListedSizes DEF SizesOf
  <2>3. IsFiniteSet(D \ {k})
    BY <2>2, FS_Subset
  <2>4. IsFiniteSet(D \cup {k}) /\ \A x \in D \cup {k} : f[x] \in Nat
    BY <1>5, <2>1, <2>2, FS_AddElement
  <2> HIDE DEF f, g
  <2>5. rest \in Nat
    BY <2>2, <2>3, TotalNat
  <2>6. Total(f, D \cup {k}) = f[k] + Total(f, (D \cup {k}) \ {k})
    BY <2>4, TotalSplit
  <2>7. (D \cup {k}) \ {k} = D \ {k}
    OBVIOUS
  <2>8. Total(f, D \ {k}) = rest
    BY <2>1, <2>3, TotalSame
  <2>9. HeldSum(j) = b + rest
    BY <1>14, <2>1, <2>6, <2>7, <2>8 DEF HeldSum, f
  <2>10. c.total = previous + rest
    <3>1. CASE k \in D
      <4>1. Total(g, D) = g[k] + rest
        BY <2>2, <3>1, TotalSplit
      <4> QED BY <2>2, <3>1, <4>1 DEF HeldSum, g, previous
    <3>2. CASE k \notin D
      <4>1. D \ {k} = D
        BY <3>2
      <4> QED BY <2>5, <3>2, <4>1 DEF HeldSum, g, previous
    <3> QED BY <3>1, <3>2
  <2> HIDE DEF rest
  <2>11. rest <= MaxBytes /\ SatSub(c.total, previous) = rest
    BY <1>1, <1>5, <2>5, <2>10 DEF SatSub
  <2>12. j.total = SatAdd(rest, b)
    BY <1>6, <1>14, <2>11
  <2>13. CASE b = Top
    <3>1. j.total = Top
      BY <1>5, <2>5, <2>12, <2>13 DEF SatAdd
    <3>2. j.entries[T[Len(T)]].bytes = Top /\ Len(T) > 0
      BY <1>16, <1>18, <2>13
    <3>3. HeldSum(j) = j.total + rest /\ rest \in 0 .. MaxBytes
      BY <1>5, <2>5, <2>9, <2>11, <2>13, <3>1
    <3> QED BY <3>2, <3>3 DEF Counted
  <2>14. CASE b # Top
    <3>1. j.total = HeldSum(j)
      BY <1>5, <2>5, <2>9, <2>11, <2>12, <2>14 DEF SatAdd
    <3> QED BY <3>1 DEF Counted
  <2> QED BY <2>13, <2>14
<1> QED BY <1>14, <1>17, <1>18, <1>19 DEF j, T, p

\* One round of the eviction loop, and the equation of the loop.
Round(c) == IF Over(c) /\ c.head # None THEN Removed(c, c.head) ELSE c

Rounds(f, c, N) == f = [n \in 0 .. N |-> IF n = 0 THEN c ELSE Round(f[n - 1])]

LEMMA RoundsExists ==
    ASSUME NEW c, NEW N \in Nat
    PROVE  \E f : Rounds(f, c, N)
<1> DEFINE good == {n \in 0 .. N : \E f : Rounds(f, c, n)}
<1>1. 0 \in good
  <2> DEFINE f == [n \in 0 .. 0 |-> c]
  <2>1. Rounds(f, c, 0)
    BY DEF Rounds
  <2> QED BY <2>1
<1>2. ASSUME NEW n \in 1 .. N, n - 1 \in good
      PROVE  n \in good
  <2>1. n \in Nat /\ n # 0 /\ n \in 0 .. N
    OBVIOUS
  <2>2. PICK f : Rounds(f, c, n - 1)
    BY <1>2
  <2> DEFINE g == [m \in 0 .. n |-> IF m = n THEN Round(f[n - 1]) ELSE f[m]]
  <2>3. \A m \in 0 .. n - 1 : g[m] = f[m]
    BY <2>1
  <2>4. g[n] = Round(f[n - 1]) /\ g = [m \in 0 .. n |-> g[m]]
    BY <2>1
  <2>5. \A m \in 0 .. n - 1 : f[m] = IF m = 0 THEN c ELSE Round(f[m - 1])
    BY <2>2 DEF Rounds
  <2> HIDE DEF g
  <2>6. \A m \in 0 .. n : g[m] = IF m = 0 THEN c ELSE Round(g[m - 1])
    <3> SUFFICES ASSUME NEW m \in 0 .. n
                 PROVE  g[m] = IF m = 0 THEN c ELSE Round(g[m - 1])
      OBVIOUS
    <3>1. CASE m = n
      <4>1. g[n - 1] = f[n - 1]
        BY <2>1, <2>3
      <4> QED BY <2>1, <2>4, <3>1, <4>1
    <3>2. CASE m # n
      <4>1. m \in 0 .. n - 1 /\ (m # 0 => m - 1 \in 0 .. n - 1)
        BY <2>1, <3>2
      <4> QED BY <2>3, <2>5, <4>1
    <3> QED BY <3>1, <3>2
  <2>7. Rounds(g, c, n)
    BY <2>4, <2>6 DEF Rounds
  <2> QED BY <2>1, <2>7
<1> HIDE DEF good
<1>3. N \in good
  <2>1. \A n \in 0 .. N : n \in good
    BY <1>1, <1>2, UpTo
  <2> QED BY <2>1
<1> QED BY <1>3 DEF good

LEMMA EvictedRounds ==
    ASSUME NEW c, Cardinality(DOMAIN c.entries) \in Nat
    PROVE  \E f : /\ Rounds(f, c, Cardinality(DOMAIN c.entries))
                  /\ Evicted(c) = f[Cardinality(DOMAIN c.entries)]
<1> DEFINE N == Cardinality(DOMAIN c.entries)
           f == CHOOSE g : Rounds(g, c, N)
<1>1. Rounds(f, c, N)
  BY RoundsExists
<1>2. Evicted(c) = f[N]
  BY DEF Evicted, Rounds, Round
<1> HIDE DEF f
<1> QED BY <1>1, <1>2

LEMMA RoundsAt ==
    ASSUME NEW c, NEW N \in Nat, NEW f, Rounds(f, c, N)
    PROVE  f[0] = c /\ \A n \in 1 .. N : f[n] = Round(f[n - 1])
<1>1. \A n \in 0 .. N : f[n] = IF n = 0 THEN c ELSE Round(f[n - 1])
  BY DEF Rounds
<1>2. 0 \in 0 .. N /\ \A n \in 1 .. N : n \in 0 .. N /\ n # 0
  OBVIOUS
<1> QED BY <1>1, <1>2

Later(S, n) == SubSeq(S, n + 1, Len(S))

LEMMA LaterIs ==
    ASSUME NEW K, NEW S \in Seq(K), NEW n \in 0 .. Len(S)
    PROVE  /\ Later(S, n) \in Seq(K) /\ Len(Later(S, n)) = Len(S) - n
           /\ \A m \in 1 .. Len(S) - n : Later(S, n)[m] = S[n + m]
           /\ ToSet(Later(S, n)) = {S[m] : m \in n + 1 .. Len(S)}
<1> DEFINE t == Later(S, n)
<1>1. Len(S) \in Nat /\ n \in Nat /\ n <= Len(S)
  OBVIOUS
<1>2. t \in Seq(K) /\ Len(t) = Len(S) - n /\ ToSet(t) = {S[m] : m \in n + 1 .. Len(S)}
  BY SuffixProperties DEF Later
<1>3. \A m \in 1 .. Len(S) - (n + 1) + 1 : t[m] = S[n + 1 + m - 1]
  <2>1. \A m \in n + 1 .. Len(S) : S[m] \in K
    BY <1>1
  <2>2. n + 1 \in Int /\ Len(S) \in Int
    BY <1>1
  <2> HIDE DEF t
  <2> QED BY <2>1, <2>2, SubSeqProperties DEF t, Later
<1> HIDE DEF t
<1>4. \A m \in 1 .. Len(S) - n : m \in 1 .. Len(S) - (n + 1) + 1 /\ n + 1 + m - 1 = n + m
  BY <1>1
<1> QED BY <1>2, <1>3, <1>4 DEF t

\* Without its first key.
LEMMA LaterNext ==
    ASSUME NEW K, NEW S \in Seq(K), Distinct(S), NEW n \in 0 .. Len(S), n < Len(S)
    PROVE  Without(Later(S, n), {S[n + 1]}) = Later(S, n + 1)
<1> DEFINE t == Later(S, n)
           u == Later(S, n + 1)
           w == Without(t, {t[1]})
<1>1. Len(S) \in Nat /\ n \in Nat /\ n + 1 \in 0 .. Len(S) /\ 1 \in 1 .. Len(S) - n
  OBVIOUS
<1>2. t \in Seq(K) /\ Len(t) = Len(S) - n /\ (\A m \in 1 .. Len(S) - n : t[m] = S[n + m]) /\ Distinct(t)
  BY LaterIs, SuffixProperties DEF Later
<1>3. u \in Seq(K) /\ Len(u) = Len(S) - (n + 1) /\ (\A m \in 1 .. Len(S) - (n + 1) : u[m] = S[n + 1 + m])
  BY <1>1, LaterIs
<1> HIDE DEF t, u
<1>4. 1 \in 1 .. Len(t) /\ t[1] = S[n + 1]
  BY <1>1, <1>2
<1>5. /\ w \in Seq(K) /\ Len(w) = Len(t) - 1
      /\ \A m \in 1 .. Len(w) : w[m] = IF m < 1 THEN t[m] ELSE t[m + 1]
  BY <1>2, <1>4, WithoutOne
<1> HIDE DEF w
<1>6. Len(w) = Len(u) /\ Len(u) \in Nat
  BY <1>1, <1>2, <1>3, <1>5
<1>7. \A m \in 1 .. Len(u) : w[m] = u[m]
  <2> SUFFICES ASSUME NEW m \in 1 .. Len(u)
               PROVE  w[m] = u[m]
    OBVIOUS
  <2>1. m \in 1 .. Len(w) /\ ~(m < 1) /\ m + 1 \in 1 .. Len(S) - n /\ m \in 1 .. Len(S) - (n + 1)
        /\ n + (m + 1) = n + 1 + m
    BY <1>1, <1>2, <1>3, <1>6
  <2> QED BY <1>2, <1>3, <1>5, <2>1
<1>8. w = u
  BY <1>3, <1>5, <1>6, <1>7
<1> QED BY <1>4, <1>8 DEF t, u, w

\* Whether the loop goes on is told by the entries, however far the count is behind.
LEMMA OverMeans ==
    ASSUME NEW c, NEW S, Listed(c, S), Counted(c, S)
    PROVE  /\ Over(c) <=> Len(S) > MaxEntries \/ HeldSum(c) > MaxBytes
           /\ HeldSum(c) <= MaxBytes => c.total = HeldSum(c)
           /\ Len(S) = 0 => c.head = None /\ HeldSum(c) = 0 /\ c.total = 0
           /\ Len(S) # 0 => c.head = S[1] /\ c.head # None /\ c.head \in DOMAIN c.entries
<1>1. /\ Cardinality(DOMAIN c.entries) = Len(S) /\ HeldSum(c) \in Nat /\ Len(S) \in Nat
      /\ IsFiniteSet(DOMAIN c.entries)
      /\ \A x \in DOMAIN c.entries : SizesOf(c)[x] \in Nat /\ c.entries[x].bytes = SizesOf(c)[x]
  BY ListedSizes, ChainKeys DEF SizesOf, Listed
<1>2. c.total \in Nat /\ Top \in Nat /\ MaxBytes \in Nat /\ 2 * MaxBytes < Top
  BY LruListAssumption DEF Listed
<1>3. Len(S) # 0 => S[Len(S)] \in DOMAIN c.entries
  BY <1>1, ChainKeys DEF Listed
<1>4. ASSUME c.total # HeldSum(c)
      PROVE  c.total > MaxBytes /\ HeldSum(c) > MaxBytes /\ Len(S) # 0
  <2>1. Len(S) # 0 /\ c.entries[S[Len(S)]].bytes = Top
    BY <1>1, <1>4 DEF Counted
  <2>2. PICK lost \in 0 .. MaxBytes : HeldSum(c) = c.total + lost
    BY <1>4 DEF Counted
  <2> DEFINE x == S[Len(S)]
             f == SizesOf(c)
             D == DOMAIN c.entries
  <2>3. x \in D /\ f[x] = Top
    BY <1>1, <1>3, <2>1
  <2>4. IsFiniteSet(D \ {x}) /\ \A y \in D \ {x} : f[y] \in Nat
    BY <1>1, FS_Subset
  <2>5. Total(f, D) = f[x] + Total(f, D \ {x}) /\ Total(f, D \ {x}) \in Nat
    <3> HIDE DEF x, f, D
    <3>1. IsFiniteSet(D) /\ \A y \in D : f[y] \in Nat
      BY <1>1 DEF f, D
    <3> QED BY <2>3, <2>4, <3>1, TotalSplit, TotalNat
  <2>6. HeldSum(c) >= Top
    <3> HIDE DEF x
    <3>1. HeldSum(c) = Total(f, D)
      BY DEF HeldSum
    <3> HIDE DEF f, D
    <3> QED BY <1>2, <2>3, <2>5, <3>1
  <2> QED BY <1>1, <1>2, <2>1, <2>2, <2>6
<1>5. Over(c) <=> Len(S) > MaxEntries \/ HeldSum(c) > MaxBytes
  BY <1>1, <1>4 DEF Over
<1>6. HeldSum(c) <= MaxBytes => c.total = HeldSum(c)
  BY <1>1, <1>2, <1>4
<1>7. Len(S) = 0 => HeldSum(c) = 0 /\ c.total = 0
  <2> SUFFICES ASSUME Len(S) = 0
               PROVE  HeldSum(c) = 0 /\ c.total = 0
    OBVIOUS
  <2>1. DOMAIN c.entries = {}
    BY <1>1, FS_EmptySet
  <2>2. HeldSum(c) = 0
    BY <2>1, TotalEmpty DEF HeldSum
  <2> QED BY <1>4, <2>2
<1>8. c.head = IF Len(S) = 0 THEN None ELSE S[1]
  BY DEF Listed, Chain
<1>9. Len(S) # 0 => S[1] \in DOMAIN c.entries /\ S[1] # None
  BY <1>1, ChainKeys DEF Listed
<1> QED BY <1>5, <1>6, <1>7, <1>8, <1>9

\* A round that removes the oldest entry.
LEMMA OldestRemoved ==
    ASSUME NEW c, NEW S, Listed(c, S), Counted(c, S), Over(c), Len(S) # 0
    PROVE  LET r == Removed(c, S[1])
               w == Without(S, {S[1]})
           IN  /\ Listed(r, w) /\ Counted(r, w)
               /\ DOMAIN r.entries \subseteq DOMAIN c.entries
               /\ \A x \in DOMAIN r.entries : r.entries[x].bytes = c.entries[x].bytes
<1> DEFINE k == S[1]
           b == c.entries[k].bytes
           r == Removed(c, k)
           w == Without(S, {k})
           N == Len(S)
<1>1. /\ N \in Nat /\ N # 0 /\ 1 \in 1 .. N /\ N \in 1 .. N /\ k \in DOMAIN c.entries
      /\ \A m, n \in 1 .. N : S[m] = S[n] => m = n
  BY ChainKeys DEF Listed
<1>2. /\ Listed(r, w) /\ DOMAIN r.entries = DOMAIN c.entries \ {k}
      /\ \A x \in DOMAIN r.entries : r.entries[x].bytes = c.entries[x].bytes
      /\ r.total = SatSub(c.total, b)
      /\ HeldSum(r) \in Nat /\ HeldSum(c) = b + HeldSum(r)
  BY <1>1, RemovedListed
<1>3. c.total \in Nat /\ b \in Nat /\ Top \in Nat /\ MaxBytes \in Nat
  BY <1>1, ListedSizes, LruListAssumption DEF Listed
<1>4. Len(w) = N - 1 /\ \A m \in 1 .. Len(w) : w[m] = S[m + 1]
  <2>1. S \in Seq(DOMAIN c.entries) /\ Distinct(S)
    BY DEF Listed, Chain
  <2>2. Len(w) = N - 1 /\ \A m \in 1 .. Len(w) : w[m] = IF m < 1 THEN S[m] ELSE S[m + 1]
    BY <1>1, <2>1, WithoutOne
  <2> HIDE DEF w
  <2> QED BY <1>1, <2>2
<1>5. /\ \A x \in DOMAIN r.entries : SizesOf(r)[x] \in Nat /\ SizesOf(r)[x] = r.entries[x].bytes
      /\ IsFiniteSet(DOMAIN r.entries)
  BY <1>2, ListedSizes DEF SizesOf
<1> HIDE DEF k, b, r, w, N
<1>6. Counted(r, w)
  <2>1. CASE c.total = HeldSum(c)
    <3>1. r.total = HeldSum(r)
      BY <1>2, <1>3, <2>1 DEF SatSub
    <3> QED BY <3>1 DEF Counted
  <2>2. CASE c.total # HeldSum(c)
    <3>1. c.entries[S[N]].bytes = Top
      BY <2>2 DEF Counted, N
    <3>2. PICK lost \in 0 .. MaxBytes : HeldSum(c) = c.total + lost
      BY <2>2 DEF Counted
    <3>3. CASE N = 1
      <4>1. b = Top
        BY <3>1, <3>3 DEF b, k
      <4>2. Len(w) = 0
        BY <1>4, <3>3
      <4>3. HeldSum(r) = 0
        <5>1. ToSet(w) = DOMAIN r.entries /\ w \in Seq(DOMAIN r.entries) /\ Distinct(w)
          BY <1>2 DEF Listed, Chain
        <5>2. Cardinality(DOMAIN r.entries) = 0
          BY <4>2, <5>1, DistinctCount
        <5>3. DOMAIN r.entries = {}
          BY <1>5, <5>2, FS_EmptySet
        <5> QED BY <5>3, TotalEmpty DEF HeldSum
      <4>4. r.total = HeldSum(r)
        BY <1>2, <1>3, <3>2, <4>1, <4>3 DEF SatSub
      <4> QED BY <4>4 DEF Counted
    <3>4. CASE N # 1
      <4> DEFINE x == S[N]
                 f == SizesOf(r)
                 D == DOMAIN r.entries
      <4>1. x # k /\ x \in DOMAIN c.entries
        BY <1>1, <3>4, ChainKeys DEF k, Listed, N
      <4>2. x \in D /\ f[x] = Top
        BY <1>2, <1>5, <3>1, <4>1
      <4>3. HeldSum(r) >= Top
        <5>1. IsFiniteSet(D \ {x}) /\ \A y \in D \ {x} : f[y] \in Nat
          BY <1>5, FS_Subset
        <5>2. HeldSum(r) = Total(f, D)
          BY DEF HeldSum
        <5>3. IsFiniteSet(D) /\ \A y \in D : f[y] \in Nat
          BY <1>5
        <5> HIDE DEF x, f, D
        <5>4. Total(f, D) = f[x] + Total(f, D \ {x}) /\ Total(f, D \ {x}) \in Nat
          BY <4>2, <5>1, <5>3, TotalSplit, TotalNat
        <5> QED BY <1>3, <4>2, <5>2, <5>4
      <4>4. HeldSum(r) = r.total + lost
        <5>1. lost \in Nat /\ lost <= MaxBytes /\ 2 * MaxBytes < Top
          BY <1>3, LruListAssumption
        <5>2. ~(c.total < b) /\ r.total = c.total - b
          BY <1>2, <1>3, <3>2, <4>3, <5>1 DEF SatSub
        <5> QED BY <1>2, <1>3, <3>2, <5>1, <5>2
      <4>5. Len(w) > 0 /\ w[Len(w)] = x
        BY <1>1, <1>4, <3>4
      <4>6. r.entries[w[Len(w)]].bytes = Top
        BY <1>5, <4>2, <4>5
      <4> QED BY <4>4, <4>5, <4>6 DEF Counted
    <3> QED BY <3>3, <3>4
  <2> QED BY <2>1, <2>2
<1> QED BY <1>2, <1>6 DEF r, w, k

\* What is left after n removals fits.
FitsAfter(c, S, n) ==
    /\ Len(S) - n <= MaxEntries
    /\ Total(SizesOf(c), ToSet(Later(S, n))) <= MaxBytes

\* The loop leaves the shortest tail of the order that it must: as many of the oldest
\* entries leave as is needed, and the count is exact again.
LEMMA EvictedListed ==
    ASSUME NEW c, NEW S, Listed(c, S), Counted(c, S)
    PROVE  \E n \in 0 .. Len(S) :
             LET r == Evicted(c)
             IN  /\ Listed(r, Later(S, n)) /\ r.total = HeldSum(r) /\ r.total <= MaxBytes
                 /\ DOMAIN r.entries \subseteq DOMAIN c.entries
                 /\ \A x \in DOMAIN r.entries : r.entries[x].bytes = c.entries[x].bytes
                 /\ FitsAfter(c, S, n) /\ \A m \in 0 .. n - 1 : ~FitsAfter(c, S, m)
<1> DEFINE N == Len(S)
           D == DOMAIN c.entries
<1>1. N \in Nat /\ S \in Seq(D) /\ Distinct(S) /\ ToSet(S) = D /\ Cardinality(D) = N
  BY ListedSizes DEF Listed, Chain
<1>2. PICK f : Rounds(f, c, N) /\ Evicted(c) = f[N]
  BY <1>1, EvictedRounds
<1>3. f[0] = c /\ \A n \in 1 .. N : f[n] = Round(f[n - 1])
  <2>1. Rounds(f, c, N) /\ N \in Nat
    BY <1>1, <1>2
  <2> HIDE DEF N
  <2> QED BY <2>1, RoundsAt
<1> DEFINE Left(r, k) ==
             /\ Listed(r, Later(S, k)) /\ Counted(r, Later(S, k)) /\ DOMAIN r.entries \subseteq D
             /\ \A x \in DOMAIN r.entries : r.entries[x].bytes = c.entries[x].bytes
             /\ \A m \in 0 .. k - 1 : ~FitsAfter(c, S, m)
           Done(r) == ~(Over(r) /\ r.head # None)
           good == {n \in 0 .. N : \E k \in 0 .. n : Left(f[n], k) /\ (k = n \/ Done(f[n]))}
\* Over is FitsAfter, while the sizes are those of c.
<1>4. ASSUME NEW r, NEW k \in 0 .. N, Left(r, k)
      PROVE  /\ Over(r) <=> ~FitsAfter(c, S, k)
             /\ Later(S, k) \in Seq(D) /\ Len(Later(S, k)) = N - k
  <2> DEFINE t == Later(S, k)
  <2>1. t \in Seq(D) /\ Len(t) = N - k
    BY <1>1, LaterIs
  <2>2. Listed(r, t) /\ Counted(r, t) /\ DOMAIN r.entries \subseteq D
        /\ \A x \in DOMAIN r.entries : r.entries[x].bytes = c.entries[x].bytes
    BY <1>4
  <2> HIDE DEF t
  <2>3. ToSet(t) = DOMAIN r.entries /\ IsFiniteSet(DOMAIN r.entries)
    BY <2>2, ListedSizes DEF Listed
  <2>4. HeldSum(r) = Total(SizesOf(c), ToSet(t))
    <3>1. \A x \in DOMAIN r.entries : SizesOf(r)[x] = SizesOf(c)[x]
      BY <2>2 DEF SizesOf
    <3>2. Total(SizesOf(r), DOMAIN r.entries) = Total(SizesOf(c), DOMAIN r.entries)
      BY <2>3, <3>1, TotalSame
    <3> QED BY <2>3, <3>2 DEF HeldSum
  <2>5. HeldSum(r) \in Nat /\ MaxBytes \in Nat /\ MaxEntries \in Nat
    BY <2>2, ListedSizes, LruListAssumption
  <2>6. Over(r) <=> Len(t) > MaxEntries \/ HeldSum(r) > MaxBytes
    BY <2>2, OverMeans
  <2>7. FitsAfter(c, S, k) <=> N - k <= MaxEntries /\ HeldSum(r) <= MaxBytes
    BY <2>4 DEF FitsAfter, t
  <2> QED BY <1>1, <2>1, <2>5, <2>6, <2>7 DEF t
<1> HIDE DEF Left, Done, N, D
<1>5. 0 \in good
  <2>1. Later(S, 0) = S
    <3>1. /\ Later(S, 0) \in Seq(D) /\ Len(Later(S, 0)) = N - 0
          /\ \A m \in 1 .. N - 0 : Later(S, 0)[m] = S[0 + m]
      BY <1>1, LaterIs DEF N
    <3>2. \A m \in 1 .. N : Later(S, 0)[m] = S[m]
      BY <1>1, <3>1
    <3> QED BY <1>1, <3>1, <3>2 DEF N
  <2>2. Left(c, 0)
    BY <2>1 DEF Left, D
  <2> QED BY <1>1, <1>3, <2>2
<1>6. ASSUME NEW n \in 1 .. N, n - 1 \in good
      PROVE  n \in good
  <2> DEFINE r == f[n - 1]
  <2>1. n - 1 \in 0 .. N /\ n \in 0 .. N /\ n \in Nat
    BY <1>1
  <2>2. PICK k \in 0 .. n - 1 : Left(r, k) /\ (k = n - 1 \/ Done(r))
    BY <1>6
  <2>3. f[n] = Round(r) /\ k \in 0 .. N /\ k \in 0 .. n /\ k < N
    <3>1. f[n] = Round(r)
      BY <1>3
    <3>2. k \in 0 .. N /\ k \in 0 .. n /\ k < N
      BY <1>1, <2>1
    <3> QED BY <3>1, <3>2
  <2> HIDE DEF r
  <2>4. CASE Done(r)
    <3>1. f[n] = r
      BY <2>3, <2>4 DEF Round, Done
    <3> QED BY <2>1, <2>2, <2>3, <2>4, <3>1
  <2>5. CASE ~Done(r)
    <3> DEFINE t == Later(S, k)
    <3>1. Over(r) /\ r.head # None /\ k = n - 1
      BY <2>2, <2>5 DEF Done
    <3>2. ~FitsAfter(c, S, k) /\ t \in Seq(D) /\ Len(t) = N - k
      BY <1>4, <2>2, <2>3, <3>1
    <3>3. Listed(r, t) /\ Counted(r, t)
      BY <2>2 DEF Left
    <3>4. t[1] = S[k + 1]
      <4>1. 1 \in 1 .. N - k /\ k \in 0 .. Len(S)
        BY <1>1, <2>3 DEF N
      <4> QED BY <1>1, <4>1, LaterIs DEF N
    <3>5. Len(t) # 0
      BY <1>1, <2>3, <3>2
    <3>6. Without(t, {t[1]}) = Later(S, k + 1)
      BY <1>1, <2>3, <3>4, LaterNext DEF N
    <3>7. r.head = t[1]
      BY <3>3, <3>5, OverMeans
    <3>8. f[n] = Removed(r, t[1])
      BY <2>3, <3>1, <3>7 DEF Round
    <3> HIDE DEF t
    <3>9. /\ Listed(f[n], Later(S, n)) /\ Counted(f[n], Later(S, n))
          /\ DOMAIN f[n].entries \subseteq DOMAIN r.entries
          /\ \A x \in DOMAIN f[n].entries : f[n].entries[x].bytes = r.entries[x].bytes
      <4>1. k + 1 = n
        BY <2>1, <3>1
      <4> QED BY <3>1, <3>3, <3>5, <3>6, <3>8, <4>1, OldestRemoved
    <3>10. \A m \in 0 .. n - 1 : ~FitsAfter(c, S, m)
      <4>1. \A m \in 0 .. k - 1 : ~FitsAfter(c, S, m)
        BY <2>2 DEF Left
      <4>2. \A m \in 0 .. n - 1 : m = k \/ m \in 0 .. k - 1
        BY <2>1, <3>1
      <4> QED BY <3>2, <4>1, <4>2
    <3>11. Left(f[n], n)
      BY <2>2, <3>9, <3>10 DEF Left
    <3> QED BY <2>1, <3>11
  <2> QED BY <2>4, <2>5
<1>7. N \in good
  <2> HIDE DEF good
  <2>1. \A n \in 0 .. N : n \in good
    BY <1>1, <1>5, <1>6, UpTo
  <2> QED BY <1>1, <2>1
<1>8. PICK k \in 0 .. N : Left(f[N], k) /\ (k = N \/ Done(f[N]))
  BY <1>7
<1> DEFINE r == f[N]
           t == Later(S, k)
<1> HIDE DEF r, t
<1>9. Left(r, k) /\ (k = N \/ Done(r))
  BY <1>8 DEF r
<1>10. t \in Seq(D) /\ Len(t) = N - k /\ (Over(r) <=> ~FitsAfter(c, S, k))
  BY <1>4, <1>9 DEF t
<1>11. Listed(r, t) /\ Counted(r, t) /\ HeldSum(r) \in Nat
  BY <1>9, ListedSizes DEF Left, t
<1>12. /\ Over(r) <=> Len(t) > MaxEntries \/ HeldSum(r) > MaxBytes
       /\ HeldSum(r) <= MaxBytes => r.total = HeldSum(r)
       /\ Len(t) = 0 => r.head = None /\ HeldSum(r) = 0
       /\ Len(t) # 0 => r.head # None
  BY <1>11, OverMeans
<1>13. MaxBytes \in Nat /\ MaxEntries \in Nat
  BY LruListAssumption
<1>14. ~Over(r)
  <2>1. CASE Len(t) = 0
    BY <1>12, <1>13, <2>1
  <2>2. CASE Len(t) # 0
    <3>1. k # N
      BY <1>1, <1>10, <2>2
    <3> QED BY <1>9, <1>12, <2>2, <3>1 DEF Done
  <2> QED BY <2>1, <2>2
<1>15. HeldSum(r) <= MaxBytes /\ r.total = HeldSum(r) /\ FitsAfter(c, S, k)
  BY <1>10, <1>11, <1>12, <1>13, <1>14
<1>16. Evicted(c) = r
  BY <1>2 DEF r
<1> QED BY <1>8, <1>9, <1>11, <1>15, <1>16 DEF Left, t, N, D

\* The equation of the fold of prune: iter has what is left without each of the sources.
Prunes(iter, c, S) ==
    iter = [s \in SUBSET S |->
              IF s = {} THEN c
              ELSE Removed(iter[s \ {CHOOSE x \in s : TRUE}], CHOOSE x \in s : TRUE)]

LEMMA PrunesAgree ==
    ASSUME NEW c, NEW S, NEW T, NEW g, NEW h, IsFiniteSet(S), Prunes(g, c, S), Prunes(h, c, T)
    PROVE  \A u \in SUBSET S : u \subseteq T => g[u] = h[u]
<1> DEFINE bad == {u \in SUBSET S : u \subseteq T /\ g[u] # h[u]}
<1> SUFFICES ASSUME bad # {}
             PROVE  FALSE
  OBVIOUS
<1>1. PICK u \in bad : \A v \in bad : v \subseteq u => v = u
  <2>1. bad \subseteq SUBSET S
    OBVIOUS
  <2> HIDE DEF bad
  <2> QED BY <2>1, LeastSet
<1>2. u \in SUBSET S /\ u \in SUBSET T /\ g[u] # h[u]
  OBVIOUS
<1>3. u # {}
  BY <1>2 DEF Prunes
<1> DEFINE x == CHOOSE y \in u : TRUE
<1>4. x \in u
  BY <1>3
<1> HIDE DEF x
<1>5. g[u] = Removed(g[u \ {x}], x) /\ h[u] = Removed(h[u \ {x}], x)
  BY <1>2, <1>3 DEF Prunes, x
<1>6. u \ {x} \in SUBSET S /\ u \ {x} \subseteq T /\ u \ {x} # u
  BY <1>2, <1>4
<1>7. u \ {x} \notin bad
  BY <1>1, <1>6
<1>8. g[u \ {x}] = h[u \ {x}]
  BY <1>6, <1>7
<1> QED
  BY <1>2, <1>5, <1>8

LEMMA PrunesExists ==
    ASSUME NEW c, NEW S, IsFiniteSet(S)
    PROVE  \E iter : Prunes(iter, c, S)
<1> DEFINE bad == {u \in SUBSET S : ~ \E iter : Prunes(iter, c, u)}
           V(u) == (CHOOSE iter : Prunes(iter, c, u))[u]
<1> SUFFICES ASSUME bad # {}
             PROVE  FALSE
  OBVIOUS
<1>1. PICK T \in bad : \A v \in bad : v \subseteq T => v = T
  <2>1. bad \subseteq SUBSET S
    OBVIOUS
  <2> HIDE DEF bad
  <2> QED BY <2>1, LeastSet
<1>2. T \in SUBSET S /\ ~ \E iter : Prunes(iter, c, T)
  OBVIOUS
<1>3. \A u \in SUBSET T : u # T => \E iter : Prunes(iter, c, u)
  BY <1>1, <1>2
<1>4. \A u \in SUBSET T : u # T => Prunes(CHOOSE iter : Prunes(iter, c, u), c, u)
  BY <1>3
<1> DEFINE C(u) == CHOOSE x \in u : TRUE
           it == [u \in SUBSET T |-> IF u = {} THEN c ELSE Removed(V(u \ {C(u)}), C(u))]
<1>5. \A u \in SUBSET T : u # {} => C(u) \in u
  OBVIOUS
<1>6. ASSUME NEW u \in SUBSET T, u # T
      PROVE  it[u] = V(u)
  <2> DEFINE g == CHOOSE iter : Prunes(iter, c, u)
  <2>1. Prunes(g, c, u)
    BY <1>4, <1>6
  <2> HIDE DEF g
  <2>2. V(u) = g[u]
    BY DEF g
  <2>3. CASE u = {}
    <3>1. g[u] = c
      BY <2>1, <2>3 DEF Prunes
    <3>2. it[u] = c
      BY <2>3
    <3> HIDE DEF it, V
    <3> QED BY <2>2, <3>1, <3>2
  <2>4. CASE u # {}
    <3> DEFINE w == u \ {C(u)}
    <3>1. w \in SUBSET T /\ w # T /\ w \subseteq u /\ C(u) \in u
      BY <1>5, <2>4, <1>6
    <3>2. g[u] = Removed(g[w], C(u))
      BY <2>1, <2>4, <3>1 DEF Prunes
    <3>3. g[w] = V(w)
      <4> DEFINE k == CHOOSE iter : Prunes(iter, c, w)
      <4>1. Prunes(k, c, w)
        BY <1>4, <3>1
      <4>2. IsFiniteSet(u)
        BY FS_Subset, <1>2
      <4> HIDE DEF k, w
      <4>3. g[w] = k[w]
        BY <2>1, <4>1, <4>2, <3>1, PrunesAgree
      <4> QED BY <4>3 DEF k
    <3>4. it[u] = Removed(V(w), C(u))
      BY <2>4
    <3> HIDE DEF it, V, w, C
    <3> QED BY <2>2, <3>2, <3>3, <3>4
  <2> QED BY <2>3, <2>4
<1>7. \A u \in SUBSET T : u # {} => it[u] = Removed(it[u \ {C(u)}], C(u))
  <2> SUFFICES ASSUME NEW u \in SUBSET T, u # {}
               PROVE  it[u] = Removed(it[u \ {C(u)}], C(u))
    OBVIOUS
  <2>1. u \ {C(u)} \in SUBSET T /\ u \ {C(u)} # T
    BY <1>5
  <2>2. it[u] = Removed(V(u \ {C(u)}), C(u))
    OBVIOUS
  <2> HIDE DEF it, V, C
  <2> QED BY <2>1, <2>2, <1>6
<1>8. it = [u \in SUBSET T |-> IF u = {} THEN c ELSE Removed(it[u \ {C(u)}], C(u))]
  <2>1. it = [u \in SUBSET T |-> it[u]] /\ it[{}] = c
    OBVIOUS
  <2> HIDE DEF it, C
  <2> QED BY <2>1, <1>7
<1>9. Prunes(it, c, T)
  <2> HIDE DEF it
  <2> QED BY <1>8 DEF Prunes
<1> QED
  BY <1>2, <1>9

\* What prune leaves.
LEMMA PrunedListed ==
    ASSUME NEW c, NEW S, Listed(c, S), c.total = HeldSum(c), c.total <= MaxBytes,
           NEW stale \in SUBSET DOMAIN c.entries
    PROVE  LET r == FoldSet(LAMBDA key, d : Removed(d, key), c, stale)
           IN  /\ Listed(r, Without(S, stale)) /\ DOMAIN r.entries = DOMAIN c.entries \ stale
               /\ \A x \in DOMAIN r.entries : r.entries[x].bytes = c.entries[x].bytes
               /\ r.total = HeldSum(r) /\ r.total <= MaxBytes
<1> DEFINE D == DOMAIN c.entries
           it == CHOOSE iter : Prunes(iter, c, stale)
           r == FoldSet(LAMBDA key, d : Removed(d, key), c, stale)
<1>1. IsFiniteSet(D) /\ IsFiniteSet(stale) /\ S \in Seq(D) /\ ToSet(S) = D
  BY ListedSizes, FS_Subset DEF Listed, Chain
<1>2. Prunes(it, c, stale)
  BY <1>1, PrunesExists
<1>3. r = it[stale]
  BY DEF FoldSet, MapThenFoldSet, Prunes
<1> DEFINE Left(d, u) ==
             /\ Listed(d, Without(S, u)) /\ DOMAIN d.entries = D \ u
             /\ \A x \in DOMAIN d.entries : d.entries[x].bytes = c.entries[x].bytes
             /\ d.total = HeldSum(d) /\ d.total <= MaxBytes
           bad == {u \in SUBSET stale : ~Left(it[u], u)}
<1> HIDE DEF it, r
<1>4. bad = {}
  <2> SUFFICES ASSUME bad # {}
               PROVE  FALSE
    OBVIOUS
  <2>1. PICK u \in bad : \A v \in bad : v \subseteq u => v = u
    <3>1. bad \subseteq SUBSET stale
      OBVIOUS
    <3> HIDE DEF bad
    <3> QED BY <1>1, <3>1, LeastSet
  <2>2. u \in SUBSET stale /\ ~Left(it[u], u)
    OBVIOUS
  <2>3. u # {}
    <3> SUFFICES ASSUME u = {}
                 PROVE  Left(c, {}) /\ it[{}] = c
      BY <2>2
    <3>1. it[{}] = c
      BY <1>2 DEF Prunes
    <3>2. Without(S, {}) = S
      BY <1>1, WithoutNone
    <3> QED BY <3>1, <3>2
  <2> DEFINE x == CHOOSE y \in u : TRUE
             v == u \ {x}
  <2>4. x \in u
    BY <2>3
  <2> HIDE DEF x
  <2>5. it[u] = Removed(it[v], x)
    BY <1>2, <2>2, <2>3 DEF Prunes, x
  <2>6. v \in SUBSET stale /\ v # u /\ v \subseteq u /\ u = v \cup {x} /\ x \notin v
    BY <2>2, <2>4
  <2>7. Left(it[v], v)
    BY <2>1, <2>6
  <2> HIDE DEF bad, v
  <2> DEFINE d == it[v]
             e == it[u]
  <2>8. x \in DOMAIN d.entries
    BY <2>2, <2>4, <2>6, <2>7
  <2>9. /\ Listed(d, Without(S, v)) /\ DOMAIN d.entries = D \ v
        /\ \A y \in DOMAIN d.entries : d.entries[y].bytes = c.entries[y].bytes
        /\ d.total = HeldSum(d) /\ d.total <= MaxBytes
    BY <2>7
  <2>10. e = Removed(d, x)
    BY <2>5
  <2> HIDE DEF d, e
  <2>11. /\ Listed(e, Without(Without(S, v), {x})) /\ DOMAIN e.entries = DOMAIN d.entries \ {x}
         /\ \A y \in DOMAIN e.entries : e.entries[y].bytes = d.entries[y].bytes
         /\ e.total = SatSub(d.total, d.entries[x].bytes)
         /\ HeldSum(e) \in Nat /\ HeldSum(d) = d.entries[x].bytes + HeldSum(e)
    BY <2>8, <2>9, <2>10, RemovedListed
  <2>12. Without(Without(S, v), {x}) = Without(S, u)
    <3>1. Without(Without(S, v), {x}) = Without(S, v \cup {x})
      <4>1. \A X, y : Without(Without(S, X), {y}) = Without(S, X \cup {y})
        BY <1>1, WithoutTwice
      <4> QED BY ONLY <4>1
    <3> QED BY <2>6, <3>1
  <2>13. d.entries[x].bytes \in Nat /\ MaxBytes \in Nat
    BY <2>8, <2>9, ListedSizes, LruListAssumption
  <2>14. e.total = HeldSum(e) /\ e.total <= MaxBytes
    BY <2>9, <2>11, <2>13 DEF SatSub
  <2>15. DOMAIN e.entries = D \ u
    BY <2>6, <2>9, <2>11
  <2>16. \A y \in DOMAIN e.entries : e.entries[y].bytes = c.entries[y].bytes
    BY <2>9, <2>11
  <2>17. Left(e, u)
    BY <2>11, <2>12, <2>14, <2>15, <2>16
  <2> QED BY <2>2, <2>17 DEF e
<1>5. Left(it[stale], stale)
  BY <1>4
<1> QED BY <1>3, <1>5 DEF r

\* Between two calls: the links join the entries in one order, and the count is their sum.
ListInv ==
    \E S : Listed(Cache, S) /\ total = HeldSum(Cache) /\ total <= MaxBytes

\* The equation of the walk along the links.
Walks(g, N) ==
    g = [n \in 1 .. N |-> IF n = 1 THEN head
                          ELSE IF g[n - 1] \in Cached THEN entries[g[n - 1]].next ELSE None]

\* The walk is the order.
LEMMA WalkIs ==
    ASSUME NEW S, Listed(Cache, S)
    PROVE  Walk = S
<1> DEFINE N == Cardinality(Cached)
           g == CHOOSE h : Walks(h, N)
<1>1. /\ Cache.entries = entries /\ Cache.head = head
      /\ S \in Seq(Cached) /\ N = Len(S) /\ N \in Nat
      /\ \A n \in 1 .. N : S[n] \in Cached
  <2>1. Cache.entries = entries /\ Cache.head = head
    BY DEF Cache
  <2>2. S \in Seq(DOMAIN Cache.entries) /\ Cardinality(DOMAIN Cache.entries) = Len(S)
    BY ListedSizes DEF Listed, Chain
  <2> QED BY <2>1, <2>2 DEF Cached
<1>2. /\ head = (IF N = 0 THEN None ELSE S[1])
      /\ \A n \in 1 .. N : entries[S[n]].next = (IF n = N THEN None ELSE S[n + 1])
  BY <1>1 DEF Listed, Chain
<1> HIDE DEF N
<1>3. ASSUME NEW n \in 1 .. N
      PROVE  S[n] = IF n = 1 THEN head
                    ELSE IF S[n - 1] \in Cached THEN entries[S[n - 1]].next ELSE None
  <2>1. CASE n = 1
    BY <1>1, <1>2, <2>1
  <2>2. CASE n # 1
    <3>1. n - 1 \in 1 .. N /\ n - 1 # N /\ n - 1 + 1 = n
      BY <1>1, <2>2
    <3> QED BY <1>1, <1>2, <2>2, <3>1
  <2> QED BY <2>1, <2>2
<1>4. S = [n \in 1 .. N |-> S[n]]
  BY <1>1
<1>5. Walks(S, N)
  BY <1>3, <1>4 DEF Walks
<1>6. Walks(g, N)
  BY <1>5
<1>7. Walk = g
  BY DEF Walk, Walks, N
<1> HIDE DEF g
<1>8. ASSUME NEW n \in 1 .. N
      PROVE  g[n] = IF n = 1 THEN head
                    ELSE IF g[n - 1] \in Cached THEN entries[g[n - 1]].next ELSE None
  BY <1>6 DEF Walks
<1> DEFINE good == {n \in 0 .. N : n = 0 \/ g[n] = S[n]}
<1>9. 0 \in good
  BY <1>1
<1>10. ASSUME NEW n \in 1 .. N, n - 1 \in good
       PROVE  n \in good
  <2>1. n \in 0 .. N /\ (n # 1 => g[n - 1] = S[n - 1])
    BY <1>1, <1>10
  <2>2. g[n] = S[n]
    BY <1>3, <1>8, <2>1
  <2> QED BY <2>1, <2>2
<1> HIDE DEF good
<1>11. \A n \in 0 .. N : n \in good
  BY <1>1, <1>9, <1>10, UpTo
<1>12. \A n \in 1 .. N : g[n] = S[n]
  <2>1. \A n \in 1 .. N : n \in 0 .. N /\ n # 0
    BY <1>1
  <2> QED BY <1>11, <2>1 DEF good
<1>13. g = [n \in 1 .. N |-> g[n]]
  <2>1. DOMAIN g = 1 .. N
    BY <1>6 DEF Walks
  <2>2. g = [n \in DOMAIN g |-> g[n]]
    BY <1>6 DEF Walks
  <2> QED BY <2>1, <2>2
<1>14. g = S
  BY <1>4, <1>12, <1>13
<1> QED BY <1>7, <1>14

LEMMA ListInvTold ==
    ListInv => BytesCounted
<1> SUFFICES ASSUME NEW S, Listed(Cache, S), total = HeldSum(Cache), total <= MaxBytes
             PROVE  BytesCounted
  BY DEF ListInv
<1>1. /\ Cache.entries = entries /\ Cache.head = head /\ Cache.tail = tail /\ Cache.total = total
  BY DEF Cache
<1>2. /\ entries \in [Cached -> Node] /\ Cached \subseteq Keys
      /\ S \in Seq(Cached) /\ ToSet(S) = Cached /\ total \in Nat
      /\ head = (IF Len(S) = 0 THEN None ELSE S[1])
      /\ tail = (IF Len(S) = 0 THEN None ELSE S[Len(S)])
  BY <1>1 DEF Listed, Chain, Noded, Cached
<1>3. \A n \in 1 .. Len(S) : entries[S[n]].prev = (IF n = 1 THEN None ELSE S[n - 1])
  BY <1>1 DEF Listed, Chain
<1>4. Walk = S
  BY WalkIs
<1>5. DOMAIN S = 1 .. Len(S) /\ (S = <<>> <=> Len(S) = 0) /\ {S[n] : n \in DOMAIN S} = Cached
  <2>1. DOMAIN S = 1 .. Len(S) /\ (S = <<>> <=> Len(S) = 0)
    BY <1>2
  <2> QED BY <1>2, <2>1 DEF ToSet
<1>6. total \in 0 .. Top
  BY <1>2, LruListAssumption
<1>7. TypeOK
  BY <1>2, <1>3, <1>4, <1>5, <1>6 DEF TypeOK, Node
<1>8. total = Total([k \in Cached |-> entries[k].bytes], Cached)
  BY <1>1 DEF HeldSum, SizesOf, Cached
<1> QED BY <1>7, <1>8 DEF BytesCounted

\* An entry that is read becomes the newest.
LEMMA TouchedListed ==
    ASSUME NEW c, NEW S, Listed(c, S), NEW k \in DOMAIN c.entries
    PROVE  LET r == Touched(c, k)
           IN  /\ Listed(r, UsedLast(S, k)) /\ DOMAIN r.entries = DOMAIN c.entries
               /\ \A x \in DOMAIN r.entries : r.entries[x].bytes = c.entries[x].bytes
               /\ r.total = c.total /\ HeldSum(r) = HeldSum(c)
<1> DEFINE d == Detached(c, k)
           a == Attached(d, k)
           D == DOMAIN c.entries
           w == Without(S, {k})
           r == Touched(c, k)
<1>1. /\ Chain(c, S) /\ Noded(c) /\ S \in Seq(D) /\ Distinct(S) /\ ToSet(S) = D /\ c.total \in Nat
      /\ DOMAIN S = 1 .. Len(S) /\ Len(S) \in Nat
  BY DEF Listed, Chain
<1>2. PICK i \in 1 .. Len(S) : k = S[i]
  BY <1>1 DEF ToSet
<1>3. w \in Seq(D) /\ ToSet(w) = D \ {k} /\ Distinct(w)
  BY <1>1, WithoutProperties
<1>4. UsedLast(S, k) = Append(w, k)
  BY DEF UsedLast
<1>5. CASE c.tail = k
  <2>1. r = c
    BY <1>5 DEF Touched
  <2>2. i = Len(S)
    <3>1. Len(S) # 0 /\ c.tail = S[Len(S)] /\ Len(S) \in 1 .. Len(S)
      <4>1. c.tail = (IF Len(S) = 0 THEN None ELSE S[Len(S)])
        BY <1>1 DEF Chain
      <4>2. Len(S) # 0 /\ Len(S) \in 1 .. Len(S)
        BY <1>1, <1>2
      <4> QED BY <4>1, <4>2
    <3> QED BY <1>1, <1>2, <1>5, <3>1 DEF Distinct
  <2>3. Append(w, k) = S
    <3>1. /\ Len(w) = Len(S) - 1
          /\ \A m \in 1 .. Len(w) : w[m] = IF m < i THEN S[m] ELSE S[m + 1]
      BY <1>1, <1>2, WithoutOne
    <3> DEFINE v == Append(w, k)
    <3>2. /\ v \in Seq(D) /\ Len(v) = Len(w) + 1 /\ v[Len(w) + 1] = k
          /\ \A m \in 1 .. Len(w) : v[m] = w[m]
      BY <1>3, AppendProperties
    <3> HIDE DEF v, w
    <3>3. Len(v) = Len(S)
      BY <1>1, <3>1, <3>2
    <3>4. ASSUME NEW m \in 1 .. Len(S)
          PROVE  v[m] = S[m]
      <4>1. CASE m = Len(S)
        BY <1>1, <1>2, <2>2, <3>1, <3>2, <4>1
      <4>2. CASE m # Len(S)
        <5>1. m \in 1 .. Len(w) /\ m < i
          BY <1>1, <2>2, <3>1, <4>2
        <5> QED BY <3>1, <3>2, <5>1
      <4> QED BY <4>1, <4>2
    <3>5. v = S
      BY <1>1, <3>2, <3>3, <3>4
    <3> QED BY <3>5 DEF v
  <2> QED BY <1>4, <2>1, <2>3
<1>6. CASE c.tail # k
  <2>1. r = a
    BY <1>6 DEF Touched
  <2>2. /\ Chain(d, w) /\ Noded(d) /\ DOMAIN d.entries = D /\ d.total = c.total
        /\ \A x \in D : d.entries[x].bytes = c.entries[x].bytes
    <3>1. Chain(d, w)
      BY <1>1, <1>2, DetachedChain
    <3>2. /\ Noded(d) /\ DOMAIN d.entries = D /\ d.total = c.total
          /\ \A x \in D : d.entries[x].bytes = c.entries[x].bytes
      BY <1>1, DetachedNodes
    <3> QED BY <3>1, <3>2
  <2>3. d.tail \in (Keys \ {k}) \cup {None}
    <3>1. \A n \in 1 .. Len(w) : w[n] \in Keys /\ w[n] # k
      <4>1. DOMAIN w = 1 .. Len(w) /\ D \subseteq Keys
        BY <1>1, <1>3 DEF Noded
      <4> QED BY <1>3, <4>1 DEF ToSet
    <3>2. Len(w) \in Nat
      BY <1>3
    <3> HIDE DEF d, w
    <3> QED BY <2>2, <3>1, <3>2 DEF Chain
  <2>4. k \in DOMAIN d.entries /\ k \notin ToSet(w)
    BY <1>3, <2>2
  <2> HIDE DEF d, w
  <2>5. Chain(a, Append(w, k))
    BY <2>2, <2>4, AttachedChain
  <2>6. /\ DOMAIN a.entries = D /\ a.total = d.total
        /\ \A x \in D : a.entries[x].bytes = d.entries[x].bytes
    BY <2>2, <2>3, <2>4, AttachedNodes
  <2>7. ToSet(Append(w, k)) = D
    <3>1. ToSet(Append(w, k)) = ToSet(w) \cup {k}
      BY <1>3, AppendDistinct
    <3> QED BY <1>3, <3>1
  <2> HIDE DEF a
  <2>8. Listed(a, Append(w, k))
    BY <1>1, <2>2, <2>5, <2>6, <2>7 DEF Listed
  <2>9. SizesOf(a) = SizesOf(c)
    BY <2>2, <2>6 DEF SizesOf
  <2>10. HeldSum(a) = HeldSum(c)
    BY <2>6, <2>9 DEF HeldSum
  <2>11. \A x \in D : a.entries[x].bytes = c.entries[x].bytes
    BY <2>2, <2>6
  <2> HIDE DEF r
  <2> QED BY <1>4, <2>1, <2>2, <2>6, <2>8, <2>10, <2>11 DEF r
<1> QED BY <1>5, <1>6

LEMMA WalkAll ==
    \A S : Listed(Cache, S) => Walk = S
BY WalkIs

LEMMA WalkNext ==
    (\A S : Listed(Cache, S) => Walk = S)'
BY WalkAll, PTL

LEMMA CacheNext ==
    ASSUME NEW c, Noded(c), Becomes(c)
    PROVE  Cache' = c
BY DEF Noded, Becomes, Cache

\* The sizes of the entries, as the order of last use tells them.
Bytes == [k \in Cached |-> entries[k].bytes]

LEMMA InsertStep ==
    ASSUME NEW S, Listed(Cache, S), total = HeldSum(Cache), total <= MaxBytes,
           NEW key \in Keys, NEW b \in Sizes, InsertEntry(key, b)
    PROVE  \E n \in 0 .. Len(UsedLast(S, key)) :
             LET T == UsedLast(S, key)
                 Z == [k \in ToSet(T) |-> IF k = key THEN b ELSE Bytes[k]]
             IN  /\ Listed(Cache, Later(T, n))' /\ total' = HeldSum(Cache)' /\ total' <= MaxBytes
                 /\ Bytes' = [k \in ToSet(Later(T, n)) |-> Z[k]]
                 /\ Len(T) - n <= MaxEntries /\ Total(Z, ToSet(Later(T, n))) <= MaxBytes
                 /\ \A m \in 0 .. n - 1 :
                      ~(Len(T) - m <= MaxEntries /\ Total(Z, ToSet(Later(T, m))) <= MaxBytes)
<1> DEFINE c == Cache
           j == Attached(Put(c, key, b), key)
           T == UsedLast(S, key)
           r == Evicted(j)
           Z == [k \in ToSet(T) |-> IF k = key THEN b ELSE Bytes[k]]
<1>1. c.entries = entries /\ c.total = total
  BY DEF Cache
<1>2. Becomes(r)
  BY DEF InsertEntry
<1> HIDE DEF c
<1>3. Listed(c, S) /\ c.total = HeldSum(c) /\ c.total <= MaxBytes
  BY <1>1 DEF c
<1>4. /\ Listed(j, T) /\ DOMAIN j.entries = DOMAIN c.entries \cup {key}
      /\ \A x \in DOMAIN j.entries :
           j.entries[x].bytes = IF x = key THEN b ELSE c.entries[x].bytes
      /\ Counted(j, T)
  BY <1>3, InsertedListed
<1> HIDE DEF j, T
<1>5. PICK n \in 0 .. Len(T) :
             /\ Listed(r, Later(T, n)) /\ r.total = HeldSum(r) /\ r.total <= MaxBytes
             /\ DOMAIN r.entries \subseteq DOMAIN j.entries
             /\ \A x \in DOMAIN r.entries : r.entries[x].bytes = j.entries[x].bytes
             /\ FitsAfter(j, T, n) /\ \A m \in 0 .. n - 1 : ~FitsAfter(j, T, m)
  BY <1>4, EvictedListed
<1> HIDE DEF r
<1>6. Cache' = r
  BY <1>2, <1>5, CacheNext DEF Listed, Chain
<1>7. ToSet(T) = DOMAIN j.entries /\ ToSet(Later(T, n)) = DOMAIN r.entries
  BY <1>4, <1>5 DEF Listed
<1>8. Z = SizesOf(j)
  <2>1. \A x \in DOMAIN j.entries : (IF x = key THEN b ELSE Bytes[x]) = j.entries[x].bytes
    BY <1>1, <1>4 DEF Bytes, Cached
  <2> QED BY <1>7, <2>1 DEF SizesOf
<1>9. total' = r.total /\ entries' = r.entries
  BY <1>6 DEF Cache
<1>10. Listed(Cache, Later(T, n))' /\ total' = HeldSum(Cache)' /\ total' <= MaxBytes
  <2>1. Listed(Cache', Later(T, n)) /\ total' = HeldSum(Cache') /\ total' <= MaxBytes
    BY <1>5, <1>6, <1>9
  <2>2. T' = T
    BY DEF T
  <2> QED BY <2>1, <2>2 DEF Listed, Chain, Noded, Distinct, Node, HeldSum, SizesOf, Later
<1>11. Bytes' = [k \in ToSet(Later(T, n)) |-> Z[k]]
  <2>1. Bytes' = [k \in DOMAIN r.entries |-> r.entries[k].bytes]
    BY <1>9 DEF Bytes, Cached
  <2>2. \A k \in DOMAIN r.entries : r.entries[k].bytes = Z[k]
    BY <1>5, <1>8 DEF SizesOf
  <2> HIDE DEF Z
  <2> QED BY <1>7, <2>1, <2>2
<1> HIDE DEF Z
<1> QED BY <1>5, <1>8, <1>10, <1>11 DEF FitsAfter, T, Z

LEMMA ReadStep ==
    ASSUME NEW S, Listed(Cache, S), total = HeldSum(Cache), total <= MaxBytes,
           NEW key \in Keys, Read(key)
    PROVE  /\ Listed(Cache, UsedLast(S, key))' /\ total' = HeldSum(Cache)' /\ total' <= MaxBytes
           /\ Bytes' = Bytes
<1> DEFINE c == Cache
           r == Touched(c, key)
           T == UsedLast(S, key)
<1>1. c.entries = entries /\ c.total = total
  BY DEF Cache
<1>2. Becomes(r) /\ key \in DOMAIN c.entries
  BY <1>1 DEF Read, Cached
<1> HIDE DEF c
<1>3. Listed(c, S) /\ c.total = HeldSum(c) /\ c.total <= MaxBytes
  BY <1>1 DEF c
<1>4. /\ Listed(r, T) /\ DOMAIN r.entries = DOMAIN c.entries
      /\ \A x \in DOMAIN r.entries : r.entries[x].bytes = c.entries[x].bytes
      /\ r.total = c.total /\ HeldSum(r) = HeldSum(c)
  BY <1>2, <1>3, TouchedListed
<1> HIDE DEF r, T
<1>5. Cache' = r
  BY <1>2, <1>4, CacheNext DEF Listed, Chain
<1>6. total' = r.total /\ entries' = r.entries
  BY <1>5 DEF Cache
<1>7. Listed(Cache, T)' /\ total' = HeldSum(Cache)' /\ total' <= MaxBytes
  <2>1. Listed(Cache', T) /\ total' = HeldSum(Cache') /\ total' <= MaxBytes
    BY <1>3, <1>4, <1>5, <1>6
  <2>2. T' = T
    BY DEF T
  <2> QED BY <2>1, <2>2 DEF Listed, Chain, Noded, Distinct, Node, HeldSum, SizesOf
<1>8. Bytes' = Bytes
  BY <1>1, <1>4, <1>6 DEF Bytes, Cached
<1> QED BY <1>7, <1>8 DEF T

\* Forget and prune take entries out.
LEMMA DropStep ==
    ASSUME NEW S, Listed(Cache, S), total = HeldSum(Cache), total <= MaxBytes,
           \/ \E key \in Keys : Forget(key)
           \/ \E active \in SUBSET Keys : Prune(active)
    PROVE  \E keys \in SUBSET Keys :
             /\ Listed(Cache, Without(S, keys))' /\ total' = HeldSum(Cache)' /\ total' <= MaxBytes
             /\ Bytes' = [k \in Cached \ keys |-> Bytes[k]]
             /\ UNCHANGED used
<1> DEFINE c == Cache
<1>1. c.entries = entries /\ c.total = total
  BY DEF Cache
<1> HIDE DEF c
<1>2. Listed(c, S) /\ c.total = HeldSum(c) /\ c.total <= MaxBytes
  BY <1>1 DEF c
<1>3. S \in Seq(Cached) /\ ToSet(S) = Cached /\ Cached \subseteq Keys
  BY <1>1, <1>2 DEF Listed, Chain, Noded, Cached
<1>4. ASSUME NEW keys \in SUBSET Keys, NEW r, Becomes(r),
             Listed(r, Without(S, keys)), DOMAIN r.entries = DOMAIN c.entries \ keys,
             \A x \in DOMAIN r.entries : r.entries[x].bytes = c.entries[x].bytes,
             r.total = HeldSum(r), r.total <= MaxBytes
      PROVE  /\ Listed(Cache, Without(S, keys))' /\ total' = HeldSum(Cache)' /\ total' <= MaxBytes
             /\ Bytes' = [k \in Cached \ keys |-> Bytes[k]]
  <2> DEFINE T == Without(S, keys)
  <2>1. Cache' = r
    BY <1>4, CacheNext DEF Listed, Chain
  <2>2. total' = r.total /\ entries' = r.entries
    BY <2>1 DEF Cache
  <2>3. Listed(Cache', T) /\ total' = HeldSum(Cache') /\ total' <= MaxBytes
    BY <1>4, <2>1, <2>2
  <2>4. T' = T
    OBVIOUS
  <2> HIDE DEF T
  <2>5. Listed(Cache, T)' /\ total' = HeldSum(Cache)' /\ total' <= MaxBytes
    BY <2>3, <2>4 DEF Listed, Chain, Noded, Distinct, Node, HeldSum, SizesOf
  <2>6. Bytes' = [k \in Cached \ keys |-> Bytes[k]]
    <3>1. Bytes' = [k \in DOMAIN r.entries |-> r.entries[k].bytes]
      BY <2>2 DEF Bytes, Cached
    <3>2. DOMAIN r.entries = Cached \ keys
      BY <1>1, <1>4 DEF Cached
    <3>3. \A k \in DOMAIN r.entries : r.entries[k].bytes = Bytes[k]
      BY <1>1, <1>4, <3>2 DEF Bytes, Cached
    <3> QED BY <3>1, <3>2, <3>3
  <2> QED BY <2>5, <2>6 DEF T
<1>5. ASSUME NEW key \in Keys, Forget(key)
      PROVE  \E keys \in SUBSET Keys :
               /\ Listed(Cache, Without(S, keys))' /\ total' = HeldSum(Cache)' /\ total' <= MaxBytes
               /\ Bytes' = [k \in Cached \ keys |-> Bytes[k]]
               /\ UNCHANGED used
  <2> DEFINE r == Removed(c, key)
             keys == {key}
  <2>1. Becomes(r) /\ UNCHANGED used /\ keys \in SUBSET Keys
    BY <1>5 DEF Forget, c
  <2>2. /\ Listed(r, Without(S, keys)) /\ DOMAIN r.entries = DOMAIN c.entries \ keys
        /\ \A x \in DOMAIN r.entries : r.entries[x].bytes = c.entries[x].bytes
        /\ r.total = HeldSum(r) /\ r.total <= MaxBytes
    <3>1. CASE key \in DOMAIN c.entries
      <4>1. /\ Listed(r, Without(S, keys)) /\ DOMAIN r.entries = DOMAIN c.entries \ keys
            /\ \A x \in DOMAIN r.entries : r.entries[x].bytes = c.entries[x].bytes
            /\ r.total = SatSub(c.total, c.entries[key].bytes)
            /\ HeldSum(r) \in Nat /\ HeldSum(c) = c.entries[key].bytes + HeldSum(r)
        BY <1>2, <3>1, RemovedListed
      <4>2. c.entries[key].bytes \in Nat /\ MaxBytes \in Nat
        BY <1>2, <3>1, ListedSizes, LruListAssumption
      <4> HIDE DEF r, keys
      <4> QED BY <1>2, <4>1, <4>2 DEF SatSub
    <3>2. CASE key \notin DOMAIN c.entries
      <4>1. r = c
        BY <3>2 DEF Removed
      <4>2. Without(S, keys) = S
        BY <1>1, <1>3, <3>2, WithoutNone DEF Cached
      <4>3. DOMAIN c.entries = DOMAIN c.entries \ keys
        BY <3>2
      <4> HIDE DEF r, keys
      <4> QED BY <1>2, <4>1, <4>2, <4>3
    <3> QED BY <3>1, <3>2
  <2> HIDE DEF r, keys
  <2> QED BY <1>4, <2>1, <2>2
<1>6. ASSUME NEW active \in SUBSET Keys, Prune(active)
      PROVE  \E keys \in SUBSET Keys :
               /\ Listed(Cache, Without(S, keys))' /\ total' = HeldSum(Cache)' /\ total' <= MaxBytes
               /\ Bytes' = [k \in Cached \ keys |-> Bytes[k]]
               /\ UNCHANGED used
  <2> DEFINE keys == Cached \ active
             r == FoldSet(LAMBDA key, d : Removed(d, key), c, keys)
  <2>1. Becomes(r) /\ UNCHANGED used
    BY <1>6 DEF Prune, c
  <2>2. keys \in SUBSET DOMAIN c.entries /\ keys \in SUBSET Keys
    BY <1>1, <1>3 DEF Cached
  <2>3. /\ Listed(r, Without(S, keys)) /\ DOMAIN r.entries = DOMAIN c.entries \ keys
        /\ \A x \in DOMAIN r.entries : r.entries[x].bytes = c.entries[x].bytes
        /\ r.total = HeldSum(r) /\ r.total <= MaxBytes
    <3> HIDE DEF keys
    <3> QED BY <1>2, <2>2, PrunedListed
  <2> HIDE DEF r, keys
  <2> QED BY <1>4, <2>1, <2>2, <2>3
<1> QED BY <1>5, <1>6

LEMMA ListInit ==
    Init => ListInv /\ Promise!Init
<1> SUFFICES ASSUME Init
             PROVE  ListInv /\ Promise!Init
  OBVIOUS
<1> DEFINE S == <<>>
<1>1. entries = <<>> /\ head = None /\ tail = None /\ total = 0 /\ used = None
  BY DEF Init
<1>2. Cached = {} /\ entries = [x \in {} |-> x]
  BY <1>1 DEF Cached
<1>3. Cache.entries = entries /\ Cache.head = None /\ Cache.tail = None /\ Cache.total = 0
  BY <1>1 DEF Cache
<1>4. S \in Seq({}) /\ Len(S) = 0 /\ ToSet(S) = {} /\ Distinct(S)
  BY DEF ToSet, Distinct
<1>5. Noded(Cache)
  <2>1. Cache = [entries |-> Cache.entries, head |-> Cache.head, tail |-> Cache.tail, total |-> Cache.total]
    BY DEF Cache
  <2>2. DOMAIN Cache.entries = {} /\ Cache.entries \in [{} -> Node]
    BY <1>2, <1>3
  <2> QED BY <2>1, <2>2 DEF Noded
<1> HIDE DEF S
<1>6. Listed(Cache, S)
  <2>1. DOMAIN Cache.entries = {}
    BY <1>2, <1>3
  <2>2. 1 .. 0 = {}
    OBVIOUS
  <2>3. Chain(Cache, S)
    BY <1>3, <1>4, <1>5, <2>1, <2>2 DEF Chain
  <2> QED BY <1>3, <1>4, <2>1, <2>3 DEF Listed
<1>7. HeldSum(Cache) = 0
  BY <1>2, <1>3, TotalEmpty DEF HeldSum
<1>8. ListInv
  BY <1>1, <1>6, <1>7, LruListAssumption DEF ListInv
<1>9. Walk = <<>>
  BY <1>6, WalkIs DEF S
<1>10. [k \in Cached |-> entries[k].bytes] = <<>>
  BY <1>2
<1> QED BY <1>1, <1>8, <1>9, <1>10 DEF Promise!Init

LEMMA PromiseSame ==
    /\ \A s, X : Promise!Without(s, X) = Without(s, X)
    /\ \A s, k : Promise!UsedLast(s, k) = UsedLast(s, k)
    /\ \A f, X : Promise!Total(f, X) = Total(f, X)
    /\ \A s : Promise!ToSet(s) = ToSet(s)
BY DEF Promise!Without, Without, Promise!UsedLast, UsedLast, Promise!ToSet, ToSet,
       Promise!Total, Promise!MapThenSumSet, Promise!MapThenFoldSet,
       Total, MapThenSumSet, MapThenFoldSet

\* The tail that fits, and no longer one does, is the one that is kept.
LEMMA KeptIs ==
    ASSUME NEW K, NEW T \in Seq(K), NEW Z, NEW n \in 0 .. Len(T),
           Len(T) - n <= MaxEntries /\ Total(Z, ToSet(Later(T, n))) <= MaxBytes,
           \A m \in 0 .. n - 1 :
             ~(Len(T) - m <= MaxEntries /\ Total(Z, ToSet(Later(T, m))) <= MaxBytes)
    PROVE  Promise!Kept(T, Z) = Later(T, n)
<1> DEFINE fits(m) == Promise!Fits(SubSeq(T, m + 1, Len(T)), Z)
           first == CHOOSE m \in 0 .. Len(T) : fits(m) /\ \A l \in 0 .. m - 1 : ~fits(l)
<1>1. \A m \in 0 .. Len(T) :
        fits(m) <=> Len(T) - m <= MaxEntries /\ Total(Z, ToSet(Later(T, m))) <= MaxBytes
  <2> SUFFICES ASSUME NEW m \in 0 .. Len(T)
               PROVE  fits(m) <=> /\ Len(T) - m <= MaxEntries
                                  /\ Total(Z, ToSet(Later(T, m))) <= MaxBytes
    OBVIOUS
  <2>1. Len(Later(T, m)) = Len(T) - m
    BY LaterIs
  <2>2. fits(m) <=> /\ Len(Later(T, m)) <= MaxEntries
                    /\ Promise!Total(Z, Promise!ToSet(Later(T, m))) <= MaxBytes
    BY DEF Promise!Fits, Later
  <2> HIDE DEF fits
  <2> QED BY <2>1, <2>2, PromiseSame
<1>2. Promise!Kept(T, Z) = SubSeq(T, first + 1, Len(T))
  BY DEF Promise!Kept
<1> HIDE DEF fits
<1>3. Len(T) \in Nat
  OBVIOUS
<1>4. fits(n) /\ \A m \in 0 .. n - 1 : ~fits(m)
  <2>1. \A m \in 0 .. n - 1 : m \in 0 .. Len(T)
    BY <1>3
  <2> QED BY <1>1, <2>1
<1>5. first \in 0 .. Len(T) /\ fits(first) /\ \A m \in 0 .. first - 1 : ~fits(m)
  BY <1>4
<1> HIDE DEF first
<1>6. first = n
  <2>1. first < n \/ first = n \/ first > n
    BY <1>5
  <2>2. ~(first < n)
    BY <1>4, <1>5
  <2>3. ~(first > n)
    BY <1>4, <1>5
  <2> QED BY <2>1, <2>2, <2>3
<1> QED BY <1>2, <1>6 DEF Later

\* Every step is one of the order of last use.
LEMMA ListNext ==
    ASSUME ListInv, Next
    PROVE  ListInv' /\ Promise!Next
<1> PICK S : Listed(Cache, S) /\ total = HeldSum(Cache) /\ total <= MaxBytes
  BY DEF ListInv
<1>1. /\ S \in Seq(Cached) /\ ToSet(S) = Cached /\ Cached \subseteq Keys /\ Walk = S
  <2>1. Cache.entries = entries
    BY DEF Cache
  <2> QED BY <2>1, WalkIs DEF Listed, Chain, Noded, Cached
<1>2. ASSUME NEW key \in Keys, NEW b \in Sizes, InsertEntry(key, b)
      PROVE  ListInv' /\ Promise!Next
  <2> DEFINE T == UsedLast(S, key)
             Z == [k \in ToSet(T) |-> IF k = key THEN b ELSE Bytes[k]]
  <2>1. PICK n \in 0 .. Len(T) :
          /\ Listed(Cache, Later(T, n))' /\ total' = HeldSum(Cache)' /\ total' <= MaxBytes
          /\ Bytes' = [k \in ToSet(Later(T, n)) |-> Z[k]]
          /\ Len(T) - n <= MaxEntries /\ Total(Z, ToSet(Later(T, n))) <= MaxBytes
          /\ \A m \in 0 .. n - 1 :
               ~(Len(T) - m <= MaxEntries /\ Total(Z, ToSet(Later(T, m))) <= MaxBytes)
    BY <1>2, InsertStep
  <2>2. T \in Seq(Keys)
    <3>1. S \in Seq(Keys)
      <4>1. S \in [1 .. Len(S) -> Keys] /\ Len(S) \in Nat
        BY <1>1
      <4> QED BY <4>1, SeqDef
    <3> QED BY <3>1, UsedLastProperties
  <2>3. used' = key
    BY <1>2 DEF InsertEntry
  <2> HIDE DEF T, Z
  <2>4. Promise!Kept(T, Z) = Later(T, n)
    BY <2>1, <2>2, KeptIs
  <2>5. ListInv'
    BY <2>1 DEF ListInv
  <2>6. Walk' = Later(T, n)
    BY <2>1, WalkNext
  <2>7. Promise!Insert(key, b)
    <3>1. Promise!UsedLast(Walk, key) = T
      BY <1>1, PromiseSame DEF T
    <3>2. [k \in Promise!ToSet(T) |-> IF k = key THEN b ELSE [x \in Cached |-> entries[x].bytes][k]] = Z
      BY PromiseSame DEF Z, Bytes
    <3>3. [k \in Cached |-> entries[k].bytes]' = [k \in Promise!ToSet(Later(T, n)) |-> Z[k]]
      BY <2>1, PromiseSame DEF Bytes
    <3> QED BY <2>3, <2>4, <2>6, <3>1, <3>2, <3>3 DEF Promise!Insert
  <2>8. Promise!Next
    BY <2>7 DEF Promise!Next
  <2> QED BY <2>5, <2>8
<1>3. ASSUME NEW key \in Keys, Read(key)
      PROVE  ListInv' /\ Promise!Next
  <2> DEFINE T == UsedLast(S, key)
  <2>1. /\ Listed(Cache, T)' /\ total' = HeldSum(Cache)' /\ total' <= MaxBytes /\ Bytes' = Bytes
    BY <1>3, ReadStep
  <2>2. used' = key /\ key \in Cached
    BY <1>3 DEF Read
  <2> HIDE DEF T
  <2>3. ListInv' /\ Walk' = T
    BY <2>1, WalkNext DEF ListInv
  <2>4. Promise!Touch(key)
    <3>1. Promise!UsedLast(Walk, key) = T
      BY <1>1, PromiseSame DEF T
    <3>2. key \in Promise!Cached
      BY <1>1, <2>2, PromiseSame DEF Promise!Cached
    <3> QED BY <2>1, <2>2, <2>3, <3>1, <3>2 DEF Promise!Touch, Bytes
  <2> QED BY <2>3, <2>4 DEF Promise!Next
<1>4. ASSUME \/ \E key \in Keys : Forget(key)
             \/ \E active \in SUBSET Keys : Prune(active)
      PROVE  ListInv' /\ Promise!Next
  <2>1. PICK keys \in SUBSET Keys :
          /\ Listed(Cache, Without(S, keys))' /\ total' = HeldSum(Cache)' /\ total' <= MaxBytes
          /\ Bytes' = [k \in Cached \ keys |-> Bytes[k]]
          /\ UNCHANGED used
    BY <1>4, DropStep
  <2> DEFINE T == Without(S, keys)
  <2>2. ListInv' /\ Walk' = T
    BY <2>1, WalkNext DEF ListInv
  <2>3. Promise!Drop(keys)
    <3>1. Promise!Without(Walk, keys) = T
      BY <1>1, PromiseSame
    <3>2. Promise!Cached = Cached
      BY <1>1, PromiseSame DEF Promise!Cached
    <3> HIDE DEF T
    <3> QED BY <2>1, <2>2, <3>1, <3>2 DEF Promise!Drop, Promise!Restricted, Bytes
  <2> QED BY <2>2, <2>3 DEF Promise!Next
<1> QED BY <1>2, <1>3, <1>4 DEF Next

LEMMA ListStutters ==
    ASSUME ListInv, UNCHANGED vars
    PROVE  ListInv' /\ UNCHANGED Promise!vars
<1>1. Cache' = Cache /\ entries' = entries /\ total' = total /\ used' = used /\ head' = head
  BY DEF vars, Cache
<1>2. PICK S : Listed(Cache, S) /\ total = HeldSum(Cache) /\ total <= MaxBytes
  BY DEF ListInv
<1>3. Listed(Cache, S)' /\ total' = HeldSum(Cache)' /\ total' <= MaxBytes
  BY <1>1, <1>2 DEF Listed, Chain, Noded, Distinct, Node, HeldSum, SizesOf
<1>4. ListInv'
  BY <1>3 DEF ListInv
<1>5. Walk' = Walk
  BY <1>2, <1>3, WalkNext, WalkIs
<1> QED BY <1>1, <1>4, <1>5 DEF Promise!vars, Cached

LEMMA ListSteps ==
    ASSUME ListInv, [Look \/ Use]_<<lookup, vars>>
    PROVE  ListInv' /\ [Promise!Next]_(Promise!vars)
<1>1. CASE Use
  BY <1>1, ListNext DEF Use
<1>2. CASE Look
  BY <1>2, ListStutters DEF Look
<1>3. CASE UNCHANGED <<lookup, vars>>
  BY <1>3, ListStutters
<1> QED BY <1>1, <1>2, <1>3

\* The links of the memory cache join its entries, each once and in both directions, and
\* total_bytes is the sum of their sizes: through every insertion, replacement, eviction,
\* read and removal, and past an entry that counts usize::MAX, for any keys and limits.
THEOREM BytesAlwaysCounted == SpecAll => []BytesCounted
<1>1. InitAll => ListInv
  BY ListInit DEF InitAll
<1>2. ListInv /\ [Look \/ Use]_<<lookup, vars>> => ListInv'
  BY ListSteps
<1>3. ListInv => BytesCounted
  BY ListInvTold
<1> QED BY <1>1, <1>2, <1>3, PTL DEF SpecAll

\* The list keeps what the order of last use promises: every call of the memory cache is a
\* call on the order, the oldest entries leave first and no more of them than needed, however
\* far the saturated count is from the sum while they do.
THEOREM AlwaysInOrder == SpecAll => InOrder
<1>1. InitAll => ListInv /\ Promise!Init
  BY ListInit DEF InitAll
<1>2. ListInv /\ [Look \/ Use]_<<lookup, vars>> => ListInv' /\ [Promise!Next]_(Promise!vars)
  BY ListSteps
<1> QED BY <1>1, <1>2, PTL DEF SpecAll, InOrder, Promise!Spec

-----------------------------------------------------------------------------
(* The values of a card, and the documents of a configuration              *)

\* A sample differs from its base only in fields that vary.
LEMMA VariedIs ==
    ASSUME NEW base, NEW values, base = [f \in DOMAIN base |-> base[f]],
           NEW c \in Rules!Varied(base, values)
    PROVE  /\ DOMAIN c = DOMAIN base /\ c = [f \in DOMAIN base |-> c[f]]
           /\ \A f \in DOMAIN base :
                c[f] = base[f] \/ (f \in DOMAIN values /\ c[f] \in values[f])
<1>1. CASE c = base
  BY <1>1
<1>2. CASE c # base
  <2>1. PICK f \in DOMAIN values, g \in DOMAIN values :
           c \in {[base EXCEPT ![f] = v, ![g] = w] : v \in values[f], w \in values[g]}
    BY <1>2 DEF Rules!Varied
  <2>2. PICK v \in values[f], w \in values[g] : c = [base EXCEPT ![f] = v, ![g] = w]
    BY <2>1
  <2> QED BY <2>2
<1> QED BY <1>1, <1>2

LEMMA RuntimeValues ==
    ASSUME NEW r \in Rules!Varied(Rules!DefaultRuntime,
                       [workload |-> {"auto"} \cup Workloads, inactive |-> Behaviors,
                        inactiveInterval |-> {None, 0, 1, 60}, minimum |-> {None, 0, 90}])
    PROVE  r \in RuntimeTables
<1> DEFINE base == Rules!DefaultRuntime
           values == [workload |-> {"auto"} \cup Workloads, inactive |-> Behaviors,
                      inactiveInterval |-> {None, 0, 1, 60}, minimum |-> {None, 0, 90}]
           Fields == {"workload", "inactive", "idle", "inactiveInterval", "idleInterval", "minimum"}
<1>1. /\ DOMAIN base = Fields /\ base = [f \in DOMAIN base |-> base[f]]
      /\ base.workload = "auto" /\ base.inactive = "inherit" /\ base.idle = "inherit"
      /\ base.inactiveInterval = None /\ base.idleInterval = None /\ base.minimum = None
  BY DEF Rules!DefaultRuntime
<1>2. /\ DOMAIN values = {"workload", "inactive", "inactiveInterval", "minimum"}
      /\ values["workload"] = {"auto"} \cup Workloads /\ values["inactive"] = Behaviors
      /\ values["inactiveInterval"] = {None, 0, 1, 60} /\ values["minimum"] = {None, 0, 90}
  OBVIOUS
<1> HIDE DEF base, values
<1>3. /\ DOMAIN r = DOMAIN base /\ r = [f \in DOMAIN base |-> r[f]]
      /\ \A f \in DOMAIN base : r[f] = base[f] \/ (f \in DOMAIN values /\ r[f] \in values[f])
  <2>1. r \in Rules!Varied(base, values)
    BY DEF base, values
  <2> QED BY <1>1, <2>1, VariedIs
<1>4. "inherit" \in Behaviors
  BY DEF Behaviors
<1>5. /\ r["workload"] \in {"auto"} \cup Workloads /\ r["inactive"] \in Behaviors
      /\ r["idle"] \in Behaviors
  BY <1>1, <1>2, <1>3, <1>4
<1>6. /\ r["inactiveInterval"] \in Int \cup {None} /\ r["idleInterval"] \in Int \cup {None}
      /\ r["minimum"] \in Int \cup {None}
  BY <1>1, <1>2, <1>3
<1>7. r = [workload |-> r["workload"], inactive |-> r["inactive"], idle |-> r["idle"],
           inactiveInterval |-> r["inactiveInterval"], idleInterval |-> r["idleInterval"],
           minimum |-> r["minimum"]]
  BY <1>1, <1>3
<1> QED BY <1>5, <1>6, <1>7 DEF RuntimeTables

LEMMA CardsSaveable ==
    ASSUME NEW card \in Rules!CardSamples
    PROVE  Saveable(card)
<1> DEFINE base == Rules!Card
           values == Rules!CardValues
<1>0. base = [f \in DOMAIN base |-> base[f]]
  BY DEF Rules!Card
<1>1. /\ {"order", "renderer", "enabled", "refresh", "timeout", "cacheTtl", "runtime"} \subseteq DOMAIN base
      /\ base["order"] = 0 /\ base["renderer"] = "value" /\ base["enabled"] = TRUE
      /\ base["refresh"] = 30 /\ base["timeout"] = 10 /\ base["cacheTtl"] = None
      /\ base["runtime"] = Rules!DefaultRuntime
  BY DEF Rules!Card
<1> DEFINE runtimes == [workload |-> {"auto"} \cup Workloads, inactive |-> Behaviors,
                        inactiveInterval |-> {None, 0, 1, 60}, minimum |-> {None, 0, 90}]
<1>2. /\ values["order"] = {-1, 0} /\ values["renderer"] = {"value", "chart"}
      /\ values["refresh"] = Rules!Times /\ values["timeout"] = Rules!Times
      /\ values["cacheTtl"] = {None} \cup Rules!Times
  BY DEF Rules!CardValues
<1>9. values["enabled"] = BOOLEAN
  BY DEF Rules!CardValues
<1>10. values["runtime"] = Rules!Varied(Rules!DefaultRuntime, runtimes)
  BY DEF Rules!CardValues, Rules!Workloads, Workloads, Rules!Behaviors, Behaviors
<1> HIDE DEF runtimes
<1>3. \A f \in DOMAIN base : card[f] = base[f] \/ card[f] \in values[f]
  <2>1. card \in Rules!Varied(base, values)
    BY DEF Rules!CardSamples
  <2> HIDE DEF base, values
  <2> QED BY <1>0, <2>1, VariedIs
<1> HIDE DEF base, values
<1>4. Rules!Times \subseteq Times /\ {30, 10} \subseteq Times
  <2>1. Rules!MaxDurationSeconds = 2592000
    BY DEF Rules!MaxDurationSeconds
  <2>2. Word \in Nat /\ Word > 2592000
    BY <2>1, DocumentsAssumption
  <2>3. Rules!Times = {0, 1, 59, 60, 90, 3599, 3600, 7200, 86400, 90000, 2592000, 2592001}
    BY <2>1 DEF Rules!Times
  <2> QED BY <2>2, <2>3 DEF Times
<1>5. Rules!DefaultRuntime \in RuntimeTables
  BY DEF Rules!DefaultRuntime, RuntimeTables, Behaviors
<1>6. card["order"] \in Int /\ card["enabled"] \in BOOLEAN /\ card["renderer"] # None
  <2>1. card["order"] \in Int
    BY <1>1, <1>2, <1>3
  <2>2. card["renderer"] \in {"value", "chart"}
    BY <1>1, <1>2, <1>3
  <2>3. card["enabled"] \in BOOLEAN
    BY <1>1, <1>9, <1>3
  <2> QED BY <2>1, <2>2, <2>3, NoneApart
<1>7. card["refresh"] \in Times /\ card["timeout"] \in Times /\ card["cacheTtl"] \in Times \cup {None}
  BY <1>1, <1>2, <1>3, <1>4
<1>8. card["runtime"] \in RuntimeTables
  BY <1>1, <1>3, <1>5, <1>10, RuntimeValues DEF runtimes
<1> QED BY <1>6, <1>7, <1>8 DEF Saveable

LEMMA ShelfIs ==
    /\ Book(Shelf)!Modules = {"70", "90"} /\ Book(Shelf)!Wellformed
    /\ Shelf.absent = None /\ Shelf.noSection = None /\ Shelf.failed = None
    /\ Shelf.settings = [level : 1 .. 3, watch : BOOLEAN]
    /\ Shelf.entries = [id : {"monitor", "sys", "new"}, enabled : BOOLEAN]
    /\ Shelf.rejected = [level : {3}, watch : BOOLEAN]
<1>1. Shelf.names = <<"70", "90">>
  BY DEF Shelf
<1>2. ToSet(<<"70", "90">>) = {"70", "90"}
  <2>1. DOMAIN <<"70", "90">> = 1 .. 2
    OBVIOUS
  <2>2. ToSet(<<"70", "90">>) = {<<"70", "90">>[1], <<"70", "90">>[2]}
    BY <2>1 DEF ToSet
  <2> QED BY <2>2
<1>3. Book(Shelf)!Modules = {"70", "90"}
  BY <1>1, <1>2, BookBasics
<1> QED BY <1>3, DocumentsAssumption DEF Shelf

LEMMA ShelfParts ==
    {[level |-> 2], [level |-> 1, watch |-> FALSE]} \subseteq Book(Shelf)!Parts
<1>1. ASSUME NEW s \in Shelf.settings, NEW fields \in SUBSET DOMAIN s
      PROVE  [f \in fields |-> s[f]] \in Book(Shelf)!Parts
  <2>1. Book(Shelf)!Restrict(s, fields) = [f \in fields |-> s[f]]
    BY DEF Book!Restrict
  <2>2. Book(Shelf)!Restrict(s, fields) \in {Book(Shelf)!Restrict(s, some) : some \in SUBSET DOMAIN s}
    OBVIOUS
  <2> QED BY <2>1, <2>2 DEF Book!Parts
<1>2. [level |-> 2] \in Book(Shelf)!Parts
  <2> DEFINE s == [level |-> 2, watch |-> TRUE]
  <2>1. s \in Shelf.settings /\ {"level"} \in SUBSET DOMAIN s
    BY ShelfIs
  <2>2. [f \in {"level"} |-> s[f]] = [level |-> 2]
    OBVIOUS
  <2> QED BY <1>1, <2>1, <2>2
<1>3. [level |-> 1, watch |-> FALSE] \in Book(Shelf)!Parts
  <2> DEFINE s == [level |-> 1, watch |-> FALSE]
  <2>1. s \in Shelf.settings /\ DOMAIN s \in SUBSET DOMAIN s
    BY ShelfIs
  <2>2. [f \in DOMAIN s |-> s[f]] = s
    OBVIOUS
  <2> QED BY <1>1, <2>1, <2>2
<1> QED BY <1>2, <1>3

\* The inputs of the table are documents.
LEMMA ShelfDocuments ==
    ASSUME NEW root \in Roots, NEW modules \in [{"70", "90"} -> ModuleDocs]
    PROVE  /\ Documented(Shelf, root, modules)
           /\ modules \in [Book(Shelf)!Modules -> Book(Shelf)!ModuleDocs \cup {Shelf.absent}]
<1> DEFINE E == [id : {"monitor", "sys", "new"}, enabled : BOOLEAN]
<1>1. \A id \in {"monitor", "sys", "new"} : Entry(id) \subseteq E
  BY DEF Entry
<1>2. \A a \in E : <<a>> \in Seq(E)
  OBVIOUS
<1>3. \A a, b \in E : <<a, b>> \in Seq(E)
  OBVIOUS
<1>4. root \in Book(Shelf)!RootDocs
  <2>1. root.settings \in Shelf.settings
    <3> DEFINE r == root.settings
    <3>1. r \in RootSettings
      BY DEF Roots
    <3> HIDE DEF r
    <3>2. r = [level |-> r.level, watch |-> r.watch] /\ r.level \in 1 .. 3
      BY <3>1 DEF RootSettings
    <3>3. r.watch \in BOOLEAN
      BY <3>1 DEF RootSettings
    <3>4. r \in [level : 1 .. 3, watch : BOOLEAN]
      BY <3>2, <3>3
    <3> QED BY <3>4, ShelfIs DEF r
  <2>2. root.entries \in Seq(E)
    <3>1. \/ root.entries = <<>>
          \/ \E m \in Entry("monitor") : root.entries = <<m>>
          \/ \E m \in Entry("monitor"), c \in Entry("sys") : root.entries = <<m, c>>
      BY DEF Roots
    <3>2. <<>> \in Seq(E)
      OBVIOUS
    <3> HIDE DEF E
    <3> QED BY <1>1, <1>2, <1>3, <3>1, <3>2
  <2>3. root = [settings |-> root.settings, entries |-> root.entries]
    BY DEF Roots
  <2> QED BY <2>1, <2>2, <2>3, ShelfIs DEF Book!RootDocs
<1>5. ASSUME NEW d \in ModuleDocs
      PROVE  d \in Book(Shelf)!ModuleDocs \cup {Shelf.absent}
  <2>1. CASE d = None
    BY <2>1, ShelfIs
  <2>2. CASE d # None
    <3>1. /\ d.settings \in {None, [level |-> 2], [level |-> 1, watch |-> FALSE]}
          /\ d.replaces \in BOOLEAN
          /\ d = [settings |-> d.settings, entries |-> d.entries, replaces |-> d.replaces]
      BY <2>2 DEF ModuleDocs
    <3>2. \/ d.entries = <<>>
          \/ d.entries = <<[id |-> "new", enabled |-> TRUE], [id |-> "sys", enabled |-> TRUE]>>
          \/ \E c \in Entry("sys") : d.entries = <<c>>
      BY <2>2 DEF ModuleDocs
    <3>3. d.entries \in Seq(E)
      <4>1. [id |-> "new", enabled |-> TRUE] \in E /\ [id |-> "sys", enabled |-> TRUE] \in E
        OBVIOUS
      <4>2. <<>> \in Seq(E)
        OBVIOUS
      <4> HIDE DEF E
      <4> QED BY <1>1, <1>2, <1>3, <3>2, <4>1, <4>2
    <3>4. d.settings \in Book(Shelf)!Parts \cup {Shelf.noSection}
      BY <3>1, ShelfParts, ShelfIs
    <3>5. d.entries \in Seq(Shelf.entries)
      BY <3>3, ShelfIs
    <3> QED BY <3>1, <3>4, <3>5 DEF Book!ModuleDocs
  <2> QED BY <2>1, <2>2
<1>6. modules \in [Book(Shelf)!Modules -> Book(Shelf)!ModuleDocs \cup {Shelf.absent}]
  BY <1>5, ShelfIs
<1> QED BY <1>4, <1>6 DEF Documented

LEMMA FlippedEntries ==
    ASSUME NEW E, \A e \in E : Flipped(e) \in E /\ Flipped(e).id = e.id, NEW s \in Seq(E), NEW id,
           NEW t, t = [n \in DOMAIN s |-> IF s[n].id = id THEN Flipped(s[n]) ELSE s[n]],
           Book(Shelf)!Distinct(s)
    PROVE  /\ t \in Seq(E) /\ Book(Shelf)!Distinct(t)
           /\ Book(Shelf)!Ids(s) \subseteq Book(Shelf)!Ids(t)
<1>1. DOMAIN s = 1 .. Len(s) /\ Len(s) \in Nat /\ t = [n \in 1 .. Len(s) |-> t[n]]
      /\ DOMAIN t = DOMAIN s
  OBVIOUS
<1>2. ASSUME NEW n \in DOMAIN s
      PROVE  t[n] \in E /\ t[n].id = s[n].id
  <2>1. s[n] \in E
    OBVIOUS
  <2> QED BY <2>1
<1>3. t \in Seq(E)
  <2>1. t \in [1 .. Len(s) -> E]
    BY <1>1, <1>2
  <2> QED BY <1>1, <2>1
<1>4. Book(Shelf)!Distinct(t)
  BY <1>1, <1>2 DEF Book!Distinct
<1>5. ASSUME NEW known \in Book(Shelf)!Ids(s)
      PROVE  known \in Book(Shelf)!Ids(t)
  <2>1. PICK e \in ToSet(s) : e.id = known
    BY EntryOfIs
  <2>2. PICK n \in DOMAIN s : e = s[n]
    BY <2>1 DEF ToSet
  <2>3. t[n] \in ToSet(t) /\ t[n].id = known
    BY <1>1, <1>2, <2>1, <2>2 DEF ToSet
  <2> QED BY <2>3, EntryOfIs
<1> QED BY <1>3, <1>4, <1>5

LEMMA AppendedEntries ==
    ASSUME NEW E, NEW s \in Seq(E), NEW e \in E, Book(Shelf)!Distinct(s),
           e.id \notin Book(Shelf)!Ids(s)
    PROVE  /\ Append(s, e) \in Seq(E) /\ Book(Shelf)!Distinct(Append(s, e))
           /\ Book(Shelf)!Ids(s) \subseteq Book(Shelf)!Ids(Append(s, e))
<1>1. Append(s, e) = s \o <<e>>
  OBVIOUS
<1>2. <<e>> \in Seq(E) /\ ToSet(<<e>>) = {e} /\ Book(Shelf)!Distinct(<<e>>)
  BY OneEntry
<1>3. Book(Shelf)!Ids(s) \cap Book(Shelf)!Ids(<<e>>) = {}
  <2> SUFFICES ASSUME NEW id \in Book(Shelf)!Ids(s), id \in Book(Shelf)!Ids(<<e>>)
               PROVE  FALSE
    OBVIOUS
  <2>1. Book(Shelf)!EntryOf(<<e>>, id) \in ToSet(<<e>>) /\ Book(Shelf)!EntryOf(<<e>>, id).id = id
    BY EntryOfIs
  <2> QED BY <1>2, <2>1
<1> DEFINE t == s \o <<e>>
<1>4. t \in Seq(E) /\ ToSet(t) = ToSet(s) \cup ToSet(<<e>>) /\ Book(Shelf)!Distinct(t)
  BY <1>2, <1>3, Joined
<1> HIDE DEF t
<1>5. Book(Shelf)!Ids(s) \subseteq Book(Shelf)!Ids(t)
  <2> SUFFICES ASSUME NEW id \in Book(Shelf)!Ids(s)
               PROVE  id \in Book(Shelf)!Ids(t)
    OBVIOUS
  <2>1. Book(Shelf)!EntryOf(s, id) \in ToSet(s) /\ Book(Shelf)!EntryOf(s, id).id = id
    BY EntryOfIs
  <2>2. Book(Shelf)!EntryOf(s, id) \in ToSet(t)
    BY <1>4, <2>1
  <2> QED BY <2>1, <2>2, EntryOfIs
<1> QED BY <1>1, <1>4, <1>5 DEF t

\* What is left of a change: a configuration of the same ids, or of one more.
LEMMA ChangedIs ==
    ASSUME NEW config \in Book(Shelf)!RootDocs, Book(Shelf)!Distinct(config.entries),
           Book(Shelf)!Valid(config), NEW change \in Changes
    PROVE  LET next == Changed(config, change)
           IN  /\ next \in Book(Shelf)!RootDocs /\ Book(Shelf)!Distinct(next.entries)
               /\ Book(Shelf)!Ids(config.entries) \subseteq Book(Shelf)!Ids(next.entries)
<1> DEFINE next == Changed(config, change)
           s == config.settings
           had == config.entries
           E == [id : {"monitor", "sys", "new"}, enabled : BOOLEAN]
<1> SUFFICES /\ next \in Book(Shelf)!RootDocs /\ Book(Shelf)!Distinct(next.entries)
             /\ Book(Shelf)!Ids(had) \subseteq Book(Shelf)!Ids(next.entries)
  OBVIOUS
<1>1. /\ config = [settings |-> s, entries |-> had]
      /\ s \in [level : 1 .. 3, watch : BOOLEAN] /\ had \in Seq(E)
  BY ShelfIs DEF Book!RootDocs
<1>2. s.level \in 1 .. 2 /\ s.watch \in BOOLEAN
  <2>1. s \notin [level : {3}, watch : BOOLEAN]
    BY ShelfIs DEF Book!Valid
  <2>2. s = [level |-> s.level, watch |-> s.watch]
    BY <1>1
  <2> QED BY <1>1, <2>1, <2>2
<1>3. CASE change = "level"
  <2>1. next = [config EXCEPT !.settings.level = @ + 1]
    BY <1>3 DEF Changed
  <2>2. next.entries = had /\ next.settings = [s EXCEPT !.level = @ + 1]
        /\ next = [settings |-> next.settings, entries |-> next.entries]
    BY <1>1, <2>1
  <2>3. next.settings \in [level : 1 .. 3, watch : BOOLEAN]
    BY <1>1, <1>2, <2>2
  <2> HIDE DEF next
  <2> QED BY <1>1, <2>2, <2>3, ShelfIs DEF Book!RootDocs
<1>4. CASE change = "watch"
  <2>1. next = [config EXCEPT !.settings.watch = ~@]
    BY <1>4 DEF Changed
  <2>2. next.entries = had /\ next.settings = [s EXCEPT !.watch = ~@]
        /\ next = [settings |-> next.settings, entries |-> next.entries]
    BY <1>1, <2>1
  <2>3. next.settings \in [level : 1 .. 3, watch : BOOLEAN]
    BY <1>1, <1>2, <2>2
  <2> HIDE DEF next
  <2> QED BY <1>1, <2>2, <2>3, ShelfIs DEF Book!RootDocs
<1>5. ASSUME NEW t \in Seq(E), Book(Shelf)!Distinct(t), next = [config EXCEPT !.entries = t],
             Book(Shelf)!Ids(had) \subseteq Book(Shelf)!Ids(t)
      PROVE  /\ next \in Book(Shelf)!RootDocs /\ Book(Shelf)!Distinct(next.entries)
             /\ Book(Shelf)!Ids(had) \subseteq Book(Shelf)!Ids(next.entries)
  <2>1. next.entries = t /\ next.settings = s /\ next = [settings |-> s, entries |-> t]
    BY <1>1, <1>5
  <2> HIDE DEF next
  <2> QED BY <1>1, <1>5, <2>1, ShelfIs DEF Book!RootDocs
<1>6. CASE change \in {"monitor", "sys", "new"} /\ change \in Book(Shelf)!Ids(had)
  <2> DEFINE t == [n \in DOMAIN had |-> IF had[n].id = change THEN Flipped(had[n]) ELSE had[n]]
  <2>1. next = [config EXCEPT !.entries = t]
    BY <1>6 DEF Changed
  <2>2. \A e \in E : Flipped(e) \in E /\ Flipped(e).id = e.id
    BY DEF Flipped
  <2>4. t = [n \in DOMAIN had |-> IF had[n].id = change THEN Flipped(had[n]) ELSE had[n]]
    OBVIOUS
  <2>5. Book(Shelf)!Distinct(had)
    OBVIOUS
  <2> HIDE DEF E, t, had
  <2>3. t \in Seq(E) /\ Book(Shelf)!Distinct(t) /\ Book(Shelf)!Ids(had) \subseteq Book(Shelf)!Ids(t)
    BY <1>1, <2>2, <2>4, <2>5, FlippedEntries
  <2> HIDE DEF next
  <2> QED BY <1>5, <2>1, <2>3
<1>7. CASE change \in {"monitor", "sys", "new"} /\ change \notin Book(Shelf)!Ids(had)
  <2> DEFINE e == [id |-> change, enabled |-> TRUE]
  <2>1. next = [config EXCEPT !.entries = Append(@, e)]
    BY <1>7 DEF Changed
  <2>2. e \in E /\ e.id \notin Book(Shelf)!Ids(had)
    BY <1>7
  <2> HIDE DEF e, E
  <2>3. /\ Append(had, e) \in Seq(E) /\ Book(Shelf)!Distinct(Append(had, e))
        /\ Book(Shelf)!Ids(had) \subseteq Book(Shelf)!Ids(Append(had, e))
    BY <1>1, <2>2, AppendedEntries
  <2> HIDE DEF next
  <2>4. next = [config EXCEPT !.entries = Append(had, e)]
    BY <2>1
  <2> QED BY <1>5, <2>3, <2>4
<1> QED BY <1>3, <1>4, <1>6, <1>7 DEF Changes

\* What is saved is what is loaded again, and no more than it has to be is written: every
\* card of the table through its text, and every change of every configuration of the table
\* through the documents it is merged from (ConfigManager::save, upsert_module_card).
THEOREM DocumentsAlwaysKeep == SpecAll => []DocumentsKeepValues
<1> DEFINE Inv == /\ table = "card" => input \in Rules!CardSamples
                  /\ table = "documents" => input \in Documents
<1>1. InitAll => Inv
  BY DEF InitAll
<1>2. Inv /\ [Look \/ Use]_<<lookup, vars>> => Inv'
  BY DEF Look, Use, lookup, Inv
<1>3. Inv => DocumentsKeepValues
  <2>1. \A card \in Rules!CardSamples : Rules!ReadsBack(card)
    BY CardsSaveable, CardsReadBack
  <2>2. ASSUME NEW root \in Roots, NEW modules \in [{"70", "90"} -> ModuleDocs],
               NEW change \in Changes, Book(Shelf)!Merge(root, modules) # None
        PROVE  LET config == Changed(Book(Shelf)!Merge(root, modules), change)
               IN  /\ Book(Shelf)!SaveReloads(root, modules, config)
                   /\ Book(Shelf)!SaveIsLocal(root, modules, config)
                   /\ Book(Shelf)!AddTakesEffect(root, modules, "70", [id |-> "new", enabled |-> FALSE])
    <3> DEFINE old == Book(Shelf)!Merge(root, modules)
               config == Changed(old, change)
               N == Len(Shelf.names)
    <3>1. /\ Documented(Shelf, root, modules)
          /\ modules \in [Book(Shelf)!Modules -> Book(Shelf)!ModuleDocs \cup {Shelf.absent}]
      BY ShelfDocuments
    <3>2. Book(Shelf)!Wellformed /\ old # Shelf.failed
      BY <2>2, ShelfIs
    <3> HIDE DEF old
    <3>3. /\ SoundUpTo(Shelf, root, modules, N) /\ Book(Shelf)!Valid(old)
          /\ Layer(Shelf, old, root, modules, N)
      BY <3>1, <3>2, MergedLayer DEF old
    <3>4. /\ config \in Book(Shelf)!RootDocs /\ Book(Shelf)!Distinct(config.entries)
          /\ Book(Shelf)!Ids(old.entries) \subseteq Book(Shelf)!Ids(config.entries)
      BY <3>3, ChangedIs DEF Layer
    <3> HIDE DEF config
    <3>5. MayBeSaved(Shelf, root, modules, config)
      BY <3>1, <3>2, <3>3, <3>4 DEF MayBeSaved, Layer, old
    <3>6. /\ Book(Shelf)!SaveReloads(root, modules, config)
          /\ Book(Shelf)!SaveIsLocal(root, modules, config)
      BY <3>2, <3>5, EverySaveReloads, EverySaveIsLocal
    <3>7. Book(Shelf)!AddTakesEffect(root, modules, "70", [id |-> "new", enabled |-> FALSE])
      <4>1. "70" \in Book(Shelf)!Modules
        BY ShelfIs
      <4>2. modules["70"] # Shelf.absent => Book(Shelf)!Distinct(modules["70"].entries)
        <5>1. PICK n \in 1 .. N : Shelf.names[n] = "70"
          BY <3>2, <4>1, NamesAre
        <5> QED BY <3>3, <5>1 DEF SoundUpTo, Admitted, EntriesAt
      <4>3. [id |-> "new", enabled |-> FALSE] \in Shelf.entries
        BY ShelfIs
      <4> QED BY <3>1, <3>2, <4>1, <4>2, <4>3, EveryCardIsAdded
    <3> QED BY <3>6, <3>7 DEF config, old
  <2>3. ASSUME table = "documents", input \in Documents
        PROVE  LET config == Book(Shelf)!Merge(input.root, input.modules)
               IN  config # None =>
                     /\ Book(Shelf)!SaveReloads(input.root, input.modules, Changed(config, input.change))
                     /\ Book(Shelf)!SaveIsLocal(input.root, input.modules, Changed(config, input.change))
                     /\ Book(Shelf)!AddTakesEffect(input.root, input.modules, "70",
                                                   [id |-> "new", enabled |-> FALSE])
    <3>1. /\ input.root \in Roots /\ input.modules \in [{"70", "90"} -> ModuleDocs]
          /\ input.change \in Changes
      BY <2>3 DEF Documents
    <3> QED BY <2>2, <3>1
  <2> QED BY <2>1, <2>3 DEF DocumentsKeepValues, Of
<1> QED BY <1>1, <1>2, <1>3, PTL DEF SpecAll

=============================================================================
