----------------------------- MODULE PowerSupply -----------------------------
(***************************************************************************)
(* The samplers of power and temperature (core/power_supply.rs) and the    *)
(* battery source they share with the cards (sources/battery.rs).  Edges   *)
(* of sysfs and UPower are debounced and may be lost, and then a fallback  *)
(* samples.  A value is the number of changes of the supply when it was    *)
(* read.  A sample is one step: it runs on the main loop, and the source   *)
(* is behind its mutex.                                                    *)
(***************************************************************************)
EXTENDS Integers

CONSTANTS
    Debounce, Ttl,              \* 100 ms, and the 500 ms of the source
    MinPeriod, MaxPeriod,       \* 15 s and 300 s
    MaxThermalPeriod,           \* 60 s
    Periods,                    \* what may be configured
    MaxChanges,                 \* bound: changes of the supply
    None

VARIABLES
    supply,             \* changes so far, and whether the battery can be read
    period,             \* power_sample_seconds, thermal_sample_seconds
    queued, fallback, warmth,      \* the three timers: what is left of each
    battery,            \* cached_snapshot with its age
    verdict, capacity, temperature,    \* what the runtime was told, by power_event too
    behind, awaited, cold     \* how long verdict, an edge and temperature wait for a sample

vars == <<supply, period, queued, fallback, warmth, battery, verdict, capacity, temperature,
          behind, awaited, cold>>

Clamp(n, low, high) == IF n < low THEN low ELSE IF n > high THEN high ELSE n

\* Nothing bounds what was configured.
power_fallback_configured == period

power_fallback_seconds   == Clamp(period, MinPeriod, MaxPeriod)
thermal_fallback_seconds == Clamp(period, MinPeriod, MaxThermalPeriod)

\* Both samplers run once at the start.
Init ==
    /\ supply = [changes |-> 0, readable |-> TRUE]
    /\ period \in Periods
    /\ queued = None /\ fallback = power_fallback_seconds /\ warmth = thermal_fallback_seconds
    /\ battery = [value |-> 0, age |-> 0]
    /\ verdict = 0 /\ capacity = 0 /\ temperature = 0
    /\ behind = 0 /\ awaited = None /\ cold = 0

-----------------------------------------------------------------------------
(* BatterySource *)

Cached == battery # None /\ battery.age < Ttl

\* None is an error: nothing is read, and what was cached has expired.
Snapshot ==
    IF Cached THEN battery.value ELSE IF supply.readable THEN supply.changes ELSE None

\* snapshot: what it leaves in the source
Refreshed ==
    IF Cached \/ ~supply.readable THEN battery ELSE [value |-> supply.changes, age |-> 0]

\* a card collects
Collect ==
    /\ battery' = Refreshed
    /\ UNCHANGED <<supply, period, queued, fallback, warmth, verdict, capacity, temperature,
                   behind, awaited, cold>>

-----------------------------------------------------------------------------
(* PowerSupplyMonitor *)

Change ==
    /\ supply.changes < MaxChanges
    /\ \E readable \in BOOLEAN :
         supply' = [changes |-> supply.changes + 1, readable |-> readable]
    /\ UNCHANGED <<period, queued, fallback, warmth, battery, verdict, capacity, temperature,
                   behind, awaited, cold>>

\* queue_power_sample, for an event of the directory or of UPower
Notify ==
    /\ queued = None
    /\ queued' = Debounce /\ awaited' = 0
    /\ UNCHANGED <<supply, period, fallback, warmth, battery, verdict, capacity, temperature,
                   behind, cold>>

\* The event that waits is consumed, and the cards read anew: power_event invalidates.
SamplePower ==
    /\ queued = 0 \/ fallback = 0
    /\ queued' = None /\ fallback' = power_fallback_seconds
    /\ verdict' = supply.changes
    /\ capacity' = IF supply.readable THEN supply.changes ELSE capacity
    /\ battery' = None
    /\ behind' = 0 /\ awaited' = None
    /\ UNCHANGED <<supply, period, warmth, temperature, cold>>

SampleThermal ==
    /\ warmth = 0
    /\ warmth' = thermal_fallback_seconds
    /\ temperature' = Snapshot
    /\ battery' = Refreshed
    /\ cold' = IF Cached THEN battery.age ELSE 0
    /\ UNCHANGED <<supply, period, queued, fallback, verdict, capacity, behind, awaited>>

\* taken up by the next sample
Configure ==
    /\ period' \in Periods
    /\ UNCHANGED <<supply, queued, fallback, warmth, battery, verdict, capacity, temperature,
                   behind, awaited, cold>>

Later(timer) == IF timer = None THEN None ELSE timer + 1
Sooner(timer) == IF timer = None THEN None ELSE timer - 1

\* A timer that has come is served before time passes.
Tick ==
    /\ 0 \notin {queued, fallback, warmth}
    /\ queued' = Sooner(queued) /\ fallback' = fallback - 1 /\ warmth' = warmth - 1
    /\ battery' = IF Cached THEN [battery EXCEPT !.age = @ + 1] ELSE battery
    /\ behind' = IF verdict = supply.changes THEN 0 ELSE behind + 1
    /\ awaited' = Later(awaited)
    /\ cold' = cold + 1
    /\ UNCHANGED <<supply, period, verdict, capacity, temperature>>

Next ==
    \/ Collect \/ Change \/ Notify
    \/ SamplePower \/ SampleThermal
    \/ Configure
    \/ Tick

Spec == Init /\ [][Next]_vars

-----------------------------------------------------------------------------
TypeOK ==
    /\ {fallback, behind, cold} \subseteq Nat
    /\ {queued, awaited} \subseteq Nat \cup {None}
    /\ {verdict, capacity} \subseteq 0..supply.changes

\* The runtime knows of an edge after the debounce, of a change whose edge was lost after the
\* fallback, whatever was configured in between; its temperature is at most one period and
\* the life of a cached snapshot old (sample_power_and_schedule, sample_thermal_and_schedule).
ToldInTime ==
    /\ awaited # None => awaited <= Debounce
    /\ behind <= MaxPeriod
    /\ cold < MaxThermalPeriod + Ttl

\* No card is given a battery from before the verdict the runtime has: an edge that changed
\* the policy is seen by every collection after it (BatterySource::invalidate).
CardsAgree == Cached => battery.value >= verdict
=============================================================================
