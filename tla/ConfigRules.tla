----------------------------- MODULE ConfigRules ------------------------------
(***************************************************************************)
(* The values of a configuration: how durations and defaults are written   *)
(* and read back (core/config.rs), what the loader accepts of a card, its  *)
(* source, its display and an action (core/config/loader.rs), which values *)
(* the settings page sets, and the policy a card runs under (window.rs).   *)
(*                                                                         *)
(* A text stands as its length, 0 when it is blank.  Scales and opacities  *)
(* stand in hundredths; NotFinite is an infinite or undefined one.         *)
(***************************************************************************)
EXTENDS WorkPolicy, Sequences

CONSTANTS
  Word,       \* the greatest u64
  NotFinite,  \* an f64 that is no number
  Omitted     \* Option::None, or a field left out of a document

Refused == -1

MaxDurationSeconds == 30 * 24 * 3600
MaxExternalTimeout == 300
MaxOutputBytes     == 8 * 1024 * 1024
MaxTextBytes       == 4096
MaxSourceTextBytes == 1024 * 1024
HardMaxLease       == 300

-----------------------------------------------------------------------------
(* Durations *)

UnitSeconds == [s |-> 1, m |-> 60, h |-> 3600, d |-> 86400]

\* text is a number and a unit
ParseDuration(text) ==
  IF text.unit \notin DOMAIN UnitSeconds \/ text.amount > Word \div UnitSeconds[text.unit]
  THEN Refused
  ELSE text.amount * UnitSeconds[text.unit]

\* The greatest unit that is not greater than the duration.
FormatDurationCut(seconds) ==
  LET unit == CASE seconds >= 86400 -> "d" [] seconds < 86400 /\ seconds >= 3600 -> "h"
                [] seconds < 3600 /\ seconds >= 60 -> "m" [] OTHER -> "s"
  IN  [amount |-> seconds \div UnitSeconds[unit], unit |-> unit]

\* in the greatest unit that divides it
FormatDuration(seconds) ==
  LET Fits(unit) == seconds > 0 /\ seconds % UnitSeconds[unit] = 0
      unit == CASE Fits("d") -> "d"
                [] Fits("h") /\ ~Fits("d") -> "h"
                [] Fits("m") /\ ~Fits("h") -> "m"
                [] OTHER -> "s"
  IN  [amount |-> seconds \div UnitSeconds[unit], unit |-> unit]

-----------------------------------------------------------------------------
(* A card in a document: what has its default value is left out *)

DefaultRuntime ==
  [workload |-> "auto", inactive |-> "inherit", idle |-> "inherit",
   inactiveInterval |-> Omitted, idleInterval |-> Omitted, minimum |-> Omitted]

DefaultTimeout == 10

Kept(value, default) == IF value = default THEN Omitted ELSE value
Duration(value)      == IF value = Omitted THEN Omitted ELSE FormatDuration(value)

WrittenRuntime(r) == [f \in DOMAIN r |-> Kept(r[f], DefaultRuntime[f])]

Written(card) ==
  [order    |-> Kept(card.order, 0),
   renderer |-> Kept(card.renderer, "value"),
   enabled  |-> Kept(card.enabled, TRUE),
   refresh  |-> Duration(Kept(card.refresh, 30)),
   cacheTtl |-> Duration(card.cacheTtl),
   timeout  |-> Duration(Kept(card.timeout, DefaultTimeout)),
   runtime  |-> IF card.runtime = DefaultRuntime THEN Omitted ELSE WrittenRuntime(card.runtime)]

Given(value, default)    == IF value = Omitted THEN default ELSE value
GivenTime(text, default) == IF text = Omitted THEN default ELSE ParseDuration(text)

Read(text) ==
  [order    |-> Given(text.order, 0),
   renderer |-> Given(text.renderer, "value"),
   enabled  |-> Given(text.enabled, TRUE),
   refresh  |-> GivenTime(text.refresh, 30),
   cacheTtl |-> GivenTime(text.cacheTtl, Omitted),
   timeout  |-> GivenTime(text.timeout, DefaultTimeout),
   runtime  |-> IF text.runtime = Omitted THEN DefaultRuntime
                ELSE [f \in DOMAIN DefaultRuntime |-> Given(text.runtime[f], DefaultRuntime[f])]]

-----------------------------------------------------------------------------
(* What the loader accepts *)

Text(length, max)         == length \in 1 .. max
OptionalText(length, max) == length = Omitted \/ length <= max
Optional(value, range)    == value = Omitted \/ value \in range
Finite(value)             == value # NotFinite

\* With the zero let through.
OptionalIntervalLoose(seconds) == Optional(seconds, 0 .. MaxDurationSeconds)
OptionalInterval(seconds)      == Optional(seconds, 1 .. MaxDurationSeconds)

AcceptsRuntime(r) ==
  /\ r.quietStart <= 23 /\ r.quietEnd <= 23
  /\ r.lease \in 1 .. HardMaxLease
  /\ r.criticalEnter < r.criticalExit /\ r.criticalExit <= r.lowEnter
  /\ r.lowEnter < r.lowExit /\ r.lowExit <= 100
  /\ \A f \in {"grace", "idleTimeout", "idleStability", "powerSample", "thermalSample",
               "attention"} : r[f] <= MaxDurationSeconds
  /\ r.brightness <= 100

AcceptsCommand(parts) == Len(parts) \in 1 .. 128 /\ \A i \in DOMAIN parts : Text(parts[i], 16 * 1024)

AcceptsParser(p) ==
  /\ p.divisor # 0 /\ Finite(p.divisor) /\ Finite(p.multiplier)
  /\ Optional(p.decimals, 0 .. 12) /\ Optional(p.capture, 0 .. 64)
  /\ OptionalText(p.pattern, 16 * 1024) /\ OptionalText(p.path, 1024)
  /\ p.type = "regex" => p.pattern # Omitted /\ p.compiles

AcceptsHttp(h) ==
  /\ h.scheme \in {"http", "https"}
  /\ Optional(h.method, {"GET", "POST", "PUT", "DELETE", "PATCH"})
  /\ h.timeout \in 1 .. MaxExternalTimeout /\ h.output \in 1 .. MaxOutputBytes
  /\ Optional(h.headers, 0 .. 64) /\ OptionalText(h.body, MaxSourceTextBytes)
  /\ h.parser = Omitted \/ AcceptsParser(h.parser)

AcceptsSource(source) ==
  \/ source = Omitted
  \/ source.kind = "builtin" /\ source.metric \in {"event", "network_traffic", "sampled"}
  \/ source.kind = "file"    /\ Text(source.path, 4096)
  \/ source.kind = "text"    /\ source.length <= MaxSourceTextBytes
  \/ source.kind = "http"    /\ AcceptsHttp(source)
  \/ /\ source.kind = "command"
     /\ AcceptsCommand(source.run) /\ source.lines <= 128
     /\ source.timeout \in 1 .. MaxExternalTimeout /\ source.output \in 1 .. MaxOutputBytes

AcceptsColors(c) ==
  /\ \A named \in {c.accent, c.value} : Optional(named, 1 .. 128)
  /\ Len(c.background) <= 4 /\ \A i \in DOMAIN c.background : Text(c.background[i], 128)
  /\ Optional(c.opacity, 0 .. 100)

AcceptsVisualState(s) ==
  /\ Text(s.name, 128)
  /\ Finite(s.min) /\ Finite(s.max)
  /\ s.min # Omitted /\ s.max # Omitted => s.min <= s.max
  /\ \A text \in {s.equals, s.contains} : OptionalText(text, MaxTextBytes)
  /\ s.regex # Omitted => s.regex <= 16 * 1024 /\ s.compiles
  /\ AcceptsColors(s.colors)

\* the pictures of a card are looked up beside the root document
AcceptsAsset(asset, sizes) ==
  asset = Omitted \/ (asset.opacity \in 0 .. 100 /\ asset.size \in sizes /\ asset.resolves)

AcceptsDisplay(d) ==
  \/ d = Omitted
  \/ /\ d.minimumChange = Omitted \/ (Finite(d.minimumChange) /\ d.minimumChange >= 0)
     /\ Optional(d.columnsAfter, 0 .. 512) /\ Optional(d.columns, 1 .. 64)
     /\ Optional(d.width, 64 .. 4096) /\ Optional(d.height, 64 .. 4096)
     /\ d.transition = Omitted \/ (d.transition.ms <= 2000 /\ Text(d.transition.easing, 64))
     /\ AcceptsColors(d.colors)
     /\ Len(d.states) <= 64 /\ \A i \in DOMAIN d.states : AcceptsVisualState(d.states[i])
     /\ AcceptsAsset(d.background, {Omitted}) /\ AcceptsAsset(d.logo, 8 .. 64)

\* a schedule that does not parse, or not on this day, refuses the card
AcceptsCard(card, pages, actions) ==
  /\ Text(card.id, 128) /\ Text(card.title, 256) /\ card.page \in pages
  /\ card.refresh \in 1 .. MaxDurationSeconds
  /\ OptionalInterval(card.cacheTtl)
  /\ OptionalText(card.icon, 256) /\ OptionalText(card.description, MaxTextBytes)
  /\ Optional(card.schedule, {"evaluates"})
  /\ Optional(card.action, actions)
  /\ \A f \in {"inactiveInterval", "idleInterval", "minimum"} : OptionalInterval(card.runtime[f])
  /\ AcceptsSource(card.source) /\ AcceptsDisplay(card.display)

AcceptsAction(action, pages) ==
  /\ Text(action.id, 128) /\ Text(action.name, 256) /\ action.page \in pages
  /\ OptionalText(action.description, MaxTextBytes) /\ OptionalText(action.icon, 256)
  /\ action.timeout \in 1 .. MaxExternalTimeout
  /\ Optional(action.output, 1 .. MaxOutputBytes)
  /\ action.command = Omitted \/ AcceptsCommand(action.command)

-----------------------------------------------------------------------------
(* The settings page *)

SpinRange ==
  [grace |-> 0 .. 300, idleTimeout |-> 10 .. 3600, idleStability |-> 0 .. 120,
   brightness |-> 5 .. 100, quietStart |-> 0 .. 23, quietEnd |-> 0 .. 23,
   lease |-> 1 .. 300, attention |-> 1 .. 300]

\* Every setting a spin button of the page can make of the runtime section.
Settings(runtime, field) == {[runtime EXCEPT ![field] = value] : value \in SpinRange[field]}

-----------------------------------------------------------------------------
(* The policy of a card *)

AutoWorkload(source) ==
  CASE source = Omitted -> "normal"
    [] source # Omitted /\ source.kind \in {"command", "http"} -> "expensive"
    [] source # Omitted /\ source.kind \in {"file", "text"}    -> "event"
    [] source # Omitted /\ source.kind = "builtin" ->
         CASE source.metric = "event"           -> "event"
           [] source.metric = "network_traffic" -> "live"
           [] source.metric = "sampled"         -> "normal"

TaskPolicyOf(card) ==
  LET Interval(value) == IF value = Omitted THEN NoInterval ELSE value
  IN  [base |-> card.refresh,
       workload |-> IF card.runtime.workload = "auto" THEN AutoWorkload(card.source)
                    ELSE card.runtime.workload,
       scheduled |-> card.schedule # Omitted,
       inactive |-> card.runtime.inactive, idle |-> card.runtime.idle,
       inactiveInterval |-> Interval(card.runtime.inactiveInterval),
       idleInterval |-> Interval(card.runtime.idleInterval),
       minimum |-> Interval(card.runtime.minimum)]

\* the bytes of its output a run may hold
OutputBudget(own, global) == Larger(Smaller(Given(own, global), global), 1)

-----------------------------------------------------------------------------
(* What the rules promise *)

\* A card that is saved is the card that is loaded again, also one no document accepts.
ReadsBack(card) ==
  LET again == Read(Written(card)) IN \A f \in DOMAIN again : again[f] = card[f]

\* A card the loader accepts has a policy the scheduler can run: every interval in it is
\* at least a second, and the card is collected unattended unless something drives it.
Runnable(card, pages, actions) ==
  AcceptsCard(card, pages, actions) =>
    LET policy == TaskPolicyOf(card)
    IN  /\ policy \in Policies
        /\ \A f \in {"inactiveInterval", "idleInterval", "minimum"} :
             card.runtime[f] # Omitted => policy[f] # NoInterval
        /\ (policy.workload # "event" \/ policy.scheduled)
             => EffectiveInterval("full", "active", policy) # NoInterval

\* A hot reload of the global bound also holds the actions and sources there are: no run
\* of an accepted one holds more than its own bound or the global one, and each holds a byte.
Budgeted(action, pages, global) ==
  AcceptsAction(action, pages) =>
    LET budget == OutputBudget(action.output, global)
    IN  /\ budget >= 1 /\ budget <= MaxOutputBytes
        /\ global >= 1 => budget <= global
        /\ global >= 1 /\ action.output # Omitted => budget = Smaller(action.output, global)

\* Every value the settings page can set is one the loader accepts: what is saved loads again.
SettingsAccepted(runtime) ==
  AcceptsRuntime(runtime) =>
    \A field \in DOMAIN SpinRange : \A changed \in Settings(runtime, field) : AcceptsRuntime(changed)
=============================================================================
