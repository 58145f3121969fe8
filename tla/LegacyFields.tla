----------------------------- MODULE LegacyFields -----------------------------
(***************************************************************************)
(* What `pulsedeck config migrate` makes of the runtime section and of the *)
(* runtime table of a card (core/config_cli.rs): the v3 fields checked,    *)
(* renamed, translated or dropped.  A table is a function of the fields it *)
(* has to tokens; the type of a token is the set it is in.                 *)
(***************************************************************************)
EXTENDS Integers

CONSTANT Refusal    \* the document is not converted

Booleans    == {"true", "false"}
Counts      == {"0", "30"}
OtherNumbers == {"-1", "0.5"}
Numbers     == Counts \cup OtherNumbers
Behaviours  == {"throttle", "pause"}

BooleanFields ==
  {"keep_screen_on", "idle_power_saving", "external_realtime", "external_prevents_idle",
   "codex_keep_bright", "codex_completion_sound", "cpu_activity_hint"}
CountFields ==
  {"external_sample_seconds", "external_enter_samples", "external_exit_samples",
   "codex_protection_minutes", "codex_attention_seconds"}
V3Fields == BooleanFields \cup CountFields \cup {"refresh_saving_strength", "idle_display"}

\* the values a v3 field may have; the fields that were v4's already are not looked at
V3Values(field) ==
  CASE field \in BooleanFields -> Booleans
    [] field \in CountFields   -> Counts
    [] field = "refresh_saving_strength" -> {"mild", "balanced", "aggressive"}
    [] field = "idle_display"  -> {"dim", "minimal"}

Renamed ==
  [power_sample_seconds    |-> "external_sample_seconds",
   agent_attention_seconds |-> "codex_attention_seconds",
   agent_completion_sound  |-> "codex_completion_sound",
   external_boost          |-> "external_realtime",
   idle_view               |-> "idle_display"]

-----------------------------------------------------------------------------
Has(table, field) == field \in DOMAIN table
Without(table, fields) == [f \in DOMAIN table \ fields |-> table[f]]

\* The strength alone decides.
MigratedProfileStrength(table) ==
  IF Has(table, "refresh_saving_strength") /\ table["refresh_saving_strength"] = "aggressive"
  THEN "eco" ELSE "balanced"

MigratedProfile(table) ==
  IF Has(table, "idle_power_saving") /\ table["idle_power_saving"] = "false" THEN "performance"
  ELSE IF Has(table, "refresh_saving_strength") /\ table["refresh_saving_strength"] = "aggressive"
  THEN "eco" ELSE "balanced"

\* The fields a v3 table makes: those renamed, the profile and the screen.
MadeFields(table) ==
  {new \in DOMAIN Renamed : Has(table, Renamed[new])}
  \cup {f \in {"profile"} : Has(table, "idle_power_saving") \/ Has(table, "refresh_saving_strength")}
  \cup {f \in {"screen_inhibit"} : Has(table, "keep_screen_on")}

Made(table, field) ==
  CASE field = "profile"        -> MigratedProfile(table)
    [] field = "screen_inhibit" -> IF table["keep_screen_on"] = "true" THEN "while-mapped" ELSE "never"
    [] OTHER                    -> table[Renamed[field]]

MigratedRuntime(table) ==
  IF \E f \in DOMAIN table \cap V3Fields : table[f] \notin V3Values(f)
  THEN Refusal
  ELSE [f \in MadeFields(table) \cup (DOMAIN table \ V3Fields) |->
          IF f \in MadeFields(table) THEN Made(table, f) ELSE table[f]]

-----------------------------------------------------------------------------
(* The runtime table of a card *)

V3CardFields == {"class", "idle_multiplier", "external_realtime", "realtime_multiplier"}

V3Classes ==
  {"auto", "system-realtime", "network-rate", "command", "http", "network-status", "file", "static",
   "battery-thermal"}

MigratedWorkload(class) ==
  CASE class = "auto"                                -> "auto"
    [] class \in {"system-realtime", "network-rate"} -> "live"
    [] class \in {"command", "http"}                 -> "expensive"
    [] class \in {"network-status", "file", "static"} -> "event"
    [] class = "battery-thermal"                     -> "normal"

CardValues(field) ==
  CASE field = "class"             -> V3Classes
    [] field = "idle_behavior"     -> Behaviours
    [] field = "external_realtime" -> Booleans
    [] field \in {"idle_multiplier", "realtime_multiplier"} -> Numbers

MigratedCard(table) ==
  IF \E f \in DOMAIN table \cap (V3CardFields \cup {"idle_behavior"}) : table[f] \notin CardValues(f)
  THEN Refusal
  ELSE [f \in {g \in {"workload"} : Has(table, "class")} \cup (DOMAIN table \ V3CardFields) |->
          IF f = "workload" /\ Has(table, "class")
          THEN MigratedWorkload(table["class"]) ELSE table[f]]

-----------------------------------------------------------------------------
(* What the fourth schema reads, with deny_unknown_fields *)

V4Values(field) ==
  CASE field = "profile"        -> {"performance", "balanced", "eco"}
    [] field = "screen_inhibit" -> {"never", "while-active", "while-mapped"}
    [] field = "idle_view"      -> {"none", "dim", "minimal"}
    [] field \in {"external_boost", "agent_completion_sound", "quiet_hours_enabled"} -> Booleans
    [] field \in {"power_sample_seconds", "agent_attention_seconds", "idle_timeout_seconds"} -> Counts
    [] field = "workload"       -> {"auto", "live", "normal", "expensive", "event"}
    [] field \in {"idle_behavior", "inactive_behavior"} -> {"inherit", "keep"} \cup Behaviours

V4RuntimeFields ==
  {"profile", "screen_inhibit", "idle_view", "external_boost", "agent_completion_sound",
   "quiet_hours_enabled", "power_sample_seconds", "agent_attention_seconds", "idle_timeout_seconds"}
V4CardFields == {"workload", "idle_behavior", "inactive_behavior"}

Fits(table, fields) ==
  DOMAIN table \subseteq fields /\ \A f \in DOMAIN table : table[f] \in V4Values(f)

-----------------------------------------------------------------------------
\* A v3 table that is converted is one the fourth schema reads, as long as what it had of the
\* fourth schema was: nothing of the third is left in it and no v4 value is made up wrong.
RuntimeFits(table) ==
  LET migrated == MigratedRuntime(table)
  IN  migrated # Refusal /\ Fits(Without(table, V3Fields), V4RuntimeFields)
        => Fits(migrated, V4RuntimeFields)

CardFits(table) ==
  LET migrated == MigratedCard(table)
  IN  migrated # Refusal /\ Fits(Without(table, V3CardFields), V4CardFields)
        => Fits(migrated, V4CardFields)

\* What the user had asked for is still asked for: no saving while idle, the strongest saving,
\* a screen kept on, a display of the idle view.
MeaningKept(table) ==
  LET migrated == MigratedRuntime(table)
      Asked(field, value) == Has(table, field) /\ table[field] = value
      Says(field, value)  == Has(migrated, field) /\ migrated[field] = value
  IN  migrated # Refusal =>
        /\ Asked("idle_power_saving", "false") => Says("profile", "performance")
        /\ Asked("idle_power_saving", "true") => ~Says("profile", "performance")
        /\ Asked("refresh_saving_strength", "aggressive") /\ ~Asked("idle_power_saving", "false")
             => Says("profile", "eco")
        /\ \A held \in Booleans :
             Asked("keep_screen_on", held)
               => Says("screen_inhibit", IF held = "true" THEN "while-mapped" ELSE "never")
        /\ \A new \in DOMAIN Renamed :
             Has(table, Renamed[new]) => Says(new, table[Renamed[new]])
=============================================================================
