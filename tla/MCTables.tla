------------------------------ MODULE MCTables ------------------------------
(***************************************************************************)
(* The sequential parts.  The pure ones over all small inputs: the interval*)
(* table under every permit, the stages of the battery, the boundaries of  *)
(* the quiet hours, a pass of the disk janitor, the values and the         *)
(* documents of a configuration, the conversion of a v3 one, and the       *)
(* frames of an animation; and the list of the memory cache over all       *)
(* sequences of calls.                                                     *)
(***************************************************************************)
EXTENDS WorkPolicy, RuntimePolicy, LruList, ConfigBook, TLC

CONSTANTS
    MaxInterval,      \* configured intervals of a card are at most this
    MaxCapacity,      \* of the battery
    Files, Ages, FileSizes,
    MaxAge, MaxTemporaryAge, MaxFiles, MaxFileBytes,    \* of the janitor
    Word, NotFinite, Broken, Refusal,                   \* of the configuration
    MaxFrameCount, MaxFramePixels, MaxStateBytes        \* of an animation

ASSUME TablesAssumption ==
    {MaxInterval, MaxCapacity, MaxFrameCount, MaxFramePixels, MaxStateBytes} \subseteq Nat

\* Files are told by their place in a directory.
ASSUME DirectoriesAssumption ==
    /\ Files \subseteq Nat /\ IsFiniteSet(Files) /\ Ages \subseteq Int /\ FileSizes \subseteq Nat
    /\ {MaxAge, MaxTemporaryAge, MaxFiles, MaxFileBytes} \subseteq Nat

VARIABLES table, input, result

lookup == <<table, input, result>>

Disk   == INSTANCE Janitor WITH MaxBytes <- MaxFileBytes
Rules  == INSTANCE TableInputs WITH Omitted <- None
Legacy == INSTANCE LegacyFields
Frames == INSTANCE PetFrames WITH MaxCacheStates <- 1, MaxCacheBytes <- 1

\* Two modules; a third value of the level is one the loader refuses.
Shelf ==
    [names |-> <<"70", "90">>, pages |-> {"monitor"}, defaults |-> {"monitor"},
     pageOf |-> [id \in {"sys", "new"} |-> "monitor"],
     rejected |-> [level : {3}, watch : BOOLEAN],
     settings |-> [level : 1 .. 3, watch : BOOLEAN],
     entries |-> [id : {"monitor", "sys", "new"}, enabled : BOOLEAN],
     absent |-> None, broken |-> Broken, noSection |-> None, failed |-> None]

\* None is no value, no text and no document: it is what a document leaves out; and a u64
\* holds every duration.
ASSUME DocumentsAssumption ==
    /\ Book(Shelf)!Wellformed
    /\ Word \in Nat /\ Word > Rules!MaxDurationSeconds
    /\ None \notin Int \cup BOOLEAN \cup {"auto", "value", "chart"} \cup Workloads \cup Behaviors
    /\ None \notin [amount : Int, unit : {"d", "h", "m", "s"}]
    /\ None \notin [DOMAIN Rules!DefaultRuntime ->
                     Int \cup {"auto"} \cup Workloads \cup Behaviors \cup {None}]

SmallPolicies ==
    [base : 1 .. MaxInterval, workload : Workloads, scheduled : BOOLEAN,
     inactive : Behaviors, idle : Behaviors,
     inactiveInterval : {0, MaxInterval}, idleInterval : {0, 1},
     minimum : {0, MaxInterval}]

Windows ==
    [quietEnabled : BOOLEAN, quietStart : 0 .. DayHours, quietEnd : 0 .. DayHours]

Batteries ==
    [capacity : 0 .. MaxCapacity, stage : Stages, thresholds : BatteryThresholds(MaxCapacity)]

Directories ==
    UNION {[present -> [kind : Disk!FileKinds, age : Ages, size : FileSizes, stuck : BOOLEAN]] :
               present \in SUBSET Files}

Entry(id) == [id : {id}, enabled : BOOLEAN]

RootSettings == [level : {1, 2}, watch : {TRUE}]

Roots ==
    [settings : RootSettings,
     entries  : {<<>>} \cup {<<m>> : m \in Entry("monitor")}
                \cup {<<m, c>> : m \in Entry("monitor"), c \in Entry("sys")}]

ModuleDocs ==
    {None} \cup
    [settings : {None, [level |-> 2], [level |-> 1, watch |-> FALSE]}, replaces : BOOLEAN,
     entries  : {<<>>, <<[id |-> "new", enabled |-> TRUE], [id |-> "sys", enabled |-> TRUE]>>}
                \cup {<<c>> : c \in Entry("sys")}]

Changes == {"level", "watch", "monitor", "sys", "new"}

Documents == [root : Roots, modules : [{"70", "90"} -> ModuleDocs], change : Changes]

Flipped(entry) == [entry EXCEPT !.enabled = ~@]

\* A configuration after a change: of a setting, or of an entry, which may be new.
Changed(config, change) ==
    CASE change = "level" -> [config EXCEPT !.settings.level = @ + 1]
      [] change = "watch" -> [config EXCEPT !.settings.watch = ~@]
      [] OTHER ->
           IF change \in Book(Shelf)!Ids(config.entries)
           THEN [config EXCEPT !.entries =
                   [n \in DOMAIN @ |-> IF @[n].id = change THEN Flipped(@[n]) ELSE @[n]]]
           ELSE [config EXCEPT !.entries = Append(@, [id |-> change, enabled |-> TRUE])]

\* Tables of up to three fields, with the values the third schema allows them and one it
\* does not, or a value of the fourth.
LegacyRuntimes ==
    LET One == UNION {{f :> v : v \in Legacy!V3Values(f) \cup {"-1"}} : f \in Legacy!V3Fields}
               \cup UNION {{f :> v : v \in Legacy!V4Values(f)} : f \in {"profile", "idle_view"}}
    IN  {<<>>} \cup {a @@ b @@ c : a, b, c \in One}

LegacyCards ==
    LET One == UNION {{f :> v : v \in Legacy!CardValues(f) \cup {"-2"}} :
                         f \in Legacy!V3CardFields \cup {"idle_behavior"}}
               \cup {"workload" :> "live", "idle_behavior" :> "keep"}
    IN  {<<>>} \cup {a @@ b @@ c : a, b, c \in One}

InitAll ==
    /\ Init
    /\ result = <<>>
    /\ \/ table = "memory"    /\ input = {}
       \/ table = "intervals" /\ input \in SmallPolicies
       \/ table = "quiet"     /\ input \in Windows
       \/ table = "battery"   /\ input \in Batteries
       \/ table = "directory" /\ input \in Directories
       \/ table = "card"      /\ input \in Rules!CardSamples
       \/ table = "runtime"   /\ input \in Rules!RuntimeSamples
       \/ table = "action"    /\ input \in Rules!ActionSamples \X Rules!GlobalBounds
       \/ table = "documents" /\ input \in Documents
       \/ table = "legacy"    /\ input \in LegacyRuntimes
       \/ table = "oldcard"   /\ input \in LegacyCards
       \/ table = "frames"    /\ input \in Rules!Animations

\* The row of the table for the input.
Row ==
    CASE table = "intervals" ->
           [pair \in Levels \X Contexts |-> EffectiveInterval(pair[1], pair[2], input)]
      [] table = "quiet"     ->
           {second \in 0 .. DaySeconds - 1 : QuietHoursActive(input, second)}
      [] table = "battery"   -> BatteryStageFor(input.capacity, input.stage, input.thresholds)
      [] table = "directory" -> Disk!CleanedUp(input)
      [] table = "card"      -> Rules!AcceptsCard(input, {"monitor"}, {"act"})
      [] table = "runtime"   -> Rules!AcceptsRuntime(input)
      [] table = "action"    -> Rules!OutputBudget(input[1].output, input[2])
      [] table = "documents" -> Book(Shelf)!Merge(input.root, input.modules)
      [] table = "legacy"    -> Legacy!MigratedRuntime(input)
      [] table = "oldcard"   -> Legacy!MigratedCard(input)
      [] table = "frames"    -> Frames!LoadFrames(Rules!PathsOf(input))

Look ==
    /\ table # "memory" /\ result = <<>>
    /\ result' = <<Row>>
    /\ UNCHANGED <<table, input, vars>>

Use ==
    /\ table = "memory"
    /\ Next
    /\ UNCHANGED lookup

SpecAll == InitAll /\ [][Look \/ Use]_<<lookup, vars>>

-----------------------------------------------------------------------------
\* The table of an input is looked at once, before its row is.
Of(name) == table = name /\ result = <<>>

\* "it never makes a card faster than its configured base interval ...
\* minimum_interval_seconds is always enforced" (docs/RUNTIME_POWER.md).
BaseRespected ==
    \A level \in Levels, context \in Contexts : NeverFaster(level, context, input)

\* The work level of a mapped window.
LevelAt(stage, thermal) == WorkLevel([mapped |-> TRUE, stage |-> stage, thermal |-> thermal])

\* What may get worse, from one level to another.
Worsenings ==
    {<<LevelAt(from, thermal), LevelAt(to, thermal)>> :
        from \in {"normal", "low"}, to \in {"low", "critical"}, thermal \in Thermals}
    \cup
    {<<LevelAt(stage, from), LevelAt(stage, to)>> :
        stage \in Stages, from \in {"warm", "hot"}, to \in {"hot", "throttled"}}

\* A battery or a temperature that gets worse never makes a card be collected more
\* often, whatever the other of the two is: the work level is that of the lower cap,
\* and the intervals follow it.  Throttled cards without an interval are exempt.
CapsRespected ==
    \A context \in Contexts, levels \in Worsenings :
        (Behavior(context, input) = "throttle"
            => ExplicitInterval(context, input) # NoInterval)
        => NoMoreOften(EffectiveInterval(levels[2], context, input),
                       EffectiveInterval(levels[1], context, input))

\* Safety caps stop unattended expensive work that keeps no schedule of its own,
\* and nothing else that has a schedule.
ExpensiveCapped ==
    \A level \in Levels, context \in Contexts :
        LET interval == EffectiveInterval(level, context, input)
        IN  /\ (/\ input.workload = "expensive" /\ ~input.scheduled
                /\ Behavior(context, input) = "inherit" /\ level # "full")
                 => interval = NoInterval
            /\ input.scheduled /\ level # "suspended" => interval # NoInterval

\* No permit makes a card be collected more often than was configured, and a permit that
\* gets worse makes none more often than before.
IntervalsRespected == Of("intervals") => BaseRespected /\ CapsRespected /\ ExpensiveCapped

\* At the edges: the boundaries of the quiet hours are announced over every window and
\* second of a day, and the hysteresis of the battery holds over every configuration the
\* loader accepts.
EdgesHold ==
    /\ Of("quiet") => \A second \in 0 .. DaySeconds - 1 : BoundaryAnnounced(input, second)
    /\ Of("battery") =>
         /\ StageSettles(input.capacity, input.stage, input.thresholds)
         /\ StagePersists(input.capacity, input.stage, input.thresholds)

\* A pass of the janitor leaves a directory within its bounds; it takes the oldest entries,
\* no more than it has to, and nothing of a store that may still be running.
DirectoryTidied ==
    Of("directory") =>
        Disk!DiskBounded(input) /\ Disk!OldestGoFirst(input) /\ Disk!OnlyAsNeeded(input)

\* Whatever the loader accepts can be run, and whatever the settings page can set is
\* accepted: no value gets past one of them that the other cannot take.
LoadedIsRunnable ==
    /\ Of("card")    => Rules!Runnable(input, {"monitor"}, {"act"})
    /\ Of("runtime") => Rules!SettingsAccepted(input)
    /\ Of("action")  => Rules!Budgeted(input[1], {"monitor"}, input[2])

\* What is saved is what is loaded again: each card through its text, and each change of a
\* configuration through the documents it is merged from.
DocumentsKeepValues ==
    /\ Of("card") => Rules!ReadsBack(input)
    /\ Of("documents") =>
         LET config == Book(Shelf)!Merge(input.root, input.modules)
         IN  config # None =>
               /\ Book(Shelf)!SaveReloads(input.root, input.modules, Changed(config, input.change))
               /\ Book(Shelf)!SaveIsLocal(input.root, input.modules, Changed(config, input.change))
               /\ Book(Shelf)!AddTakesEffect(input.root, input.modules, "70",
                                        [id |-> "new", enabled |-> FALSE])

\* A v3 document that is converted is one the program reads, and says what it said.
MigratedFits ==
    /\ Of("legacy")  => Legacy!RuntimeFits(input) /\ Legacy!MeaningKept(input)
    /\ Of("oldcard") => Legacy!CardFits(input)

\* An animation stays within its limits and is the same each time it is loaded.
FramesSettle == Of("frames") => Frames!LoadSettles(Rules!PathsOf(input))
=============================================================================
