----------------------------- MODULE MCServices -----------------------------
(***************************************************************************)
(* The services around the cards, one in each behaviour: the runtime, the  *)
(* pet card (its timers, or its frames), the client of ScrcpyForge (its    *)
(* metadata, or its previews), the configuration on disk and in memory,    *)
(* the migration of its documents, a card with a fixed schedule, and the   *)
(* sensors (power supply, network, the average of the power).  The         *)
(* variables of the others rest.                                           *)
(***************************************************************************)
EXTENDS MCRuntime, Sequences

CONSTANTS
    Nil, Absent, Broken, NoSection, Failed,
    Debounce, Ttl, MinPeriod, MaxPeriod, MaxThermalPeriod, Periods, MaxChanges, \* PowerSupply
    Documents, MaxRuns, MaxFailures,                                          \* Migration
    SlotTimes, DayLength, Days, RetrySeconds, MaxStarts,                      \* FixedSchedule
    SnapshotLife, Watchdog,                             \* NetworkWatch (and Debounce, MaxChanges)
    Window, SuspendGap, MaxSamples,                                         \* PowerMetric
    Pets,                   \* the cards a behaviour may be of: contents of the file, looks of
                            \* the runtime, presentations and animations
    MaxWrites, MaxFrameCount, MaxFramePixels, MaxStateBytes, MaxCacheStates,
    MaxCacheBytes,                                                          \* PetCard
    Forges,                 \* the services: serials, resources, sizes of pictures and bounds
    Permits, MaxPreviews, MaxPreviewTotal, MaxPreviewBytes,                 \* ForgeService
    Library                 \* the documents of the configuration, and who changes them

VARIABLES
    machine,          \* which of them this behaviour is of
    file, edges, load, seen, card, mapped, snapshot, unseen, agent, applied,    \* PetCard
    service, metadata, lock, call, snap, previews, promised,                    \* ForgeService
    disk, memory, running, watching, saved, told, recent, timer, half,
    spent,                                                                      \* ConfigStore
    files, backup, temp, origin, merges, pc, todo, converted, report, failures,
    runs,                                                                       \* Migration
    clock, unclear, waits, due, flight, cached, stored, shown, slot,
    starts,                                                                     \* FixedSchedule
    queued, behind, awaited,                                \* PowerSupply, NetworkWatch
    supply, period, fallback, warmth, battery, verdict, capacity, temperature,
    cold,                                                                       \* PowerSupply
    network, watchdog, connection, source, published,                           \* NetworkWatch
    samples, since, status, result                                              \* PowerMetric

pet      == <<file, edges, load, seen, card, mapped, snapshot, unseen, agent, applied>>
forge    == <<service, metadata, lock, call, snap, previews, promised>>
store    == <<disk, memory, running, watching, saved, told, recent, timer, half, spent>>
moves    == <<files, backup, temp, origin, merges, pc, todo, converted, report, failures, runs>>
schedule == <<clock, unclear, waits, due, flight, cached, stored, shown, slot,
              starts>>
edge     == <<queued, behind, awaited>>
power    == <<supply, period, fallback, warmth, battery, verdict, capacity, temperature, cold>>
link     == <<network, watchdog, connection, source, published>>
average  == <<samples, since, status, result>>
sensors  == <<edge, power, link, average>>

-----------------------------------------------------------------------------
(* The instances                                                           *)

Pet(of) ==
    INSTANCE PetCard WITH
        None <- Nil, Contents <- of.contents, Snapshots <- of.looks,
        Presentations <- of.presentations, Animations <- of.animations

Look(policy, paused) == [policy |-> policy, visible |-> TRUE, hot |-> FALSE, paused |-> paused]

Path(name, found) ==
    [name |-> name, picture |-> [file |-> found, header |-> "within", pixels |-> 1]]

\* One card for its file and its timers, and one for its frames: two of its animations fit
\* the cache, and one of them has a picture that is missing.
TwoPets ==
    [k \in {"pet timers", "pet frames"} |->
       IF k = "pet timers"
       THEN [contents |-> {"absent", "invalid", "unheard-of", "thinking", "done"},
             looks |-> {Look("full", FALSE)}, presentations |-> {"normal", "quad"},
             animations |-> [state \in {} |-> Nil]]
       ELSE [contents |-> {"thinking", "done"},
             looks |-> {Look("full", FALSE), Look("full", TRUE)}, presentations |-> {"normal"},
             animations |->
               [state \in {"thinking", "done", "default"} |->
                  CASE state = "thinking" ->
                         [loop |-> TRUE, paths |-> <<Path("a", "picture"), Path("b", "picture")>>]
                    [] state = "done" ->
                         [loop |-> FALSE, paths |-> <<Path("c", "picture"), Path("d", "missing"),
                                                      Path("e", "picture")>>]
                    [] state = "default" -> [loop |-> TRUE, paths |-> <<Path("f", "missing")>>]]]]

Forge(of) ==
    INSTANCE ForgeService WITH
        None <- Nil, Serials <- of.serials, Resources <- of.resources,
        PictureSizes <- of.sizes, MaxVersions <- of.versions, MaxChanges <- of.changes

\* One service for its previews, and one for its metadata.
TwoForges ==
    [k \in {"forge previews", "forge metadata"} |->
       IF k = "forge previews"
       THEN [serials |-> {"s1", "s2"}, resources |-> {"sessions"}, sizes |-> {1, 2, 3},
             versions |-> 2, changes |-> 1]
       ELSE [serials |-> {}, resources |-> {"sessions", "tasks"}, sizes |-> {1},
             versions |-> 4, changes |-> 2]]

Store ==
    INSTANCE ConfigStore WITH
        Names <- Library.names, Pages <- Library.pages, PageOf <- Library.pageOf,
        DefaultPages <- Library.defaults, Rejected <- Library.rejected,
        Settings <- Library.settings, Entries <- Library.entries,
        DefaultRoot <- Library.shipped, NoRoot <- Library.empty,
        Generated <- Library.generated, Edits <- Library.edits, Start0 <- Library.start,
        Levels <- Library.levels, MaxEdits <- Library.most.edits,
        MaxChanges <- Library.most.changes, MaxStarts <- Library.most.starts,
        MaxFailures <- Library.most.failures, NoReload <- Nil

Setting(level, watch) == [level |-> level, watch |-> watch]
Entry(id, enabled)     == [id |-> id, enabled |-> enabled]
Rooted(level, watch)   ==
    [settings |-> Setting(level, watch), entries |-> <<Entry("monitor", TRUE)>>]
Fragment(settings, entries, replaces) ==
    [settings |-> settings, entries |-> entries, replaces |-> replaces]

\* The program adds a card to the first module and a page to the second; the third level
\* of the settings is one the loader refuses.
TwoModules ==
    [names |-> <<"70", "90">>, pages |-> {"monitor", "forge"},
     pageOf |-> [id \in {"sys"} |-> "monitor"], defaults |-> {"monitor"},
     rejected |-> {Setting(3, watch) : watch \in BOOLEAN},
     settings |-> [level : 1 .. 3, watch : BOOLEAN],
     entries |-> [id : {"monitor", "forge", "sys"}, enabled : BOOLEAN],
     shipped |-> Rooted(1, TRUE), empty |-> [Rooted(1, TRUE) EXCEPT !.entries = <<>>],
     generated |-> [n \in {"70", "90"} |->
                      IF n = "70" THEN Entry("sys", FALSE) ELSE Entry("forge", TRUE)],
     edits |-> [p \in {"root", "70", "90"} |->
                  CASE p = "root" -> {Broken, Rooted(1, TRUE), Rooted(3, TRUE), Rooted(2, FALSE)}
                    [] p = "70"   -> {Fragment(NoSection, <<Entry("sys", TRUE)>>, FALSE)}
                    [] p = "90"   ->
                         {Fragment([level |-> 2], <<Entry("forge", TRUE), Entry("sys", FALSE)>>, TRUE),
                          Fragment(NoSection, <<Entry("forge", TRUE)>>, FALSE)}],
     start |-> {[p \in {"root", "70", "90"} |-> Absent]},
     levels |-> {1, 2},
     most |-> [edits |-> 2, changes |-> 2, starts |-> 2, failures |-> 1]]

\* Documents are documents, whoever writes them, and the settings page offers no level the
\* loader refuses.
ASSUME LibraryAssumption ==
    /\ Store!Wellformed
    /\ {Library.shipped, Library.empty} \subseteq Store!RootDocs
    /\ Store!Nothing.config # Failed
    /\ \A d \in Library.start : d = [p \in Store!Paths |-> d[p]]
    /\ \A p \in Store!Paths :
         {d[p] : d \in Library.start} \cup Library.edits[p]
           \subseteq (IF p = Store!Root THEN Store!RootDocs ELSE Store!ModuleDocs) \cup {Absent, Broken}
    /\ {Absent, Broken, Nil} \cap (Store!RootDocs \cup Store!ModuleDocs) = {}
    /\ Nil \notin {Absent, Broken} /\ Absent # Broken
    /\ \A p \in Store!Modules : Library.generated[p] \in Library.entries
    /\ \A s \in Library.settings : s.watch \in BOOLEAN
    /\ \A s \in Library.settings, level \in Library.levels :
         /\ {"level", "watch"} \subseteq DOMAIN s /\ [s EXCEPT !.level = level] \in Library.settings
         /\ s \notin Library.rejected => [s EXCEPT !.level = level] \notin Library.rejected
    /\ \A e \in Library.entries :
         {"id", "enabled"} \subseteq DOMAIN e /\ [e EXCEPT !.enabled = ~@] \in Library.entries

Move ==
    INSTANCE Migration WITH None <- Nil, file <- files

RootAndModules == <<"root", "a", "b">>

ASSUME MoveAssumption ==
    Documents \in Seq(Move!Paths) /\ Documents # <<>> /\ Nil \notin Move!Texts

Slots ==
    INSTANCE FixedSchedule WITH None <- Nil, now <- clock, running <- waits, Times <- SlotTimes

\* A schedule has a time at least, and the days go past the first.
ASSUME ScheduleAssumption ==
    /\ DayLength \in Nat /\ Days \in Nat \ {0}
    /\ SlotTimes \subseteq 0 .. DayLength - 1 /\ SlotTimes # {}
    /\ RetrySeconds \in Nat /\ Nil \notin Int

Supply == INSTANCE PowerSupply WITH None <- Nil

Network == INSTANCE NetworkWatch WITH None <- Nil, Deadline <- SnapshotLife

Average == INSTANCE PowerMetric WITH None <- Nil

\* What the sensors count on: a period has something between its bounds, and a reading, a
\* window and a deque hold at least one instant.
ASSUME SensorsAssumption ==
    /\ {Debounce, Ttl, MinPeriod, MaxPeriod, MaxThermalPeriod, MaxChanges, SnapshotLife,
        Watchdog, Window, SuspendGap, MaxSamples} \subseteq Nat
    /\ Ttl > 0 /\ MaxSamples > 0
    /\ MinPeriod <= MaxThermalPeriod /\ MinPeriod <= MaxPeriod
    /\ Periods \subseteq Nat
    /\ Nil \notin Int /\ Nil \notin Average!Statuses

Others == {"runtime", "store", "move", "slots", "power", "network", "average"}

\* No two machines have one name; a picture has a size and a cache has limits.
ASSUME MachinesAssumption ==
    /\ DOMAIN Pets \cap Others = {} /\ DOMAIN Forges \cap (Others \cup DOMAIN Pets) = {}
    /\ \A k \in DOMAIN Forges : Forges[k].sizes \subseteq Nat
    /\ {MaxPreviews, MaxPreviewTotal} \subseteq Nat /\ Nil # "snapshot"

\* A card is built in the normal size; its animations are made of pictures, and none of
\* them is taken for none.
ASSUME PetsAssumption ==
    /\ {MaxWrites, MaxFrameCount, MaxFramePixels, MaxStateBytes, MaxCacheStates,
        MaxCacheBytes} \subseteq Nat
    /\ \A k \in DOMAIN Pets :
         LET states == Pet(Pets[k])!NamedStates \cup {"offline"}
         IN  /\ "normal" \in Pets[k].presentations /\ Nil \notin Pets[k].presentations
             /\ Nil \notin [of : states, policy : {"full", "capped", "lowest"}]
             /\ \A state \in DOMAIN Pets[k].animations :
                  LET paths == Pets[k].animations[state].paths
                  IN  paths \in Seq({path \in Pet(Pets[k])!Range(paths) :
                                      path.picture \in Pet(Pets[k])!Pictures})

-----------------------------------------------------------------------------
(* One of them moves                                                       *)

RuntimeRests ==
    /\ now = 0 /\ midnight = 0 /\ manager = Nil /\ order = <<>> /\ channel = Nil
    /\ held = {} /\ inhibitors = 0 /\ down = TRUE /\ granted = Nil
PetRests ==
    /\ file = Nil /\ edges = Nil /\ load = Nil /\ seen = Nil /\ card = Nil /\ mapped = Nil
    /\ snapshot = Nil /\ unseen = Nil /\ agent = Nil /\ applied = Nil
ForgeRests ==
    /\ service = Nil /\ metadata = Nil /\ lock = Nil /\ call = Nil /\ snap = Nil
    /\ previews = Nil /\ promised = Nil
StoreRests ==
    /\ disk = Nil /\ memory = Nil /\ running = Nil /\ watching = Nil
    /\ saved = Nil /\ told = Nil /\ recent = Nil /\ timer = Nil /\ half = Nil /\ spent = Nil
MoveRests ==
    /\ files = Nil /\ backup = Nil /\ temp = Nil /\ origin = Nil /\ merges = Nil /\ pc = Nil
    /\ todo = Nil /\ converted = Nil /\ report = Nil /\ failures = Nil /\ runs = Nil
SlotsRest ==
    /\ clock = Nil /\ unclear = Nil /\ waits = Nil /\ due = Nil
    /\ flight = Nil /\ cached = Nil /\ stored = Nil /\ shown = Nil /\ slot = Nil /\ starts = Nil
EdgesRest == queued = Nil /\ behind = Nil /\ awaited = Nil
PowerRests ==
    /\ supply = Nil /\ period = Nil /\ fallback = Nil /\ warmth = Nil /\ battery = Nil
    /\ verdict = Nil /\ capacity = Nil /\ temperature = Nil /\ cold = Nil
LinkRests ==
    /\ network = Nil /\ watchdog = Nil /\ connection = Nil /\ source = Nil /\ published = Nil
AverageRests == samples = Nil /\ since = Nil /\ status = Nil /\ result = Nil

InitAll ==
    /\ machine \in Others \cup DOMAIN Pets \cup DOMAIN Forges
    /\ IF machine = "runtime" THEN Init ELSE RuntimeRests
    /\ \A k \in DOMAIN Pets : machine = k => Pet(Pets[k])!Init
    /\ machine \notin DOMAIN Pets => PetRests
    /\ \A k \in DOMAIN Forges : machine = k => Forge(Forges[k])!Init
    /\ machine \notin DOMAIN Forges => ForgeRests
    /\ IF machine = "store" THEN Store!Init ELSE StoreRests
    /\ IF machine = "move" THEN Move!Init ELSE MoveRests
    /\ IF machine = "slots" THEN Slots!Init ELSE SlotsRest
    /\ machine \notin {"power", "network"} => EdgesRest
    /\ IF machine = "power" THEN Supply!Init ELSE PowerRests
    /\ IF machine = "network" THEN Network!Init ELSE LinkRests
    /\ IF machine = "average" THEN Average!Init ELSE AverageRests

NextAll ==
    /\ UNCHANGED machine
    /\ \/ machine = "runtime" /\ Next /\ UNCHANGED <<pet, forge, store, moves, schedule, sensors>>
       \/ (\E k \in DOMAIN Pets : machine = k /\ Pet(Pets[k])!Next)
          /\ UNCHANGED <<vars, forge, store, moves, schedule, sensors>>
       \/ (\E k \in DOMAIN Forges : machine = k /\ Forge(Forges[k])!Next)
          /\ UNCHANGED <<vars, pet, store, moves, schedule, sensors>>
       \/ machine = "store" /\ Store!Next
          /\ UNCHANGED <<vars, pet, forge, moves, schedule, sensors>>
       \/ machine = "move" /\ Move!Next
          /\ UNCHANGED <<vars, pet, forge, store, schedule, sensors>>
       \/ machine = "slots" /\ Slots!Next
          /\ UNCHANGED <<vars, pet, forge, store, moves, sensors>>
       \/ machine = "power" /\ Supply!Next
          /\ UNCHANGED <<vars, pet, forge, store, moves, schedule, link, average>>
       \/ machine = "network" /\ Network!Next
          /\ UNCHANGED <<vars, pet, forge, store, moves, schedule, power, average>>
       \/ machine = "average" /\ Average!Next
          /\ UNCHANGED <<vars, pet, forge, store, moves, schedule, edge, power, link>>

all == <<machine, vars, pet, forge, store, moves, schedule, sensors>>

SpecAll == InitAll /\ [][NextAll]_all

\* The states of the runtime are compared as in MCRuntime.
ViewAll ==
    IF machine = "runtime" THEN <<machine, View>>
    ELSE <<machine, pet, forge, store, moves, schedule, sensors>>

-----------------------------------------------------------------------------
OfRuntime(P) == machine = "runtime" => P

\* Every instant at which time alone changes what the runtime grants is met, the ends of
\* leases among them (recompute, schedule_deadline).
DeadlinesMet == OfRuntime(TypeOK /\ TimerCovers /\ LeaseBounded /\ HiddenGrantsNothing)

\* What the subscribers of the runtime are told, and what the session is asked of it.
SnapshotsFollowed == OfRuntime(Delivered /\ InhibitorFollows)

\* The pet shows what its file says, in the size and with the frames that go with it.
PetFollows ==
    \A k \in DOMAIN Pets : machine = k =>
        /\ Pet(Pets[k])!TypeOK
        /\ Pet(Pets[k])!FileFollowed /\ Pet(Pets[k])!AgentForgotten
        /\ Pet(Pets[k])!PresentationFollows
        /\ Pet(Pets[k])!AnimationFollows /\ Pet(Pets[k])!FramesFollow

\* The page of ScrcpyForge is shown what the service has.
ForgeTruthful ==
    \A k \in DOMAIN Forges : machine = k =>
        /\ Forge(Forges[k])!TypeOK /\ Forge(Forges[k])!MetadataFresh
        /\ Forge(Forges[k])!PreviewsTruthful /\ Forge(Forges[k])!PreviewsBounded

\* The configuration in memory follows the documents, and what is saved survives.
ConfigFollowed ==
    machine = "store" =>
        Store!TypeOK /\ Store!ConfigFollowed /\ Store!SavedSurvives

\* No failure of a migration, and no order of its steps, loses a document.
NoDocumentLost == machine = "move" => Move!TypeOK /\ Move!NoDocumentLost /\ Move!ReportTrue

\* A card with a fixed schedule is collected once for each slot it lives to see.
SlotFollowed == machine = "slots" => Slots!TypeOK /\ Slots!SlotRunsOnce /\ Slots!SlotFollowed

\* The policy and the cards learn of power, temperature and network in time and from the
\* same reading, and an average is of one stretch of one status.
SensorsFollowed ==
    /\ machine = "power" => Supply!TypeOK /\ Supply!ToldInTime /\ Supply!CardsAgree
    /\ machine = "network" =>
         Network!TypeOK /\ Network!CardsAsked /\ Network!NoStaleSnapshot
    /\ machine = "average" => Average!TypeOK /\ Average!OneStretch
=============================================================================
