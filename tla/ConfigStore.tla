------------------------------ MODULE ConfigStore -----------------------------
(***************************************************************************)
(* The configuration documents on disk, the program's copy of them, and    *)
(* what keeps the two together: loading and generated modules at start     *)
(* (application.rs), the settings page that changes and saves, and the     *)
(* file monitor with its debounced reload (window.rs).  Editors write the  *)
(* same documents.  A reload reads the root before the modules, and a save *)
(* that fails has written the documents before the one that failed.       *)
(***************************************************************************)
EXTENDS ConfigDocs

CONSTANTS
  Edits,        \* Edits[p]: the documents an editor leaves at path p
  Start0,       \* the documents the disk may hold at first
  DefaultRoot,  \* the shipped configuration
  NoRoot,       \* AppConfig::default()
  Generated,    \* Generated[name]: the entry the program adds to that module
  Levels,       \* the levels the settings page can set
  MaxEdits, MaxChanges, MaxFailures, MaxStarts,
  NoReload          \* no reload under way

VARIABLES
  disk,      \* the documents by path
  memory,    \* root, modules: the documents as last loaded or saved; config
  running,   \* the program runs
  watching,  \* the file monitors are installed
  saved,     \* the last save succeeded, or a load came after it
  told,      \* a file event is still to be delivered
  recent,    \* within debounce_ms of last_reload
  timer,     \* the debounce timer: "no", "set", "due"
  half,      \* the root a reload under way has read
  spent      \* edits, changes, failures, starts

vars == <<disk, memory, running, watching, saved, told, recent, timer, half, spent>>

Paths == {Root} \cup Modules
OnDisk(d) == [name \in Modules |-> d[name]]
Copy(root, modules) ==
  [root |-> root, modules |-> modules, config |-> Merge(root, modules)]
Nothing == Copy(NoRoot, [name \in Modules |-> Absent])

Spend(what) == spent' = [spent EXCEPT ![what] = @ + 1]

Init ==
  /\ disk \in Start0
  /\ memory = Nothing
  /\ running = FALSE /\ watching = FALSE /\ saved = TRUE
  /\ told = FALSE /\ recent = FALSE /\ timer = "no" /\ half = NoReload
  /\ spent = [edits |-> 0, changes |-> 0, failures |-> 0, starts |-> 0]

-----------------------------------------------------------------------------
(* Start and end of the program *)

\* one that does not merge is dropped
EnsureModule(copy, name) ==
  LET entry   == Generated[name]
      modules == Ensured(copy.modules, name, <<entry>>)
  IN  IF entry.id \in Ids(copy.config.entries) \/ Merge(copy.root, modules) = Failed
      THEN copy ELSE Copy(copy.root, modules)

\* build_app offers each generated module in turn
AllEnsured(copy) ==
  LET ensured[n \in 0 .. Len(Names)] ==
        IF n = 0 THEN copy ELSE EnsureModule(ensured[n - 1], Names[n])
  IN  ensured[Len(Names)]

Begin ==
  LET root == IF disk[Root] = Absent THEN DefaultRoot ELSE disk[Root]
      good == Load(root, OnDisk(disk)) # Failed
      copy == IF good THEN AllEnsured(Copy(root, OnDisk(disk))) ELSE Nothing
  IN  /\ ~running /\ spent.starts < MaxStarts
      /\ running' = TRUE
      /\ disk' = [p \in Paths |-> IF p = Root THEN root
                                  ELSE IF good THEN copy.modules[p] ELSE disk[p]]
      /\ memory' = copy
      /\ saved' = TRUE
      /\ watching' = copy.config.settings.watch
      /\ Spend("starts")
      /\ UNCHANGED <<told, recent, timer, half>>

Quit ==
  /\ running /\ running' = FALSE
  /\ memory' = Nothing
  /\ watching' = FALSE /\ told' = FALSE /\ recent' = FALSE
  /\ timer' = "no" /\ half' = NoReload /\ saved' = TRUE
  /\ UNCHANGED <<disk, spent>>

-----------------------------------------------------------------------------
(* Somebody else edits a document *)

Edit(p) ==
  /\ spent.edits < MaxEdits
  /\ \E document \in Edits[p] \ {disk[p]} : disk' = [disk EXCEPT ![p] = document]
  /\ told' = watching
  /\ Spend("edits")
  /\ UNCHANGED <<memory, running, watching, saved, recent, timer, half>>

-----------------------------------------------------------------------------
(* The settings page changes the configuration in memory and saves it *)

\* the paths a save writes, the root first: write_if_changed compares with the copy
Writes(copy, next) ==
  Without(<<Root>> \o Names,
          {p \in Paths : IF p = Root THEN next.root = copy.root
                         ELSE next.modules[p] = copy.modules[p]})

Written(next, paths) ==
  [p \in Paths |-> IF p \notin paths THEN disk[p]
                   ELSE IF p = Root THEN next.root ELSE next.modules[p]]

\* done of the writes succeed
SaveWrites(config, next, done) ==
  LET writes == Writes(memory, next)
      all    == done = Len(writes)
  IN  /\ disk' = Written(next, {writes[i] : i \in 1..done})
      /\ told' = (told \/ (watching /\ done > 0))
      /\ saved' = all
      /\ memory' = IF all THEN [root |-> next.root, modules |-> next.modules, config |-> config]
                   ELSE [memory EXCEPT !.config = config]
      /\ spent' = [spent EXCEPT !.changes = @ + 1, !.failures = IF all THEN @ ELSE @ + 1]

Change(config) ==
  LET next == Saved(memory.root, memory.modules, config)
  IN  /\ running /\ half = NoReload
      /\ spent.changes < MaxChanges /\ config # memory.config
      /\ \E done \in 0..Len(Writes(memory, next)) :
           /\ done = Len(Writes(memory, next)) \/ spent.failures < MaxFailures
           /\ SaveWrites(config, next, done)
      /\ UNCHANGED <<running, watching, recent, timer, half>>

SetLevel ==
  \E level \in Levels : Change([memory.config EXCEPT !.settings.level = level])

ToggleCard ==
  \E i \in DOMAIN memory.config.entries :
    /\ memory.config.entries[i].id \notin Pages
    /\ Change([memory.config EXCEPT !.entries[i].enabled = ~@])

-----------------------------------------------------------------------------
(* The file monitor *)

\* An event that comes too soon after the last is dropped.
FileEventDropped ==
  /\ running /\ told /\ half = NoReload
  /\ told' \in BOOLEAN
  /\ IF memory.config.settings.watch /\ ~recent
     THEN recent' = TRUE /\ half' = disk[Root]
     ELSE UNCHANGED <<recent, half>>
  /\ UNCHANGED <<disk, memory, running, watching, saved, timer, spent>>

\* one write may raise several events
FileEvent ==
  /\ running /\ told /\ half = NoReload
  /\ told' \in BOOLEAN
  /\ \/ /\ ~memory.config.settings.watch
        /\ UNCHANGED <<recent, timer, half>>
     \/ /\ memory.config.settings.watch /\ recent
        /\ timer' = IF timer = "no" THEN "set" ELSE timer
        /\ UNCHANGED <<recent, half>>
     \/ /\ memory.config.settings.watch /\ ~recent
        /\ recent' = TRUE /\ half' = disk[Root]
        /\ UNCHANGED timer
  /\ UNCHANGED <<disk, memory, running, watching, saved, spent>>

\* the timer is set to fire 50 ms behind the end of the window
WindowPasses ==
  /\ recent \/ timer = "set"
  /\ recent' = FALSE
  /\ timer' = IF timer = "set" THEN "due" ELSE timer
  /\ UNCHANGED <<disk, memory, running, watching, saved, told, half, spent>>

TimerFires ==
  /\ timer = "due" /\ half = NoReload
  /\ timer' = "no" /\ half' = disk[Root]
  /\ UNCHANGED <<disk, memory, running, watching, saved, told, recent, spent>>

\* the modules are read behind the root; a load that fails keeps the current one
Reload ==
  LET good == Load(half, OnDisk(disk)) # Failed
  IN  /\ half # NoReload /\ half' = NoReload
      /\ memory' = IF good THEN Copy(half, OnDisk(disk)) ELSE memory
      /\ saved'  = (saved \/ good)
      /\ UNCHANGED <<disk, running, watching, told, recent, timer, spent>>

Next ==
  \/ Begin
  \/ Quit
  \/ \E p \in Paths : Edit(p)
  \/ SetLevel
  \/ ToggleCard
  \/ FileEvent
  \/ WindowPasses
  \/ TimerFires
  \/ Reload

Spec == Init /\ [][Next]_vars

-----------------------------------------------------------------------------
TypeOK ==
  /\ disk[Root] \in RootDocs \cup {Absent, Broken}
  /\ \A p \in Modules : disk[p] \in ModuleDocs \cup {Absent, Broken}
  /\ memory.root \in RootDocs /\ memory.config \in RootDocs
  /\ \A p \in Modules : memory.modules[p] \in ModuleDocs \cup {Absent}
  /\ {running, watching, saved, told, recent} \subseteq BOOLEAN
  /\ timer \in {"no", "set", "due"}
  /\ \A k \in DOMAIN spent : spent[k] \in Nat

\* Once every file event is handled and no reload is due, the configuration in use is the
\* one on disk, unless that does not load or the last change could not be saved
\* (setup_config_monitor, do_reload_config, ConfigManager::save).
ConfigFollowed ==
  (/\ running /\ watching /\ memory.config.settings.watch /\ saved
   /\ ~told /\ timer = "no" /\ half = NoReload)
  => LET now == Load(disk[Root], OnDisk(disk))
     IN  now = Failed \/ SameValues(memory.config, now)

\* A change whose save succeeded is what a restart would load, as long as the documents
\* are the ones the program knows, watched or not.
SavedSurvives ==
  (running /\ saved /\ \A p \in Paths :
     disk[p] = IF p = Root THEN memory.root ELSE memory.modules[p])
  => SameValues(memory.config, Load(disk[Root], OnDisk(disk)))
=============================================================================
