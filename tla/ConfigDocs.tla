------------------------------ MODULE ConfigDocs ------------------------------
(***************************************************************************)
(* The configuration as documents: a root and the modules of config.d,    *)
(* merged in the order of their names, and the way back, a save that puts  *)
(* every change into the document that owns it (core/config/loader.rs).    *)
(* The app, ui and runtime sections stand as one section of settings;      *)
(* pages, cards and actions are entries known by their id.                 *)
(***************************************************************************)
EXTENDS UseOrder, FiniteSetsExt, Functions

CONSTANTS
  Names,         \* the module names in the order of their paths
  Pages,         \* the ids that are pages
  PageOf,        \* the page every other id is placed on
  DefaultPages,  \* the pages of the shipped configuration
  Rejected,      \* the settings validate_runtime and validate_structure refuse
  Settings,      \* the settings a root may have
  Entries,       \* what a page, a card or an action may be
  Absent,        \* no document at a path
  Broken,        \* a document that does not parse, or of another schema
  NoSection,     \* a module without settings
  Failed         \* no configuration

Root == "root"
Modules == Range(Names)

\* Some of the fields of settings, as a module may give them.
Parts == UNION {{Restrict(s, fields) : fields \in SUBSET DOMAIN s} : s \in Settings}

RootDocs   == [settings : Settings, entries : Seq(Entries)]
ModuleDocs == [settings : Parts \cup {NoSection}, entries : Seq(Entries), replaces : BOOLEAN]

Tabular == \A s \in Settings : s = [f \in DOMAIN s |-> s[f]]

\* Settings are tables of the same fields, each with a value of its own, no two modules
\* have one path, and nothing is taken for what is not there.
Wellformed ==
  /\ Tabular
  /\ \A s, t \in Settings :
       /\ DOMAIN s = DOMAIN t
       /\ \A fields \in SUBSET DOMAIN s :
            [f \in DOMAIN s |-> IF f \in fields THEN t[f] ELSE s[f]] \in Settings
  /\ Names \in Seq(Modules) /\ IsInjective(Names) /\ Root \notin Modules
  /\ NoSection \notin Parts /\ Absent \notin ModuleDocs /\ Failed \notin RootDocs

Ids(entries) == {e.id : e \in Range(entries)}
EntryOf(entries, id) == CHOOSE e \in Range(entries) : e.id = id
Distinct(entries) == \A i, j \in DOMAIN entries : entries[i].id = entries[j].id => i = j
NewTo(known, entries) == Without(entries, {e \in Range(entries) : e.id \in known})

-----------------------------------------------------------------------------
(* Merging *)

\* the last definition of an id wins and keeps the place of the first
MergedEntries(base, incoming) ==
  [i \in DOMAIN base |->
     IF base[i].id \in Ids(incoming) THEN EntryOf(incoming, base[i].id) ELSE base[i]]
  \o NewTo(Ids(base), incoming)

Overridden(settings, over) ==
  IF over = NoSection THEN settings
  ELSE [f \in DOMAIN settings |-> IF f \in DOMAIN over THEN over[f] ELSE settings[f]]

Acceptable(merged, module) ==
  /\ Distinct(module.entries)
  /\ \/ module.replaces
     \/ /\ module.settings = NoSection
        /\ Ids(merged.entries) \cap Ids(module.entries) = {}

Layered(merged, module) ==
  IF module = Absent THEN merged
  ELSE IF merged = Failed THEN Failed
  ELSE IF ~Acceptable(merged, module) THEN Failed
  ELSE [settings |-> Overridden(merged.settings, module.settings),
        entries  |-> MergedEntries(merged.entries, module.entries)]

KnownPages(config) ==
  LET own == Ids(config.entries) \cap Pages
  IN  IF own = {} THEN DefaultPages ELSE own

Valid(config) ==
  /\ config.settings \notin Rejected
  /\ \A id \in Ids(config.entries) \ Pages : PageOf[id] \in KnownPages(config)

Merge(root, modules) ==
  LET merged[n \in 0 .. Len(Names)] ==
        IF n > 0 THEN Layered(merged[n - 1], modules[Names[n]])
        ELSE IF Distinct(root.entries) THEN root
        ELSE Failed
      all == merged[Len(Names)]
  IN  IF all # Failed /\ Valid(all) THEN all ELSE Failed

\* what ConfigManager::load makes of the documents on disk
Load(root, modules) ==
  IF root \in {Absent, Broken} \/ \E name \in Modules : modules[name] = Broken
  THEN Failed
  ELSE Merge(root, modules)

-----------------------------------------------------------------------------
(* Saving *)

\* the last of the modules that have it, or the root
OwnerOf(holders) ==
  LET places == {n \in DOMAIN Names : Names[n] \in holders}
  IN  IF places = {} THEN Root ELSE Names[Max(places)]

\* The settings always into the root.
SettingsOwnerRoot(modules) == Root

SettingsOwner(modules) ==
  OwnerOf({n \in Modules : modules[n] # Absent /\ modules[n].settings # NoSection})

EntryOwner(modules, id) ==
  OwnerOf({n \in Modules : modules[n] # Absent /\ id \in Ids(modules[n].entries)})

\* only a field that changed becomes an override of its own
Recorded(over, previous, next) ==
  [f \in DOMAIN over \cup {g \in DOMAIN next : previous[g] # next[g]} |->
     IF f \in DOMAIN next /\ previous[f] # next[f] THEN next[f] ELSE over[f]]

Synced(entries, config, modules, owner) ==
  [i \in DOMAIN entries |->
     LET id == entries[i].id IN
     IF EntryOwner(modules, id) = owner /\ id \in Ids(config.entries)
     THEN EntryOf(config.entries, id) ELSE entries[i]]

SavedModule(modules, name, previous, config) ==
  LET d == modules[name]
  IN  IF d = Absent THEN Absent
      ELSE [d EXCEPT
              !.entries = Synced(d.entries, config, modules, name),
              !.settings = IF SettingsOwner(modules) = name
                           THEN Recorded(@, previous.settings, config.settings) ELSE @]

SavedRoot(root, modules, config) ==
  LET known == Ids(root.entries)
               \cup UNION {Ids(modules[n].entries) : n \in {m \in Modules : modules[m] # Absent}}
  IN  [settings |-> IF SettingsOwner(modules) = Root THEN config.settings ELSE root.settings,
       entries  |-> Synced(root.entries, config, modules, Root) \o NewTo(known, config.entries)]

Saved(root, modules, config) ==
  LET previous == Merge(root, modules)
  IN  [root    |-> SavedRoot(root, modules, config),
       modules |-> [n \in Modules |-> SavedModule(modules, n, previous, config)]]

-----------------------------------------------------------------------------
(* Entries the program adds to a module *)

\* ensure_module: generated entries go behind what the module has
Ensured(modules, name, additions) ==
  LET d == modules[name]
  IN  [modules EXCEPT ![name] =
         IF d = Absent
         THEN [settings |-> NoSection, entries |-> additions, replaces |-> FALSE]
         ELSE [d EXCEPT !.entries = d.entries \o additions]]

\* upsert_module_card: the entry of a selected module, or a new overlay of it
Upserted(modules, name, entry) ==
  LET d == modules[name]
  IN  [modules EXCEPT ![name] =
         IF d = Absent
         THEN [settings |-> NoSection, entries |-> <<entry>>, replaces |-> TRUE]
         ELSE [d EXCEPT !.entries = MergedEntries(d.entries, <<entry>>)]]

-----------------------------------------------------------------------------
(* What they promise *)

SameValues(a, b) ==
  /\ a.settings = b.settings
  /\ Range(a.entries) = Range(b.entries)

\* A configuration that was merged, changed and saved is the one the next load
\* merges: no change ends in a document another one shadows, and none is lost.
SaveReloads(root, modules, config) ==
  LET saved == Saved(root, modules, config)
  IN  Valid(config) => LET again == Merge(saved.root, saved.modules)
                       IN  again # Failed /\ SameValues(again, config)

\* A save leaves alone the documents that own nothing of what changed.
SaveIsLocal(root, modules, config) ==
  LET previous == Merge(root, modules)
      saved    == Saved(root, modules, config)
      changed  == {EntryOwner(modules, e.id) :
                     e \in Range(config.entries) \ Range(previous.entries)}
                  \cup (IF config.settings = previous.settings THEN {}
                        ELSE {SettingsOwner(modules)})
  IN  \A n \in Modules : saved.modules[n] # modules[n] => n \in changed

\* An added card is the one the merged configuration shows, unless a module
\* behind the selected one defines the same id.
AddTakesEffect(root, modules, name, entry) ==
  LET after == Merge(root, Upserted(modules, name, entry))
      owner == EntryOwner(Upserted(modules, name, entry), entry.id)
  IN  after = Failed \/ owner # name \/ entry \in Range(after.entries)
=============================================================================
