# PulseDeck in TLA+

PulseDeck is a GTK dashboard for a Linux phone or tablet: pages of cards, each
card showing the latest value of a source (a built-in metric, a command, a file,
an HTTP request).  Its hard part is not the drawing.  It is deciding *when* each
source may be collected, under a policy that changes with power, thermals,
visibility, user activity and quiet hours, while source events, user clicks,
configuration reloads and slow collections overlap; and keeping what is shown, cached
and saved true while they do.

This directory models that in TLA+, checks it with TLC on small instances, and proves
the main invariants of its core with TLAPS.  All paths below are relative to the
repository, so `src/core/scheduler.rs` is the scheduler.

## 1. The system

Everything but the collections runs on the GTK main loop, in handlers that do not
interleave except at `.await`.  Collections, previews, decoding and file reads run as
tokio tasks or threads, and come back through channels.

| Component | State | Operations | Interacts with |
| --- | --- | --- | --- |
| Scheduler (`src/core/scheduler.rs`) | runtime per card, heap of entries, permits, cursors, generation seed | register, unregister, clear, rebind, restore_deadline, set_work_level, set_periodic_refresh_paused, set_active_page, request_*, poll, next_task, mark_started, mark_done_* | called by every handler of the window |
| Polling loop (`src/window.rs`, start_scheduler_polling) | armed timer, wake token | next_task, sleep, poll, start every ready card | scheduler, workers |
| Collection workers (ibid.) | gate per source node, permits, stage | cache lookup, collect, store, fallback, publish | cache, source nodes, inbox, completion channel |
| Completion receiver (start_metric_receiver) | batch of completions | reject stale ones, finish the run, project the newest value | scheduler, cache, refresh, pages |
| LatestInbox | newest presentation per card | publish_if, latest, remove | workers, receiver |
| Fixed schedules (`src/core/schedule.rs`) | none; the slot is a key of the cache | evaluate at each poll | polling loop, cache |
| RefreshCoordinator (`src/core/refresh.rs`) | revision, dependents, last request per source | bind, unbind_task, publish, revision, clear | publish_source_event |
| Cache (`src/core/cache.rs`) | memory entries in an LRU list, files, invalidation generation and dirty flag per source | load, load_last_good, store_if_current, invalidate, forget, prune, cleanup | workers, receiver, source events |
| Runtime policy (`src/core/runtime_policy.rs`) | pure | evaluate work level, dimming, frame rates | runtime manager |
| RuntimeManager (`src/core/runtime.rs`) | inputs, leases, timers, subscribers | report_*, leases, recompute, subscribe | window, plugins, scheduler permits |
| Page rebuild and reload (`src/window.rs`) | configuration, epoch, page graph, debounce guard | apply_config_reload, rebuild_pages, reconcile_scheduler_cards, settings switch | all of the above |
| Actions (`src/window.rs`) | set of active actions, busy controls | acquire, run, publish, invalidate dependents | scheduler, refresh |
| Configuration (`src/core/config.rs`, `src/core/config/loader.rs`) | root and module documents, the copy in memory | load, merge, validate, save, add entries | reload, settings page |
| Migration (`src/core/config_cli.rs`) | documents, temporaries, backups | convert, write, back up, install, validate, roll back | configuration at the next start |
| Pet card (`src/plugins/pet_card/`) | shown state, three timers, frames and their cache, size | state-file watch, load, timers, animation, size requests | runtime leases, its page |
| Scrcpy Forge (`src/plugins/scrcpy_forge/`) | daemon, switch, metadata, previews | start, stop, health, snapshot, calls | runtime policy |
| Subprocess (`src/execution/subprocess.rs`) | child, pipes, limits | run, time out, cancel, kill | command metrics |
| Sensors (`src/core/power_supply.rs`, `src/sources/`, setup_network_monitor) | timers, shared snapshots | debounced edges, fallback samples, watchdog | runtime, source events, metrics |
| Metrics (`src/metrics/`) | window or difference of samples | collect | workers, sensors |
| Rendering, UI | widgets | draw | receiver |

### What is hard

* **Generations.**  A heap entry is cancelled only by bumping a number.  Five
  kinds of handlers bump it, and each must decide whether to push a new entry.
  One bump without a push freezes a card silently; one push without a bump
  collects it twice.
* **Two kinds of "not now".**  Suspension and quiet hours hold work back without
  losing it; a hidden page or a paused policy drops it and must be undone by the
  handler that shows the page or lifts the pause.
* **Coalescing.**  An edge during a run becomes exactly one follow-up; an edge on
  a queued card only raises the reason of the run already queued.  The wake channel
  and the gate of a snapshot hold one message.
* **Absolute and relative deadlines.**  Fixed schedules keep a wall-clock anchor
  through every rescheduling; reload and resume slots spread expensive starts;
  everything else is coalesced by a window that depends on the work level.
* **Generations across lifetimes.**  A card may be removed and registered again
  while its old worker still runs and its old entries still lie in the heap.
* **Late answers.**  A file read, a health answer, a preview, a decoded frame or a
  completion may come back after the state it was asked for is gone.
* **Edges that get lost.**  Power, network and file signals are hints; a fallback must stand
  in for each, and the snapshots the cards share must not outlive the event.
* **Several owners of one document.**  Editors, the settings page and the program's own
  additions write the same files, from a copy in memory that a monitor keeps current.
* **Several files of one change.**  A save and a migration write documents one by one,
  and may fail or die in between.

PROJECT.json lists these hazards at their lines, with the property meant to catch
each.  One has none: a click that coalesces with a run queued at a slot waits for the
slot (a decision of the code, section 5).

### What makes each component correct

* Scheduler: a runnable card always has a live entry; never two; never started
  while running; no source revision lost; quiet hours and absolute deadlines
  respected; anchors kept; heap bounded.
* Interval table: never faster than configured; monotone in the caps.
* Polling loop: never sleeps past the next deadline, never misses a request, serves
  every card for ever, ends with the window.
* Collection: no value collected before an edge is shown or cached after it; every
  started run completes its scheduler slot; an old worker never completes a new
  registration.
* Fixed schedule: a slot is collected once, and none is passed over while the program runs.
* Cache: a dirty source is never served as fresh; the LRU list and the byte count
  agree with the map.
* Runtime: leases expire; the battery stage keeps its hysteresis; quiet hours win
  over activity except under an observation lease; the newest snapshot arrives.
* Actions: one run at a time; no control keeps its spinner.
* Configuration: what is saved is what is loaded; memory follows the disk; whatever is
  accepted can be run; an interrupted migration loses no document.
* Pet card: the newest file is shown; a state that ends, ends; frames fit their state.
* Scrcpy Forge: nothing shown is older than what the user was told is done; no daemon is
  forgotten; the switch and the gate open again.
* Sensors: the policy and the cards learn of a change by the debounce, or by the fallback, and
  from the same reading; an average is of one stretch of one status.
* Subprocess: the call returns whatever its processes do; the output of a completed command
  is whole; a command that was given up leaves nobody of its group behind.

## 2. The plan

Most important behaviour first.

1. `WorkPolicy`, `Scheduler`, `MCScheduler`, `SchedulerClaims`: the core, with
   `SchedulerProofs`.  *Done.*
2. `Cache`: invalidation against concurrent stores, loads and fallbacks, lock
   section by lock section, with `CacheProofs`; `LruList`, shown to implement `Lru`;
   `Janitor`.  *Done.*
3. `RuntimePolicy`, `Runtime`: the permits the scheduler receives; leases, idle
   timers, battery hysteresis, the inhibitor.  *Done.*
4. `Collection`: workers, completion channel, inbox, receiver and refresh
   coordinator over an abstract run of a card; re-registrations included, with
   `LoopsProofs`: a shown value is never older than the last edge.  *Done.*
5. `Controller`: the polling loop with its timer and wake channel, the full completion
   channel, actions and the end of the window, with liveness.  *Done.*
6. `FixedSchedule`: slots, restarts, clock changes.  *Done.*
7. `ConfigRules`, `ConfigDocs`, `ConfigStore`, `LegacyFields`, `Migration`: values,
   documents, their way between disk and memory, and the v3 migration.  *Done.*
8. `PetFrames`, `PetCard`; `ForgeService`, `ForgePage`.  *Done.*
9. `Subprocess`; `PowerSupply`, `NetworkWatch`, `PowerMetric`.  *Done.*
10. Proofs of the loops and services: `ControllerProofs`, `SubprocessProofs`, `LoopsProofs`,
   `ServicesProofs`, `TablesProofs`.  *Done*.
11. Proofs of what is computed by loops over data: sums and orders of use (`SharedLemmas`), the
   caches of previews and frames, the loading of an animation, the conversion of v3 tables, a pass
   of the janitor, the list of the memory cache with its step to `Lru`, and the documents of a
   configuration with their life.  *Done*.

## 3. Modules

### WorkPolicy (`src/core/scheduler.rs`, lines 937-1051)

The pure part: `EffectiveInterval` is `effective_interval`, cut into one operator
per idea (`Behavior`, `ExplicitInterval`, `ThrottleLevel`, `Multiplier`,
`FullInterval`, `Barred`, `ClampMin`); `ReasonPriority`, `PreferReason`,
`RunOncePermitted` are the functions of those names; `Backoff` is the exponential
backoff of a completion.  One unit of time stands for the 500 ms slot; an absent
interval is `NoInterval` = 0, which the loader forbids as a configured value.

### Scheduler (`src/core/scheduler.rs`, and its callers in `src/window.rs`)

`tasks` is the map of runtimes, `heap` the binary heap (a set: two entries equal
in all fields are indistinguishable, and of two stale ones it does not matter
which goes first), `deferred` the vector local to poll and next_task, `ready` what
poll returned, `phase` the program counter of the polling loop.  Handlers run only
at its two `.await` points (`AtRest`).  `poll` and `next_task` take one step per
heap entry, so that the invariants are seen inside them too.

| Action | Code |
| --- | --- |
| `Register`, `Clear`, `Unregister` | register_with_policy_at, clear, the settings switch |
| `Rebind`, `Replace` | the two branches of reconcile_scheduler_cards, whole |
| `SetWorkLevel`, `SetPeriodicRefreshPaused` | the setters with reschedule_at in them |
| `SetActivePage` | set_active_page over every page |
| `RequestNow`, `RequestSource`, `RequestConfigReload`, `RequestAllNow` | request_event_at_with_defer under each caller |
| `MarkDone`, `Outdated` | start_metric_receiver, which compares generations; mark_done_after_at_with_deadline |
| `PollBegin` ... `PollEnd` | poll_at |
| `Start`, `StartUnavailable` | the loop over ready cards, up to the worker |
| `BeginNext`, `NextDefer`, `NextDrop`, `NextEnd` | next_task |
| `Tick` | time passing while the loop waits |

A started card has a worker, an element of `flights`, that keeps the generation its completion
will carry and outlives the registration it was started for.  Neither the receiver nor mark_done
asks whether the card runs, and a generation may come again (section 5, "mistaken"), so that
`MarkDone` may reach a run of another registration, or a card that is idle; the history variable
`mistaken` keeps the cards of which the latter holds until they start again.  `Workers` names
the workers of one card that may be in flight at a time; one for which no name is left never
reports, as if it hung.

Handlers that call several operations in one go (a runtime snapshot sets the work
level and then the quiet flag; a rebuild clears, registers every card and selects
a page) are separate actions here, so the model allows more interleavings than
the code; the invariants hold all the same.

Abstracted: generations do not wrap (2^64); the minimum timer of 10 ms and the one
hour fallback of the loop; `enabled`, which is true from registration on; the
diagnostic scalar revisions; saturation of durations.  Time passes only while the
loop waits: poll reads the clock once, and the loop over ready cards is short.

`CONSTANT Optional` names two handlers that break assumptions of the others:
"toggle", the settings switch, which removes one card and leaves its entries in
the heap; and "reconcile", the in-place reload, which `apply_config_reload`
cannot reach today (cards are part of the page graph, so any change rebuilds) but
which the code keeps and tests.  `NoLostWakeup`, `ReasonKept` and `NoLostRevision` are
checked and proved with both; `OneLiveEntry`, `NoReentry` and `PermittedStart` without, because
with "toggle" the first is false (section 5) and the others rest on it.  Without them cards are
still registered anew, by a rebuild (`Clear`, `Register`), which empties the heap.

The loop over ready cards has one more `.await`, on the send of an invalid or not
yet started schedule, which only waits when the places of the completion channel are
taken; here the ready cards are started without a pause, and `Controller` models it.

### Cache (`src/core/cache.rs`; `SourceNode` and the workers in `src/window.rs`)

One source: `state` is its InvalidationState, `memory` its entry in the memory
cache, `disk` its file, `nodes` the source nodes created for it (a removal and a
later use create another), `worker` the locals of every collection in flight.
Source events come from the main loop while workers run on the tokio pool, so a
step of a worker is the code between two lock operations.  A value is the number of
events its collection has seen since the process started; `world` counts events,
`edges` those the cache was told of.

| Steps | Code |
| --- | --- |
| `InvalidateSource`, `InvalidateCache` | publish_source_event: the node first, the cache then |
| `Begin`, `TakeGate`, `SkipLoad` | the spawned worker up to the gate of its node |
| `LoadBegin`, `ReadMemory`, `ReadFile`, `FillMemory`, `LoadHit`, `LoadMiss` | load_with_budget and read_entry |
| `Coalesce`, `CollectBegin`, `CollectEnd` | SourceNode::collect_async: a sample shared, or taken |
| `StoreBegin` ... `StoreInsert` | store_if_current between its two token checks |
| `FallbackBegin`, `Fallback` | the last-good load of a failed run, outside the gate |
| `Deliver` | start_metric_receiver: a token that is not current is rejected |
| `Evict`, `RemoveFile`, `OtherSource` | LRU eviction, the janitor, another source drawing from the seed |
| `Forget`, `Restart` | prune_source_nodes; a crash or an exit, which keeps the file |

`Upsets` names what may also happen, "forget", "restart" and "chmod" (the second
set_permissions of a store failing), `Outcomes` how a collection may end.  Left
out: the time to live (an entry may be fresh or expired at any load), sizes,
payloads, and other sources but for the seed and the write lock they share.

### Collection (`src/window.rs`, `src/core/refresh.rs`)

The way of a value from the start of a card to the screen.  `tasks` joins what
scheduler and metadata keep of a registered card; `worker` holds what each worker
in flight captured (generation, epoch, source, budget, key and revision of the event
that asked for it, token); `inbox`, `channel` and `refresh` are LatestInbox, the
completion channel and the RefreshCoordinator; `shown` is previous_results.

| Action | Code |
| --- | --- |
| `Start` | poll, mark_started and the captures of start_scheduler_polling |
| `Publish`, `Send` | publish_metric with its comparison and evictions; the bounded channel |
| `Receive` | one completion in start_metric_receiver: outdated, rejected, overtaken or projected |
| `SourceEvent` | publish_source_event: invalidations, revision, requests |
| `Request`, `Permit` | a click; what a permit or a page change does to idle cards |
| `ChangeBudget` | apply_output_budget_change |
| `Rebuild` | apply_config_reload with rebuild_pages |
| `SwitchOff`, `SwitchOn` | the settings switch with unbind_task and prune_source_nodes |

Time belongs to `Scheduler`, the inside of a collection to `Cache`: here an idle card
may start, and a worker may end, at any moment.  A reload that changes the budget and
the cards is two steps, so the model allows more interleavings.  Tokens of the cache
are a flag of the worker, `valid`, as they never come back while a card uses the
source.  Of the revisions of a card `requested` keeps the keys that its last start has not
taken, which is what mark_done asks of them; as in `Scheduler` it does not ask whether the card runs.
History variables and fields: `fresh` (no event since the start), `own` (its
registration still stands), `missed` (events a card does not show yet) and `lost`
(values pushed out of the inbox or outdated by a worker of another registration).
Every card is taken to have a page that exists; equal results, which the code does not
draw again, are shown again.  `Optional` names the handlers present.

### LruList, Lru, Janitor (`src/core/cache.rs`)

`LruList` is the hash map with its links and byte count, each helper an operator on
the whole structure so that they compose as the calls do.  Its abstract
specification `Lru` is a sequence of keys; `InOrder` states that the walk along
the links implements it.  `Janitor` is one pass of cleanup_disk_cache as operators
over a directory: the stable sort is an order on its files, `Earlier` the files the
loop has come to before one, `Over` its condition after those, `Tried` how far it gets.

Two small modules are shared with the other caches (previews of ScrcpyForge, frames of
a pet): `Sums`, the sum of a function over a set, and `UseOrder`, the order in which keys
were used last, with what retain leaves of it.

### RuntimePolicy, Runtime (`src/core/runtime_policy.rs`, `src/core/runtime.rs`)

`RuntimePolicy` holds the pure functions: `Evaluate`, the quiet window and its
boundaries, the battery stages.  `Runtime` is RuntimeManager: `manager` its cells,
`order` the remembered agent events, `channel` the one-place channel of each
subscriber, `held` and `inhibitors` what the desktop consumer believes and what the
session keeps.  Every handler ends in `Recompute`, as in the code: evaluate,
broadcast a snapshot that differs, arm the one timer.  Handlers run on the main
loop and do not interleave; consumers run between them.

| Action | Code |
| --- | --- |
| `ReportActivity`, `SetMapped`, `SetActive` | the controllers of setup_lifecycle and setup_runtime_consumers |
| `SetThermal`, `SetBatteryCapacity`, `SetPowerSource` | the power sampler's calls |
| `UpdateConfig` | update_config |
| `BeginInteraction`, `DropInteraction` | begin_interaction, InteractionLease::drop |
| `AgentStarted`, `AgentEvent`, `ClearAgent` | the pet card's calls |
| `RebuildPages` | rebuild_pages as far as the runtime sees it |
| `DeadlineReached` | the timer closure of schedule_deadline |
| `Subscribe`, `Unsubscribe`, `Receive`, `FollowSnapshot` | the subscribers and the desktop consumer |
| `Shutdown`, `DesktopEnds` | shutdown and the end of the consumer |

Left out: reasons that another field tells, the idle view, the remaining seconds of
attention, the power verdict (it decides nothing).  Instants are seconds; a timer is
at most one second late, while the glib timers are monotonic and wait out a suspend
of the system.  The code reads the local clock twice in a recompute: an hour that
turns between the two reads is missed by the timer until the next sample of the
power sampler.  A lease dropped after shutdown arms the timer once more; handlers
after shutdown are left out.

### Controller (`src/window.rs`)

The main loop around the scheduler, which is reduced to when each card is due (`due`;
times count down from now).  `timer`, `wake` and `pc` are the sleeping loop, `done` the
bounded channel of completions, `runs`, `leases`, `results` and `busy` the actions.

| Action | Code |
| --- | --- |
| `Sleep`, `Awake`, `AwakeClosed`, `Turn` | the loop of start_scheduler_polling and its select, which prefers the timer and leaves the message |
| `StartCard`, `SkipCard`, `Publish` | the loop over ready cards; a schedule that does not evaluate is published by the loop itself, which then waits for room |
| `Collected`, `Receive` | the end of a worker and start_metric_receiver, reduced to the slot |
| `Request` | whatever changes the scheduler and then wakes the loop |
| `Invoke`, `InvokeEmpty`, `CommandEnds`, `PublishAction`, `ReceiveAction` | run_action with its lease, start_action_receiver |
| `Close`, `Tick` | the end of the window; time |

### FixedSchedule (`src/core/schedule.rs`, `src/window.rs`)

One card `daily@...`: `Period` and `NextDelay` are the period key and the cut-off delay
of evaluate; `PollCached`, `PollCollect`, `PollWaiting`, `PollUnevaluable` the branches of
the window on them; `Collected` and `CollectionFails` keep the slot and the deadline of
the poll.  `StartApplication` needs the schedule to evaluate, as the loader evaluates it.
Time runs in half seconds, since the delays are whole ones.  `unclear` are slots a clock
change makes ambiguous or impossible; such a day does not evaluate.

### ConfigRules, LegacyFields (`src/core/config.rs`, `loader.rs`, `config_cli.rs`)

Pure.  `ConfigRules`: durations and defaults as written and read back
(`FormatDuration`, `ParseDuration`, `Written`), what the loader accepts of a card, an
action and the runtime section, what the settings page can set, and the policy a card
runs under (`TaskPolicyOf`).  `LegacyFields`: the conversion of the runtime tables of a v3
document field by field.  `TableInputs` holds the inputs the tables are checked over.

### ConfigDocs, ConfigStore (`src/core/config/loader.rs`, `src/application.rs`, `src/window.rs`)

`ConfigDocs` is `Merge`, the root and its modules in order with the rules of replacement,
and the way back: `Saved` puts every change into the document that owns it, `Ensured` and
`Upserted` add entries.  The app, ui and runtime sections are one section of settings.
`ConfigBook` takes what a configuration is made of as one record.
`ConfigStore` is their life:

| Action | Code |
| --- | --- |
| `Begin`, `Quit` | build_app: load or write the default, generated modules |
| `Edit` | another program writes a document |
| `SetLevel`, `ToggleCard` | the settings page: memory, then the documents one by one; `SaveWrites` says how many succeed |
| `FileEvent`, `WindowPasses`, `TimerFires`, `Reload` | setup_config_monitor with its debounce, do_reload_config, which reads the root before the modules |

### Migration (`src/core/config_cli.rs`)

`Migrate` refuses or begins; `WriteTemporary`, `Backup`, `Install`, `Validate` are one file
operation each, `Unlink` and `Restore` those of rollback_documents.  Each may fail
(`Fails`), the command may die between any two (`Crash`), run again, and the application may
start and write a root where there is none.

### PetFrames, PetCard (`src/plugins/pet_card/runtime.rs`)

`PetFrames` is the loading of an animation within its limits and the cache of frames.
`PetCard` is the controller, one action per callback: `LoadState`, `Read`, `Loaded` (a load
that was overtaken is repeated), `BecomeReady`, `GoOffline`, `ResetSize` (the three
timers), `FramesLoaded`, `AnimationEnds`, `Map`, `Unmap`, `DeliverSnapshot`, `Select`, `Choose`,
`Present`, `Destroy`.  Timers have no durations: the configuration allows them in any order.

### ForgeService, ForgePage (`src/plugins/scrcpy_forge/service.rs`, `page.rs`)

`ForgeService` is the client: metadata fetched in pieces under its lock (`StartSnapshot`,
`FetchResource`, `FetchedAll`), previews asked concurrently with the tag of the picture
held (`AskPreview`, `AnswerPreview`, `PreviewTask`), calls that change the service (`Post`,
`InvalidateMetadata`).  The service itself is external: versions, sessions, pictures.
`ForgePage` is the switch (`SwitchOn`, `SwitchOff`, `StopDone`), the stop tasks
(`ShutdownAnswered`, `Reap`), the health loop and the loop of snapshots with its gate.  A
loop's rest may end at any time, as a timer is always among what wakes it.  The health loop
does not look at the switch again when its answer comes: a service that was turned off while its
health was asked for may answer well, and is then turned on again and asked for snapshots.
`SwitchFollowed` says that this happens once at most: the history variable `refused` tells
whether the user wants the page off, and whether a question from before he said so is
still under way; while he does, the page is off.

### Subprocess (`src/execution/subprocess.rs`)

One call of run_command_with_cancellation.  What processes do is external (`Fork`, `Write`,
`Exit`): they may fork into the group or out of it, with the pipes or without, write, and ignore
SIGTERM; they are followed until the call returns.

| Action | Code |
| --- | --- |
| `Begin` | the check of the cancellation and the spawn, which may fail |
| `Read`, `ReadEnds` | read_limited of each pipe: up to the limit it keeps, beyond it it reads on |
| `ChildEnds`, `Completes` | child.wait and the join with both readers |
| `TimesOut`, `GivesUp` | the other branches of the select, and a pipe that fails |
| `Kill`, `Reap` | terminate_child: SIGTERM to the group, 250 ms later SIGKILL, then the wait |

`patient` stands for a timeout longer than all that happens.  The escape sequences of
clean_output and the environment of a command are left out.

### PowerSupply, NetworkWatch, PowerMetric (`src/core/power_supply.rs`, `src/sources/`, `src/window.rs`, `src/metrics/power.rs`)

A reading is the number of changes there were; changes may come without a signal, and signals
without a change.  Time is what is left of each timer and the age of each snapshot.

| Action | Code |
| --- | --- |
| `Notify`, `SamplePower`, `SampleThermal`, `Configure` | queue_power_sample and the two samplers with their clamped fallbacks; the event of the window that invalidates the battery source is part of the sample |
| `Collect` | a card at BatterySource::snapshot |
| `Signal`, `WatchdogFires`, `Publish` | setup_network_monitor |
| `Snapshot` | NetworkSource::snapshot, with a bus that may be gone |
| `Unread`, `Unavailable`, `Implausible`, `Rest`, `Sample` | the returns of PowerMetric::collect |

Left out: which supply or bus says what, the values, and the mutex of a source, which the
main loop takes too.

### Instances

`MCScheduler`, `MCCache`, `MCCollection`, `MCRuntime` and `MCPet` give values to one
module; `SchedulerClaims` holds a claim of the documentation the code does not keep.  The
other three put independent machines into one state space, so that each run asks one
question of a layer:

* `MCTables`: `table` chooses a pure part and `input` one of its inputs; the one step looks
  at it.  The table "memory" is the LRU list, which takes any sequence of calls.
* `MCLoops` and `MCServices`: `machine` chooses in the initial state which of the
  instances moves in this behaviour; the variables of the others rest, and their
  properties say nothing of it.  The machines do not share state in the code either
  (the places where they touch are actions of each: `Request` of `Controller` is what a
  source event of `Collection` does to the loop, `DeliverSnapshot` of `PetCard` what
  `Receive` is in `Runtime`).  Liveness is stated as `[]<>` of a condition the resting
  machine satisfies at once.

## 4. What the runs show

| Run | Properties | Shows |
| --- | --- | --- |
| paired | OneLiveEntry, NoReentry, PermittedStart, HeapBounded, ResumeSpread, AnchorsKept | a card that is expensive or normal next to one that is expensive and has a fixed schedule; quiet hours, caps, reload slots, rebuilds with workers in flight; the heap bound is set to 3 so that compaction happens |
| reload | TypeOK, NoLostRevision, ReasonKept, NoLostWakeup | one card whose page, policy and schedule a reload may change, periodic, event-driven or fixed, with toggles, reconciles, two revisions, failures, page switches, suspension, and a worker that may outlive its registration |
| current | DiskClean, CommitCurrent, ShownCurrent | three workers, two events, restarts: neither the file, nor a fresh load, nor a shared sample shows a value from before the last event |
| ends | TypeOK, EveryRunEnds | two workers, oversized results, removals of the source, restarts, failing chmods: locks are held by exactly the worker in their section, and every worker delivers |
| loops | CurrentShown, EventFollowed, SlotReturned | two cards of one source with a signal, two workers, two budgets, one place in inbox and channel, so that evictions and waiting senders happen |
| | LoopWakes, CardsServed, LoopsEnd | two cards, one of which the loop publishes itself, an action with a linked card, one place in each channel |
| | SwitchFollowed, LoopsEnd | two daemons, two stop tasks at a time, questions of health answered before and after the switch is moved |
| | CommandContained, LoopsEnd | a command with one descendant, pipes that hold one unit, a limit of one, two writes to each |
| services | DeadlinesMet, SnapshotsFollowed | the runtime: two configurations, a dialog's lease, quiet hours across midnight, two subscribers; the clock is unbounded |
| | PetFollows | the pet's timers under five contents of the file; its frames with two animations that do not both stay in the cache |
| | ForgeTruthful | two devices with pictures of three sizes; metadata of two resources under two changes |
| | ConfigFollowed | two modules, edits that are refused, partial or change what is watched, failing saves, two starts |
| | NoDocumentLost | three documents, two runs, two failures, a crash anywhere |
| | SensorsFollowed | configured periods below, within and above the bounds of a fallback, two changes, a bus that goes and comes; a window of three samples |
| | SlotFollowed | two slots a day for two days, a slot that is not unique, two starts |
| tables | IntervalsRespected, EdgesHold, DirectoryTidied, LoadedIsRunnable, DocumentsKeepValues, MigratedFits, FramesSettle, BytesCounted, InOrder | every policy with intervals up to 3, every quiet window of 24 hours, all accepted thresholds up to 6 percent, every directory of up to three files, cards, settings and actions around every bound, every merge of a root and two small modules with one change, v3 tables of up to three fields, animations of up to three paths; of the memory cache, every sequence of calls over four keys, three places and sizes up to one that does not serialize |
| hidden, mistaken, resurrected, pageswitch, stale | one claim each | violations, section 5 |

Several of these are conjunctions of the named properties of a module (`PetFollows` is
`FileFollowed`, `AgentForgotten`, `PresentationFollows`, `AnimationFollows` and `FramesFollow` of
both instances); the module states each with its reason.

### Bounds

Of the scheduler (`MCScheduler`): `Horizon` stops the clock,
`MaxGenerations` bounds the sum of generations, hence the number of operations;
`MaxHeap` the heap; `MaxSeed` the registrations; `MaxFailures` the backoff.  They
are enough because the hazards are short: a stale entry needs one bump, a lost
wake-up one bump more, a double one registration more.  `Workers` has one name: an old worker
and a card registered anew that is idle, or runs with a worker that never reports, are
enough for every property but the last part of `NoReentry`, that no second worker of a card counts,
which is left to its proof.  A `Horizon` of 1 has instants before, on and after a slot, and the
coalescing window reaches beyond it.  The run `paired` leaves the settings switch out; of the entries
it revives see section 5.  Cards are numbers, as the
heap and the resume cursor order by id, so symmetry would be unsound.

Of the cache (`MCCache`): `MaxEvents`, `MaxSeed`, `MaxNodes`; two events and three workers
let one worker be overtaken by a whole collection of a second while a third waits
with a token of its own.  Workers are interchangeable, hence the symmetry of the
run without liveness.

Of the loops: generations up to 3, one event per source between rebuilds, one rebuild (two
in `mistaken`); an old worker needs a second registration and a second worker to meet, an
eviction a second card.  `MaxClicks` 1: a second click while the first run is under way does
nothing, and one after it meets the same state but for the number.  `MaxStarts` 2: an old
daemon and a new one.

Of the runtime: `MaxSeen`, and durations of one or
two seconds, among them a lease longer and one shorter than the idle timeout; states
are compared by the distances of instants from now (`View`), as nothing depends on
more, so no bound on the clock is needed.  `SetThermal` reports the verdict that was
known, as in the runtime it only recomputes; the caps are checked in `tables`.

Of the services: two writes of the state file, so that one overtakes the load of another; two
edits, two changes and one failing save of a configuration, so that a save meets an edit it
has not seen; two runs and two failures of the migration, so that a rollback fails in its
turn; four versions and two changes of the service, so that one falls into a fetch.  A day
of `FixedSchedule` has ten half seconds: each slot is woken before, on and after it.  Of the
sensors, durations of one to five keep the order debounce, life of a snapshot, fallback; two
changes let a second one fall between a signal and its sample.

Runs that stop at such a bound (`loops`, `services`, `tables` and the violations) have
CHECK_DEADLOCK FALSE.

Every property of a passing run is violated within its bounds by a one-line mutation
of the code (PROJECT.json, "mutants").

### Fairness

* `EveryRunEnds`: the gate of a node and the permits are
  tokio semaphores, which hand over in the order of the requests: a worker that is
  enabled again and again is served, hence strong fairness of `Work`.  The main loop
  ends the event it has begun: weak fairness of `InvalidateCache`.
* `SlotReturned`: the executor runs every worker to its end (which `EveryRunEnds` shows of its
  locks) and the main loop serves the channel, weak fairness of `Publish`, `Send` and
  `Receive`; no card is assumed to start.
* `CardsServed` and the end of the loop with its window (`LoopEnds` in `LoopsEnd`): time
  passes, the main context runs its sources (weak fairness of
  `Tick`, `LoopStep`, `Receive`, `ReceiveAction`), and those that wait for room in the channel
  are served in turn (strong fairness of `Publish` and `Collected`), as a bounded tokio channel
  does.  That a worker ends is what its timeout gives it.  No click or request is assumed.
* The switch stops (`StoppingEnds` in `LoopsEnd`): the shutdown request has a timeout, the child is killed after the grace, and
  the main loop receives the message: weak fairness of `ShutdownAnswered`, `Reap`, `StopDone`.
* A command returns (`CommandReturns` in `LoopsEnd`): the executor polls what is ready, weak fairness
  of `CallStep`, and a timeout that may come does, weak fairness of `TimesOut`.  Its processes
  owe nothing.

Everything else is a safety property.

### Exemptions

`NoLostWakeup`, `ReasonKept` and, of the reason of a start, `PermittedStart` exempt the cards in
`mistaken`: those that the completion of a former registration has reached while they were idle
and that have not started since.  There the code does lose the reason or the entry (section 5,
"mistaken").

`EventFollowed` exempts values lost on the way: evicted from the inbox, or outdated by
the completion of another registration.  It is stated for cards without a fixed
schedule, as a budget change asks only those again.

`CapsRespected` (in `IntervalsRespected`) exempts cards throttled without an explicit
interval.  For those the table is not monotone: idle at Full is treated as Minimal, while
idle under a cap to Reduced is treated as Reduced, which collects more often.
`DirectoryTidied` exempts files that cannot be removed.

`FramesSettle` exempts an animation that shows a picture twice and does not fit
(`CutRepeat`): the picture at which it was cut is remembered as failed, and is missing
the next time the animation is loaded.

`ConfigFollowed` is stated while the monitor is installed and the last save succeeded;
`AddTakesEffect` (in `DocumentsKeepValues`) unless a module behind the selected one
defines the same id.  `SlotFollowed` says nothing of a card whose last collection failed.

## 5. Where the code and its documentation disagree

* **hidden.**  `docs/RUNTIME_POWER.md:130-135` promises to preserve manual and
  event requests.  Hiding a page gives every idle card on it a new generation and
  pushes nothing.  If a request was queued, its entry is now stale; run_once stays
  set, so every later request on that card returns early.  It stays unserved until
  the page is shown again or a permit changes.
* **mistaken.**  `src/window.rs:3197-3200` and `src/core/scheduler.rs:341-344` say
  that generation and epoch make the completions of old workers harmless.  A task
  takes its first generation from a seed that live tasks do not move when they
  advance.  With one card at seed 1: a budget change advances it to generation 2, it
  starts, the page tree is rebuilt and the card registered with seed 2, it starts
  again.  The completion of the first worker has the generation of the second run; its
  epoch does not match, so it is treated as stale and gives the slot back.  The second
  worker's completion is then outdated, and the value the card waits for is dropped
  until the next period.  The same reuse lets a card switched off and on have two live
  entries in the heap, one of them of its former life.

  The completion may also find the new registration idle, as nothing compares but the
  generation.  If a one-shot is queued that no source revision backs, a click or a reload, its
  pending_reason is cleared (`src/core/scheduler.rs:902`) and it is put off by a period, while run_once
  stays set; without a reason it may run in quiet hours, also where a reload asked for it.  If the card
  is driven by events (`:908-911`), or in quiet hours (`:926`), its generation advances and no entry
  is pushed: what was queued, its first run too, is stale, later requests return early on run_once,
  and the card waits for a change of permit or page.  One that waits for its period, with nothing
  queued, is only moved to the next.
* **resurrected.**  `src/core/cache.rs:396-397` says that a source event cannot be
  followed by a replay of old data.  The last-good fallback reads the file after its
  worker has released the gate and inserts it in the memory without comparing
  generations.  Between the two an event, a whole collection and its commit fit: the
  source is clean, and the next fresh load is a hit on the entry from before it.
* **pageswitch.**  `docs/RUNTIME_POWER.md:172` says that only real input extends the
  observation window.  A rebuild after a change of the configuration file empties
  the stack and selects a page; the handler of the visible page reports both as
  PageSwitch of the user, which renews the lease of a mapped window: in quiet hours
  a file event resumes unattended work for a lease.
* **stale.**  `docs/PET_CARD.md:140` says that stale state returns to offline.  A done event
  arms two timers, the end of its hold and the end of its age, in no order: a file may be
  almost stale when it is read at start, and the configuration does not compare the two.
  When the event goes stale first the card shows offline and leaves the other timer armed,
  which then shows ready; that state has no timer to end it, and stays until the file is
  written again.

Seen while modelling, without a run:

*Scheduler and collections*

* A click on a card that a reload has queued at a slot raises the reason and leaves
  the slot, though the comment at `src/core/scheduler.rs:133-135` says that requests
  are never put behind it.
* After quiet hours overdue expensive cards get slots 500 ms apart; a change of work
  level before those slots recomputes them without a cursor, and all are due.
* Backoff is forgotten by any rescheduling, which starts again from the last
  success; a page shown runs its fixed schedules at once; the first periodic run of
  an expensive card after a follow-up is not slotted.
* A value of an earlier registration with a greater generation keeps the first value
  of a new one out of the inbox: its run ends without a value, and the card says
  "loading" until the next period.
* A rejected completion does not reset the refresh button, which stays insensitive
  until a later projection.
* `RefreshCoordinator::unbind_task` of the last dependent forgets the revision, so that the
  next one starts again from the first.
* The in-place branch of apply_config_reload is never taken: any change of a card is
  a change of the page graph.

*Fixed schedules*

* The comment at `src/core/schedule.rs:18` says that a missed slot still runs; evaluate looks
  at the slots of the day only.  A slot of yesterday that was missed while the program was
  off is not run, and the card says "waiting" until the first slot of today.
* A slot whose collection failed is not tried again before the next one: the deadline goes
  before the backoff.
* On a day a clock change makes one slot ambiguous the card is an error all day, and a
  configuration loaded that day is refused as a whole.

*Cache*

* `forget` drops the dirty flag and keeps the file: a card removed after an event
  and added again within the time to live replays the value from before it.
* A forgotten source starts again at the shared seed, which its own increments did
  not move, so that its generation can meet the token of a worker of its former
  life; that worker then commits.
* If the second set_permissions of a store fails, the file is new, the memory keeps
  the old entry and the dirty flag stays.

*Configuration and migration*

* A save writes what memory makes of a document: an edit the monitor has not delivered yet, or
  never does because reload_on_change is off, is overwritten.
* A save of two documents of which the second fails leaves the first on disk; when the user
  then reverts the change, memory equals the copy and nothing is written back.
* reload_on_change switched off takes effect at once, switched on only at the next start.
  The timer of the debounce does not move last_reload, so an event right behind it reloads again.
* A root without pages takes the pages of the shipped configuration, and the generated page of
  ScrcpyForge then does not merge and is dropped with a warning.
* A field of a card's UI override that goes from a value to none cannot be recorded in a module.
* An application started between the backup and the install of a migration, or after a crash
  there, writes the shipped root; the original is in the backup, which makes the next
  migration refuse.  Two migrations at the same time are not kept apart.

*Commands*

* The end of the application cancels the commands and does not wait for them: one that ignores
  SIGTERM may outlive it, as the SIGKILL comes 250 ms later.  A descendant that left the process
  group is not reached, and one that did so with the pipes in hand holds the call to its timeout.

*Sensors*

* The window of the power average measures pauses with Instant, which does not run while the system
  is suspended: a suspend is not seen as a gap, only a long time without a collection is.
* An implausible power returns before the status is compared: an average of the time before a
  change of status is shown, as cached, under the new one.
* Samplers read the configured period when they arm their timer: a shorter one is taken up after
  the longer one has passed.
* The main loop takes the locks of the battery and network sources, which a worker holds while it
  reads sysfs or waits for the bus.
* `src/metrics/cpu.rs` subtracts the idle difference from the total one unchecked: a counter other
  than idle or iowait that goes back makes it wrap in a release build, which counts as 100 percent.

*Pet card*

* An event of an older task that is written late is reported to the runtime and takes the
  place of the newer task.

*ScrcpyForge*

* A health answer that arrives after the switch was turned off, while the daemon still
  answers, turns it on again and ends "changing".  A failed answer right after a start turns the
  switch off while the daemon keeps running without being asked for its health.
* The rest of 3600 s of a stopped page is cut by the clamp of 300 s.  Turning the switch on
  does not wake the health loop; turning it on while a daemon stops is ignored.
* What was decoded is rendered without looking at the mode again.
* set_profile does not invalidate the metadata; a call that was done and whose answer was
  lost leaves the metadata of before it until the time to live ends.

## 6. What is proved

Eight modules hold the proofs: `SchedulerProofs`, `CacheProofs`, `ControllerProofs`,
`SubprocessProofs`, `SharedLemmas`, `LoopsProofs`, `ServicesProofs` and
`TablesProofs`.  The last three are about the properties of the runs `loops`, `services` and
`tables`; `LoopsProofs` takes over, by INSTANCE, what `ControllerProofs` and `SubprocessProofs`
prove of one machine, and the machines that rest keep every invariant of the one that moves.
`SharedLemmas` has what several of them need: sums over sets, orders of use, the boundaries of
the quiet hours, the frames of an animation, and the documents of a configuration.

| Theorem | Says |
| --- | --- |
| `TypeCorrect` | `Spec => []TypeOK` of the scheduler |
| `NoLostRevisionAlways`, `ReasonKeptAlways` | from `Flags`, the invariant relating running, run_once, pending_event and the revision maps of a task; each of the two is a conjunct of it or follows at once; for any `Optional` |
| `NoLostWakeupAlways` | for any `Optional`; like `ReasonKeptAlways`, but for cards in `mistaken` (section 4, exemptions) |
| `OneLiveEntryAlways`, `NoReentryAlways`, `PermittedAlways` | for `Optional = {}` |
| `AnchorsAlwaysKept`, `ResumeAlwaysSpread`, `HeapAlwaysBounded` | the action properties of the scheduler, for any number of cards |
| `LocksAlwaysHeld` | `TypeOK` of the cache: every lock has one holder, at a step that holds it; for any upsets |
| `FileStaysClean`, `CommitsAlwaysCurrent` | for `Upsets \subseteq {"restart"}` |
| `ShownAlwaysCurrent` | for these upsets and `Outcomes \subseteq {"healthy"}` |
| `ShownCurrent`, `EventAlwaysFollowed` | what a card shows, and that what it misses is on its way, of `Collection`; for any `Optional` |
| `LoopAlwaysWakes`, `SwitchAlwaysFollowed`, `CommandAlwaysContained` | `Controller`, `ForgePage`, `Subprocess` |
| `DeadlinesAlwaysMet`, `SnapshotsAlwaysFollowed` | `Runtime`, with a clock without bound |
| `SensorsAlwaysFollowed` | `PowerSupply`, `NetworkWatch`, `PowerMetric` |
| `DocumentsAlwaysKept` | `Migration` |
| `ConfigAlwaysFollowed` | `ConfigStore`: the configuration in use is that of the disk once no event, timer or reload is left, and a saved change survives a restart, for any documents and any number of edits, changes, failing saves and starts |
| `SlotAlwaysFollowed` | `FixedSchedule` |
| `ForgeAlwaysTruthful` | `ForgeService`: metadata, previews and the bounds of their cache, for any services |
| `PetAlwaysMoves`, `PetAlwaysFollows` | `PetCard`: everything of `PetFollows` but `FramesFollow`, for any pets; and all of it where the pictures of each animation fit its limits |
| `AlwaysSettles`, `FramesAlwaysSettle` | `PetFrames`: an animation loaded again is the same, for any list of pictures and any limits; and the rows of the run |
| `BytesAlwaysCounted`, `AlwaysInOrder` | `LruList`: the count of the memory cache is exact and within its bound, and the linked list implements `Lru` (a refinement, proved step by step) |
| `DirectoryAlwaysTidied` | `Janitor`: a pass over any directory leaves it within its bounds, takes the oldest first and no more than it has to |
| `RuntimeAlwaysFits`, `MeaningAlwaysKept`, `CardAlwaysFits`, `MigratedAlwaysFits` | `LegacyFields`: the conversion of a v3 table of any fields; and the rows of the run |
| `IntervalBounds`, `IntervalsAlwaysRespected` | the interval table, for intervals of any length |
| `LoadedAlwaysRunnable`, `AcceptedIsRunnable`, `SettingsAlwaysAccepted`, `ActionsAlwaysBudgeted` | `ConfigRules`: the rows of the run, and the rules for any card, settings and action |
| `CardsReadBack`, `DurationsReadBack` | `ConfigRules`: what a card or a duration is written as is read as that, for any card |
| `EverySaveReloads`, `EverySaveIsLocal`, `EveryCardIsAdded`, `DocumentsAlwaysKeep` | `ConfigDocs`: the next load merges what was saved, a save leaves alone what owns nothing of the change, and an added card is shown, for any modules, settings and entries; and the rows of the run |
| `EdgesAlwaysHold`, `StageHysteresis` | quiet windows of days of any length; the battery stages, for any thresholds the loader accepts |

### From which assumptions

The constants are as the named ASSUMEs have them, which TLC evaluates in the runs:
`WorkPolicyAssumption`, `SchedulerAssumption` (cards are a finite set of numbers),
`CacheAssumption`, `CollectionAssumption`, `RuntimePolicyAssumption`, `RuntimeAssumption` (a
longest lease, and durations that are numbers), `LoopsAssumption` (those of `Controller`,
`ForgePage` and `Subprocess` at the instances of `MCLoops`), `SensorsAssumption` (the code's
constants: a reading lives, and a period has something between its bounds),
`ScheduleAssumption` (the times of a schedule lie in a day, which the parser sees to, and
there is one), `MoveAssumption`, `LibraryAssumption`, `TablesAssumption`, `DirectoriesAssumption` (files are numbers,
ages may be negative, sizes are not), `LruListAssumption`, `MachinesAssumption` and
`PetsAssumption`.  Apart from these the sets, numbers
and bounds of the cfg files are arbitrary; the operation counts that bound a run may be as
large as one likes.

Some theorems need a hypothesis more:

* `Optional = {}`: the settings switch removes one card and leaves its entries in the heap, where
  a later registration brings one to life again (section 5, "mistaken"), and `OneLiveEntry` is
  false.  The proofs of `NoReentry` and `PermittedStart` rest on it.
* `Upsets \subseteq {"restart"}`: a source that is forgotten loses its dirty flag, and a
  permission change that fails leaves it set with a new file (section 5, under "Cache").
* `Outcomes \subseteq {"healthy"}`: the fallback of a failed run fills the memory outside the gate
  (section 5, "resurrected").

These are the constants of the runs `paired` and `current`; the runs `reload` and `ends` have the
handlers and outcomes that are excluded here.

`LruListAssumption` says that neither an entry that serializes nor a full cache comes near the
largest address: a serialized entry is one allocation, which Rust keeps to half of the address
space, and the limit of the cache is a few megabytes.  Without it a sum that saturates could
not be told from one that does not.  An entry that does not serialize counts as the largest
address itself, and is not excluded.

`Pets` and `Forges` are the pets and services a behaviour of `MCServices` may be of, and its
instances of `PetCard` and `ForgeService` take one of them as a parameter: the theorems are about
every such family, the run has two of each (`TwoPets`, `TwoForges`).  `PetsAssumption` and
`MachinesAssumption` say that machines have different names, sizes are numbers, a card is built
in the normal size and None is none of their values.

`PetAlwaysFollows` has the hypothesis `AnimationsFit`: the pictures of each animation fit the limits
of frames, pixels and bytes, and one file name is of one picture, as in one directory.  Both pets of the
run satisfy it.  Without it the frames shown may be those of an animation loaded in part, which
depend on what failed before: what holds then is `AlwaysSettles`, with its exemption (section 4).
The frame cache itself may be too small for an animation.

`DocumentsAssumption` takes None to be no value, and none of the records of text: it stands for a field
that is left out (in the runs it is a model value); and it has the two small modules of the table
`Wellformed`.  That is what the theorems about saving suppose of a configuration, whose parts they
take as one record (`ConfigBook`): its settings are tables of the same fields, each with values of its
own, no two modules have one path, and what stands for no document, no section and no configuration
is none.  What they suppose of the configuration that is saved (`MayBeSaved`) is what the settings page
gives: the merge of the documents did not fail, and no id of it was dropped or is there twice.

`LibraryAssumption` is about the documents of `ConfigStore`: its parts are `Wellformed`; whoever writes a
document that can be read writes a root or a module, and what cannot be read or is not there is neither;
the shipped configuration is a root, and `AppConfig::default()` merges; settings have a level and a switch
for the monitor, entries an id and a switch; and the settings page offers no level that the loader
refuses where it accepted the one before.

### Along which argument

The argument is the same throughout: an invariant, one lemma per action (or per group of
them) that it is preserved, and the temporal step.  The invariants say more than the
properties, which are seldom inductive:

* **Scheduler.**  `NoLostWakeup`: the proof adds what each phase of the loop owes to cards that
  are not runnable yet (a suspended or quiet card has its run_once flag or a generation that the
  lifting handler will bump) and that an entry set aside comes back.  `Flags` says of each task what relates
  its flags and revisions however it was completed (`Sound`), and what its reason does as long as no
  completion of a former registration found it idle (`Reasoned`).  `Queue`, for the three
  under `Optional = {}`: no entry carries a generation its card has not reached, ready,
  running and queued cards are disjoint (`Apart`), and a worker of a standing registration whose
  generation is current is the one of a running card (`Flying`).  For `PermittedStart`, `Awake` adds
  that what poll and next_task have before them is not of a suspended window.  Lemmas about `Requested`, `Finished` and `Compacted`
  state once what those operators keep.  `ResumeSpread` and `HeapBounded` count sets: of two
  overdue cards the cursor has fewer before the first, and what compaction keeps is at most
  one entry per card.
* **Cache.**  `TypeInv` has, for each stage of a worker, the locks it holds.  `StoreInv` adds what
  the file, a flushed entry and the locals of every worker between two lock sections say of the
  last event the cache was told of, as far as their token is current: a sample under such a token
  has seen it, and the worker that commits keeps the token to the end.  `LoadInv` adds that while a
  load reads what an event has made old no worker has a current result (`ReadersAlone`), since
  the gate of the one node lets one of them load and collect at a time.
* **Collection.**  That a completion passes the checks of the receiver says nothing of events.
  `Tokens` adds that a worker whose token holds has missed no event and that some card still uses
  its source, and `Bindings` that the coordinator knows exactly the registered cards.  With both,
  an event that concerns a worker with a valid token has a dependent with its source, and
  retires the token; a source no card uses is pruned, which retires it too.  `Completions`, that
  each worker in the channel is in flight and there once, keeps the locals the receiver
  looks at.  For `EventFollowed`, `Owned` adds that a worker of a standing registration has its
  source, a generation it has had and, under a token that holds, the budget and the newest revision;
  `Alone` that a generation has one such worker; `Overtaken` that a worker which has seen every event
  and lost its slot leaves a card that misses nothing but values lost on the way.
* **Controller.**  `Leases`: the lease of an action is held once, by a run that has not sent its
  completion; `Awaited`: a control with a spinner has a run or a message that clears it.
  `NoOversleep` is inductive with the types of what the loop is sending.
* **ForgePage.**  The property with the types; `PageStops`: while a daemon stops its service is
  not available, whatever the user does; and `PageRefused`: while the user wants the page off, with no
  question from before he said so, no question of its health is under way.  There is always a number for another stop task.
* **Subprocess.**  `Pumped`: what was written to a pipe is in it or was read, up to the limit, and a
  pipe that ended has no writer alive; `Output`: this holds on after the call completed.
  `Reaching`: once the group is killed nobody of it is alive, as whom the others fork is not of it.
* **Runtime.**  `Covered`: while the timer is not due, the snapshot is what its facts give now and
  no instant in `Deadlines`, at which an expiry or a boundary of the quiet hours changes them, comes
  before it.  A tick keeps it because nothing between two deadlines depends on the clock; of the
  quiet hours `SharedLemmas` shows that their boundary is announced a second before.
  `Withheld` is what a hidden window has, `Allowed` what a lease may last since it was granted.
* **Sensors.**  What has passed since an edge and what is left of its timer make up the debounce;
  what has passed since a change without one and what is left of the fallback or the watchdog are
  no more than its longest period; the warmth of a reading takes from the bound of the cards.  The
  window of the average is one stretch: its ages fall, neighbours are less than a gap apart, and
  its status is the last one seen; what is trimmed is a suffix.
* **Migration.**  `Progress`: where each phase has brought each document of the run, in its order or
  backwards.  `Preserved` is `NoDocumentLost` with the fact that nothing becomes a v3 document
  that was not one, so that a later run that finds one may move it.
* **FixedSchedule.**  What a card shows or waits for is of one evaluation at an instant before now,
  its slot and its deadline together; no slot lies between an instant and its next slot (`NextIsFirst`,
  `PeriodIsLast`), and the cut-off delay ends less than a second behind it (`DeadlineBound`).  The
  slot on disk is the last that was kept, and a collection under way is for one behind it.
* **ForgeService.**  The lock of the metadata is held exactly while they are fetched, so no call is
  reported meanwhile; what a fetch has read, and what is held, is no older than the last report.
  A preview that is held is a picture of its own URL, none newer than that of the service, and a
  task has one no older than its question (`ForgePreviewInv`, `Cached`); the order of the cache has each key once, and its
  total is a sum over the keys, of which an eviction takes the oldest as one set.
* **PetCard.**  A read that was not overtaken has the content of the file, unless an event of it is
  still to come.  Of the controller only the fields count that a size depends on: what a state does
  to them (`StateSizes`) holds whatever the frames and their cache are.  Of the fields that are drawn
  (`PetDrawnInv`): an animation that runs is of the state shown, under the policy last applied, on a
  mapped card with frames, and a loop that may move does; the cache is consistent, and no state that
  is being loaded is in it; what is remembered as failed cannot be decoded, so that leaving it out of a
  later load changes nothing (`Fitted`).
* **PetFrames.**  Loading is a loop with two budgets.  `Loads` is its sequence of results, one
  per path, and leaving out paths that fail whenever they are tried maps it onto the sequence without
  them (`LeavingOut`); a prefix within the limits is kept as it is (`BytesSoFar`).
* **LruList.**  Between two calls one sequence S of the keys is joined by the links from head to
  tail and back (`Listed`), and the count is the sum of its sizes.  `Detached` takes a key out of
  it and `Attached` puts one behind it (`DetachedChain`, `AttachedChain`).  The loop of an
  insertion has an invariant of its own, as its count may be wrong inside a call: an entry that does
  not serialize saturates it, and what the saturation lost is at most the bound of the cache, so
  the loop takes that entry too and ends with an exact count (`EvictedListed`).  The sequence is
  that of `Lru`: the walk along the links is S (`WalkIs`), the loop leaves the longest suffix that
  fits (`KeptIs`), and every call is a step of `Lru` or a stutter (`ListNext`, `ListStutters`).
* **ConfigDocs.**  `Layers` is what merging has after each module, `Layer` what is true of it: an entry
  is that of the last document with its id (`Sourced`), and the ids are those of all documents.  A save
  changes an entry only in the last document that has it, so that every layer of the saved documents
  is accepted where the one before it was (`SoundUpTo`), and the last shows the saved entries.  The
  settings: behind their owner no module has any, so it suffices that the owner's overrides yield
  the saved settings from those below it (`SavedSettings`), of which it records only what changed.
* **ConfigStore.**  `StoreInv`: the documents the program has in memory merge, the configuration in use has
  their ids and is accepted, and is their merge unless a save failed since (`Fit`); what the disk has
  is their merge too or cannot be loaded (`Followed`), or else a file event, the debounce timer or a reload is
  on its way; and a reload on its way has read the root that the disk has, unless an event is yet to come.
  `Fit` makes each change of the settings page one that `EverySaveReloads` is about, so that a save which
  succeeds leaves documents that merge to what was saved; one that fails has written nothing, or
  its own writes raise an event.  The modules the program generates are added in turn, each to documents that merge
  (`AllEnsuredFits`).
* **Janitor.**  Of any files one comes first (`FirstFile`); where the loop stops, the files it
  tried are those before the first it did not, and there its condition is false (`TriedFiles`).
  The three parts follow with the monotony of counts and sums.
* **LegacyFields.**  The fields of a converted table are those made and those kept, apart from each
  other; each made one by cases.
* **Tables.**  The raw interval is monotone in the level (`RawMonotone`, by workload and behaviour),
  and clamping keeps the order (`ClampMonotone`).  Of the configuration: a duration is whole in the
  unit it is written in, by one lemma per unit; a field left out is its default; and the bounds
  of the loader (`Limits`) leave room for every value of the settings page.  The inputs of the run
  are accepted records with fields changed (`VariedFields`), so they are of the kinds the rules
  are proved for.

### Only model-checked

* Liveness and ENABLED, which the prover does not handle: `EveryRunEnds`, `SlotReturned`,
  `CardsServed`, `LoopsEnd`.

An induction over data is out of the prover's reach as a principle; where a theorem needs one
(a sum, an order, the loop of an eviction, the loading of an animation) the proof takes the
least counterexample instead, over the numbers (`LeastNumber`, `UpTo`) or over the parts of a
finite set (`LeastSet`).

## 7. Not modelled

PROJECT.json gives the status of every component.  Left out for good:

* the text of things: TOML, JSON and schedule specifications, calendar arithmetic and time zones
  (`FixedSchedule` takes a day that evaluates or does not), labels, text limits of single fields;
* what other programs do: sysfs, procfs and D-Bus, what a command computes (its result reaches
  `Cache` and `Controller` as healthy, failed or oversized), the scripts of the agents, the
  ScrcpyForge service beyond its versions;
* collections themselves, but for the window of the power average: they have no control state
  beyond their source node and the difference of two counters; and their cancellation inside;
* GTK: widgets, layout, drawing, the confirmation of an action, sounds;
* the tables of plugins and the read-only commands of the CLI;
* the error limiter, which only suppresses log lines, and process set-up.
