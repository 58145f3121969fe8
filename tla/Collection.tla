----------------------------- MODULE Collection -----------------------------
(***************************************************************************)
(* The way of a result from the start of a card to the screen              *)
(* (src/window.rs): the polling loop starts a worker with a copy of what   *)
(* the card is at that moment, the worker leaves its value in the          *)
(* LatestInbox and its completion in a bounded channel, and the receiver   *)
(* frees the slot of the card and shows the value, or rejects it.          *)
(* Meanwhile, on the same main loop, sources publish edges by way of the   *)
(* RefreshCoordinator (src/core/refresh.rs), cards are switched off and on,*)
(* the page tree is rebuilt and the output budget changes.                 *)
(*                                                                         *)
(* Time is left to Scheduler and the locks of a collection to Cache: here a*)
(* card that is not running may start, and a worker may end, at any moment.*)
(***************************************************************************)
EXTENDS Integers, Sequences, FiniteSets, Functions

CONSTANTS
    Cards, Workers,   \* numbers, cards in the order of their registration
    Sources,          \* canonical source keys
    Signals,          \* "signal:power-supply" and the like
    SignalsOf,        \* the signals the cards of a source are bound to
    Published,        \* keys that have events: files and signals
    Scheduled,        \* cards with a fixed schedule
    Budgets,          \* values of app.max_output_bytes
    MaxPending,       \* MAX_PENDING_METRIC_PRESENTATIONS
    MaxCompletions,   \* MAX_PENDING_METRIC_COMPLETIONS
    Optional,         \* handlers present: "toggle", "rebuild", "budget", "permit"
    MaxGeneration, MaxRevision, MaxEpoch     \* bounds of the exploration

ASSUME CollectionAssumption ==
    /\ Cards \subseteq Nat /\ IsFiniteSet(Cards) /\ Workers \subseteq Nat
    /\ SignalsOf \in [Sources -> SUBSET Signals]
    /\ Sources \cap Signals = {} /\ Published \subseteq Sources \cup Signals
    /\ {"none", "wallclock", "manual"} \cap (Sources \cup Signals) = {}
    /\ Scheduled \subseteq Cards
    /\ MaxPending \in Nat \ {0} /\ MaxCompletions \in Nat \ {0}
    /\ Optional \subseteq {"toggle", "rebuild", "budget", "permit"}
    /\ MaxGeneration \in Nat /\ MaxRevision \in Nat /\ MaxEpoch \in Nat

VARIABLES
    config,           \* the source of every card in the configuration
    epoch,            \* config_epoch
    budget,           \* max_output_budget
    seed,             \* Scheduler.generation_seed
    tasks,            \* runtimes and card_metas, one domain: the cards shown
    refresh,          \* RefreshCoordinator
    worker,           \* the workers in flight and what they captured at their start
    inbox,            \* LatestInbox: the worker whose value waits for a card
    channel,          \* completions, in order
    shown,            \* previous_results: what the cards show
    missed, lost      \* history: see EventFollowed

vars == <<config, epoch, budget, seed, tasks, refresh, worker, inbox, channel,
          shown, missed, lost>>

-----------------------------------------------------------------------------
Keys == Sources \cup Signals

Reason == INSTANCE WorkPolicy WITH SourceKeys <- Keys, ExpensiveFloor <- 1

NoReason == Reason!NoReason

\* The runtime and the metadata of a card.  Every edge of a source it is bound to is
\* requested when it is published, so that of its maps of revisions no number is needed:
\* `requested' are the keys with an edge that its last start has not taken.
Tasks ==
    [generation : Nat, running : BOOLEAN, runOnce : BOOLEAN, pendingEvent : BOOLEAN,
     reason : Reason!Reasons \cup {NoReason}, requested : SUBSET Keys,
     source : Sources, epoch : Nat]

\* The locals of a worker.  History: `valid', the token it captured is still that of
\* its source (tokens never come back, see Cache); `fresh', no event concerned its
\* source since; `own', its card is still registered as it was.
InFlight ==
    [at : {"collecting", "sending", "sent"}, card : Cards, generation : Nat,
     epoch : Nat, source : Sources, budget : Budgets,
     key : Keys \cup {NoReason}, revision : Nat,
     valid : BOOLEAN, fresh : BOOLEAN, own : BOOLEAN]

Shown == [source : Sources, epoch : Nat, fresh : BOOLEAN]

Registered == DOMAIN tasks
Flying     == DOMAIN worker
At(w, stage) == w \in Flying /\ worker[w].at = stage

With(f, x, value) == [y \in DOMAIN f \cup {x} |-> IF y = x THEN value ELSE f[y]]
Except(f, x)      == Restrict(f, DOMAIN f \ {x})
Nothing           == [x \in {} |-> 0]

NewTask(generation, source, atEpoch) ==
    [generation |-> generation, running |-> FALSE, runOnce |-> FALSE, pendingEvent |-> FALSE,
     reason |-> NoReason, requested |-> {}, source |-> source, epoch |-> atEpoch]

\* bind_card_refresh_sources.
BoundTo(source) == {source} \cup SignalsOf[source]

Unbound == [revision |-> 0, dependents |-> {}]

Init ==
    /\ config \in [Cards -> Sources]
    /\ epoch = 0 /\ budget \in Budgets
    /\ seed = 0 /\ tasks = Nothing
    /\ refresh = [k \in Keys |-> Unbound]
    /\ worker = Nothing /\ inbox = Nothing /\ channel = <<>>
    /\ shown = Nothing
    /\ missed = {} /\ lost = {}

-----------------------------------------------------------------------------
(* Invalidation: cache::invalidate, and cache::prune of the sources that no*)
(* card uses any more.                                                     *)

Retired(sources) ==
    [w \in Flying |-> [worker[w] EXCEPT !.valid = @ /\ worker[w].source \notin sources]]

Unused(ts) == Sources \ {ts[c].source : c \in DOMAIN ts}

\* The cards lose their registration, and their workers with them.
Disowned(ws, cards) ==
    [w \in DOMAIN ws |-> [ws[w] EXCEPT !.own = @ /\ ws[w].card \notin cards]]

-----------------------------------------------------------------------------
(* Requests and completions of the slot of a card (src/core/scheduler.rs). *)

\* A request during a collection taken as served by it.
RequestedServed(t, reason) ==
    LET u == [t EXCEPT !.requested = @ \cup ({reason} \cap Keys)]
    IN  IF t.running THEN t
        ELSE IF t.runOnce THEN [u EXCEPT !.reason = Reason!PreferReason(@, reason)]
        ELSE [u EXCEPT !.runOnce = TRUE, !.reason = reason, !.generation = @ + 1]

\* request_event_at_with_defer.
Requested(t, reason) ==
    LET best == Reason!PreferReason(t.reason, reason)
        u    == [t EXCEPT !.requested = @ \cup ({reason} \cap Keys)]
    IN  IF t.running THEN [u EXCEPT !.pendingEvent = TRUE, !.reason = best]
        ELSE IF t.runOnce THEN [u EXCEPT !.reason = best]
        ELSE [u EXCEPT !.runOnce = TRUE, !.reason = reason, !.generation = @ + 1]

\* A card may be asked once more if that keeps to the bound.
Room(cards) == \A c \in cards : tasks[c].generation < MaxGeneration

\* mark_done: what was asked for meanwhile becomes one follow-up.  Whether the card runs is
\* not asked: the completion may be that of an earlier registration, and the card idle.
Done(t) ==
    IF t.pendingEvent \/ t.requested # {}
      THEN [t EXCEPT !.running = FALSE, !.pendingEvent = FALSE, !.runOnce = TRUE,
                     !.generation = @ + 1]
      ELSE [t EXCEPT !.running = FALSE, !.reason = NoReason, !.generation = @ + 1]

\* A manual refresh of one card.
Request(c) ==
    /\ c \in Registered /\ Room({c})
    /\ tasks' = [tasks EXCEPT ![c] = Requested(@, "manual")]
    /\ UNCHANGED <<config, epoch, budget, seed, refresh, worker, inbox, channel, shown,
                   missed, lost>>

\* A page switch or a permit change gives idle cards new generations.
Permit(cards) ==
    /\ "permit" \in Optional
    /\ cards # {} /\ Room(cards)
    /\ \A c \in cards : ~tasks[c].running
    /\ tasks' = [c \in Registered |->
           IF c \in cards THEN [tasks[c] EXCEPT !.generation = @ + 1] ELSE tasks[c]]
    /\ UNCHANGED <<config, epoch, budget, seed, refresh, worker, inbox, channel, shown,
                   missed, lost>>

-----------------------------------------------------------------------------
(* Source events: publish_source_event.  The revision is new to every      *)
(* dependent, so that each of them is requested.                           *)

\* The key itself and the sources of the cards that depend on it.
InvalidatedBy(key) == {key} \cup {tasks[c].source : c \in refresh[key].dependents}

SourceEvent(key) ==
    LET asked == refresh[key].dependents
    IN  /\ refresh[key].revision < MaxRevision /\ Room(asked)
        /\ refresh' = [refresh EXCEPT ![key].revision = @ + 1]
        /\ tasks' = [c \in Registered |->
               IF c \in asked THEN Requested(tasks[c], key) ELSE tasks[c]]
        /\ worker' = [w \in Flying |->
               [Retired(InvalidatedBy(key))[w] EXCEPT
                   !.fresh = @ /\ key \notin BoundTo(worker[w].source)]]
        /\ missed' = missed \cup {c \in Registered : key \in BoundTo(tasks[c].source)}
        /\ UNCHANGED <<config, epoch, budget, seed, inbox, channel, shown, lost>>

-----------------------------------------------------------------------------
(* Configuration.                                                          *)

\* apply_output_budget_change: every source in use is invalidated, and every card
\* without a schedule requested.
ChangeBudget(bytes) ==
    LET asked == Registered \ Scheduled
    IN  /\ "budget" \in Optional
        /\ bytes # budget /\ Room(asked)
        /\ budget' = bytes
        /\ worker' = Retired({tasks[c].source : c \in Registered})
        /\ tasks' = [c \in Registered |->
               IF c \in asked THEN Requested(tasks[c], "wallclock") ELSE tasks[c]]
        /\ UNCHANGED <<config, epoch, seed, refresh, inbox, channel, shown, missed, lost>>

\* rebuild_pages: cards are registered one by one, in their order.
Rebuilt(next, cards, atEpoch) ==
    [c \in cards |->
        NewTask(seed + Cardinality({d \in cards : d <= c}), next[c], atEpoch)]

\* apply_config_reload with a new page graph: the sources, before and after, of the
\* cards that changed are invalidated, and all of the tree starts again.
Rebuild(next, cards) ==
    LET changed == {c \in Cards : next[c] # config[c]}
    IN  /\ "rebuild" \in Optional \/ epoch = 0
        /\ epoch < MaxEpoch /\ seed + Cardinality(cards) < MaxGeneration
        /\ config' = next
        /\ epoch' = epoch + 1
        /\ tasks' = Rebuilt(next, cards, epoch + 1)
        /\ seed' = seed + Cardinality(cards)
        /\ refresh' = [k \in Keys |->
               [revision |-> 0, dependents |-> {c \in cards : k \in BoundTo(next[c])}]]
        /\ worker' = Disowned(Retired({config[c] : c \in changed} \cup {next[c] : c \in changed}
                                          \cup Unused(tasks')), Cards)
        /\ shown' = Nothing
        /\ missed' = {} /\ lost' = {}
        /\ UNCHANGED <<budget, inbox, channel>>

\* unbind_task also drops the sources nothing depends on.
Unbinding(c) ==
    [k \in Keys |->
        IF refresh[k].dependents \subseteq {c} THEN Unbound
        ELSE [refresh[k] EXCEPT !.dependents = @ \ {c}]]

\* The settings switch of a card.
SwitchOff(c) ==
    /\ "toggle" \in Optional
    /\ c \in Registered
    /\ tasks' = Except(tasks, c)
    /\ refresh' = Unbinding(c)
    /\ worker' = Disowned(Retired(Unused(tasks')), {c})
    /\ shown' = Except(shown, c)
    /\ missed' = missed \ {c} /\ lost' = lost \ {c}
    /\ UNCHANGED <<config, epoch, budget, seed, inbox, channel>>

SwitchOn(c) ==
    /\ "toggle" \in Optional
    /\ c \notin Registered /\ epoch > 0
    /\ seed + 1 < MaxGeneration
    /\ seed' = seed + 1
    /\ tasks' = With(tasks, c, NewTask(seed + 1, config[c], epoch))
    /\ refresh' = [k \in Keys |->
           IF k \in BoundTo(config[c]) THEN [refresh[k] EXCEPT !.dependents = @ \cup {c}]
           ELSE refresh[k]]
    /\ worker' = Retired(Unused(tasks'))
    /\ UNCHANGED <<config, epoch, budget, inbox, channel, shown, missed, lost>>

-----------------------------------------------------------------------------
(* The polling loop and the workers (start_scheduler_polling).             *)

\* poll and mark_started, then what the worker captures.  It reads the budget when it
\* runs; a change before that retires its token as well.  Workers take the least free
\* number, which tells them apart and means nothing else.
Start(c, w) ==
    LET t   == tasks[c]
        key == IF t.reason \in Keys THEN t.reason ELSE NoReason
    IN  /\ c \in Registered /\ ~t.running /\ t.generation < MaxGeneration
        /\ w \in Workers \ Flying /\ \A v \in Workers \ Flying : w <= v
        /\ tasks' = [tasks EXCEPT ![c] =
               [t EXCEPT !.running = TRUE, !.runOnce = FALSE, !.reason = NoReason,
                         !.requested = {}]]
        /\ worker' = With(worker, w,
               [at |-> "collecting", card |-> c, generation |-> t.generation,
                epoch |-> t.epoch, source |-> t.source, budget |-> budget,
                key |-> key, revision |-> IF key \in Keys THEN refresh[key].revision ELSE 0,
                valid |-> TRUE, fresh |-> TRUE, own |-> TRUE])
        /\ UNCHANGED <<config, epoch, budget, seed, refresh, inbox, channel, shown,
                       missed, lost>>

\* publish_metric keeps the greater (generation, completion_id); of two workers with one
\* generation, of two registrations of a card, either may have drawn its id first.
Outbids(w, c) ==
    c \in DOMAIN inbox => worker[inbox[c]].generation <= worker[w].generation

Ties(w, c) == c \in DOMAIN inbox /\ worker[inbox[c]].generation = worker[w].generation

\* The value takes the place of another, in a full inbox of another card's.
Publish(w) ==
    LET c == worker[w].card
    IN  /\ At(w, "collecting")
        /\ worker' = [worker EXCEPT ![w].at = "sending"]
        /\ \/ /\ Outbids(w, c)
              /\ IF c \in DOMAIN inbox \/ Cardinality(DOMAIN inbox) < MaxPending
                   THEN inbox' = With(inbox, c, w)
                   ELSE \E evicted \in DOMAIN inbox :
                            inbox' = With(Except(inbox, evicted), c, w)
           \/ /\ ~Outbids(w, c) \/ Ties(w, c)
              /\ UNCHANGED inbox
        /\ UNCHANGED <<config, epoch, budget, seed, tasks, refresh, channel, shown,
                       missed, lost>>

Send(w) ==
    /\ At(w, "sending")
    /\ Len(channel) < MaxCompletions
    /\ channel' = Append(channel, w)
    /\ worker' = [worker EXCEPT ![w].at = "sent"]
    /\ UNCHANGED <<config, epoch, budget, seed, tasks, refresh, inbox, shown, missed, lost>>

-----------------------------------------------------------------------------
(* The receiver (start_metric_receiver).                                   *)

\* A completion of another generation, or of a card that is gone.
Outdated(w) ==
    worker[w].card \notin Registered \/ tasks[worker[w].card].generation # worker[w].generation

\* The configuration compared alone, not what has happened since.
RejectedByConfig(w) ==
    LET c == worker[w].card
    IN  \/ worker[w].epoch # tasks[c].epoch \/ worker[w].source # tasks[c].source
        \/ worker[w].budget # budget

Rejected(w) ==
    LET c == worker[w].card
    IN  \/ worker[w].epoch # tasks[c].epoch
        \/ worker[w].source # tasks[c].source
        \/ worker[w].budget # budget
        \/ ~worker[w].valid
        \/ worker[w].key \in Keys /\ worker[w].revision < refresh[worker[w].key].revision

\* The value of the card is that of this completion.
Latest(w) ==
    LET c == worker[w].card IN c \in DOMAIN inbox /\ inbox[c] = w

\* A rejected completion dropped like an outdated one.
FreedShown(w) ==
    IF Outdated(w) \/ Rejected(w) THEN tasks ELSE [tasks EXCEPT ![worker[w].card] = Done(@)]

\* A rejected completion gives the slot of its card back as well.
Freed(w) == IF Outdated(w) THEN tasks ELSE [tasks EXCEPT ![worker[w].card] = Done(@)]

\* The value of an outdated completion left behind.
TakenShown(w) ==
    IF Latest(w) /\ ~Outdated(w) THEN Except(inbox, worker[w].card) ELSE inbox

\* Whatever becomes of the completion, its value leaves the inbox.
Taken(w) == IF Latest(w) THEN Except(inbox, worker[w].card) ELSE inbox

Receive ==
    LET w == Head(channel)
        c == worker[w].card
        projects == ~Outdated(w) /\ ~Rejected(w) /\ Latest(w)
    IN  /\ channel # <<>>
        /\ channel' = Tail(channel)
        /\ worker' = Except(worker, w)
        /\ inbox' = Taken(w)
        /\ tasks' = Freed(w)
        /\ shown' = IF projects
                      THEN With(shown, c, [source |-> worker[w].source, epoch |-> worker[w].epoch,
                                           fresh |-> worker[w].fresh])
                      ELSE shown
        /\ missed' = IF projects THEN missed \ {c} ELSE missed
        /\ lost' = IF projects THEN lost \ {c}
                   ELSE IF ~Outdated(w) /\ (~worker[w].own \/ ~Rejected(w)) THEN lost \cup {c}
                   ELSE lost
        /\ UNCHANGED <<config, epoch, budget, seed, refresh>>

-----------------------------------------------------------------------------
Reload ==
    \/ \E next \in [Cards -> Sources], cards \in SUBSET Cards : Rebuild(next, cards)
    \/ \E bytes \in Budgets : ChangeBudget(bytes)
    \/ \E c \in Cards : SwitchOff(c) \/ SwitchOn(c)

Ask ==
    \/ \E c \in Cards : Request(c)
    \/ \E key \in Published : SourceEvent(key)
    \/ \E cards \in SUBSET Registered : Permit(cards)

Work ==
    \/ \E c \in Cards, w \in Workers : Start(c, w)
    \/ \E w \in Workers : Publish(w) \/ Send(w)

Next == Reload \/ Ask \/ Work \/ Receive

Spec == Init /\ [][Next]_vars

\* The executor runs every worker to its end and the main loop serves the channel;
\* whether a card is started again is not assumed.
Fairness ==
    /\ \A w \in Workers : WF_vars(Publish(w)) /\ WF_vars(Send(w))
    /\ WF_vars(Receive)

FairSpec == Spec /\ Fairness

-----------------------------------------------------------------------------
(* Properties.                                                             *)

\* Every variable keeps its type, and the three places of a worker agree: a value
\* waiting in the inbox, or a completion in the channel, is that of a worker in flight.
TypeOK ==
    /\ config \in [Cards -> Sources] /\ epoch \in Nat /\ budget \in Budgets /\ seed \in Nat
    /\ Registered \subseteq Cards /\ tasks \in [Registered -> Tasks]
    /\ refresh \in [Keys -> [revision : Nat, dependents : SUBSET Cards]]
    /\ Flying \subseteq Workers /\ worker \in [Flying -> InFlight]
    /\ DOMAIN inbox \subseteq Cards /\ Cardinality(DOMAIN inbox) <= MaxPending
    /\ \A c \in DOMAIN inbox : inbox[c] \in Flying /\ worker[inbox[c]].card = c
    /\ channel \in Seq(Flying) /\ Len(channel) <= MaxCompletions
    /\ DOMAIN shown \subseteq Registered /\ shown \in [DOMAIN shown -> Shown]
    /\ missed \subseteq Registered /\ lost \subseteq Registered

\* What a card shows was collected for the source and the configuration it has now, and
\* no event of that source, or of a signal about it, came between the start of the
\* collection and the moment it was shown; so whatever registered, ran and reported in
\* between (start_metric_receiver, publish_source_event, prune_source_nodes).
CurrentShown ==
    \A c \in DOMAIN shown :
        /\ shown[c].source = tasks[c].source /\ shown[c].epoch = tasks[c].epoch
        /\ shown[c].fresh

\* A collection of the card that has seen every event is on its way.
Underway(c) ==
    \E w \in Flying : /\ worker[w].card = c /\ worker[w].own
                      /\ worker[w].fresh /\ worker[w].valid

\* An event that a card does not show yet is followed up: the card is queued, or will
\* be when its collection ends, or a collection that saw the event is on its way.  The
\* exception are values lost on their way to the screen: pushed out of the inbox, or
\* their slot freed by a worker of an earlier registration.  (Without fixed schedules.)
EventFollowed ==
    \A c \in missed \ (lost \cup Scheduled) :
        \/ tasks[c].runOnce
        \/ tasks[c].running /\ (tasks[c].pendingEvent \/ Underway(c))

\* Every slot comes back: whatever became of its worker, its value and its card, a card
\* does not run forever.
SlotReturned == \A c \in Cards : []<>(c \in Registered => ~tasks[c].running)

\* "Old workers may still complete; the monotonic scheduler generation and per-card epoch
\* make those completions harmlessly stale" (src/window.rs): the slot of a run is given
\* back by the worker that was started for it.
OwnSlot ==
    [][\A c \in Registered :
          (tasks[c].running /\ channel' # channel /\ c \in DOMAIN tasks' /\ ~tasks'[c].running)
          => worker[Head(channel)].own]_vars
=============================================================================
