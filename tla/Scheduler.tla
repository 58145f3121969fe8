----------------------------- MODULE Scheduler ------------------------------
(***************************************************************************)
(* The refresh scheduler (src/core/scheduler.rs) driven by the polling     *)
(* loop of the window (src/window.rs, start_scheduler_polling).            *)
(*                                                                         *)
(* Every card has a runtime record and, in a binary heap, entries saying   *)
(* when to collect it.  Entries are never removed in place: an entry is    *)
(* current when its generation is that of the runtime, and stale entries   *)
(* are dropped when they surface or when the heap is compacted.            *)
(*                                                                         *)
(* The scheduler lives on the GTK main loop.  Handlers (user clicks, source*)
(* events, runtime snapshots, completions) run between the awaits of the   *)
(* polling loop, that is while `phase' is "spawned" or "sleep"; poll, the  *)
(* start of the ready cards and next_task run in one go, one step of this  *)
(* module per heap entry.                                                  *)
(*                                                                         *)
(* A started card has a worker on the tokio pool.  Nothing recalls it when *)
(* the card is registered anew: its completion arrives all the same, and   *)
(* only the generation it was started with tells it from a current one.    *)
(***************************************************************************)
EXTENDS WorkPolicy, Sequences, FiniteSets

CONSTANTS
    Cards,            \* card ids; their order as numbers is the order of ids
    Pages,            \* page ids
    Registrations,    \* per card, the [page, policy] a configuration may give it
    Revisions,        \* source revisions carried by refresh requests
    SlotDelays,       \* distances from the start of a run to a fixed deadline
    FollowUpDelays,   \* explicit delays of a follow-up run (cpu warm-up)
    Permits,          \* <<work level, context>> pairs the runtime policy grants
    Coalesce,         \* per work level, the window poll coalesces over
    Slot,             \* the spacing of spread expensive starts
    CompactFactor,    \* stale entries tolerated per card ...
    CompactSlack,     \* ... and over all, before the heap is rebuilt
    Workers,          \* names that tell the workers of a card in flight apart
    Optional          \* handlers present: "toggle" cards, "reconcile" reloads

ASSUME SchedulerAssumption ==
    /\ Cards \subseteq Nat /\ IsFiniteSet(Cards)
    /\ Registrations \in [Cards -> SUBSET [page : Pages, policy : Policies]]
    /\ Revisions \subseteq Nat
    /\ SlotDelays \subseteq Nat \ {0}
    /\ FollowUpDelays \subseteq Nat
    /\ Permits \subseteq Levels \X Contexts
    /\ Coalesce \in [Levels -> Nat]
    /\ Slot \in Nat \ {0}
    /\ CompactFactor \in Nat \ {0}
    /\ CompactSlack \in Nat
    /\ Optional \subseteq {"toggle", "reconcile"}

VARIABLES
    tasks,            \* runtimes: the runtime record of every card
    heap,             \* the scheduled entries
    deferred,         \* entries set aside by the poll or next_task under way
    ready,            \* what poll returned and the loop has not started yet
    phase,            \* where the polling loop is
    level, context,   \* current work permit
    quiet,            \* periodic_refresh_paused
    reloadCursor,     \* next free slot for deferred configuration reloads
    seed,             \* generation_seed
    now,              \* the monotonic clock
    flights,          \* the workers whose completion has not arrived
    mistaken          \* history: cards that a completion reached while they were
                      \* idle, and that were not started or removed since

vars == <<tasks, heap, deferred, ready, phase, level, context, quiet,
          reloadCursor, seed, now, flights, mistaken>>

-----------------------------------------------------------------------------
Never  == -1                 \* Option::None of an instant
Phases == {"spawned", "sleep", "poll", "start", "next"}
Times  == Nat \cup {Never}

\* A runtime.  Source revisions absent from one of its maps read as 0
\* (SourceRevision::INITIAL); its scalar revisions are diagnostics derived from
\* these maps, and `enabled' is TRUE from registration to removal.
Tasks ==
    [page : Pages, policy : Policies,
     running : BOOLEAN, paused : BOOLEAN, runOnce : BOOLEAN,
     pendingEvent : BOOLEAN, pendingReason : Reasons \cup {NoReason},
     activeReason : Reasons \cup {NoReason},
     requested : [SourceKeys -> Nat], active : [SourceKeys -> Nat],
     completed : [SourceKeys -> Nat],
     generation : Nat, failures : FailureCounts,
     lastStarted : Times, lastSuccess : Times, nextRun : Nat]

Entries == [at : Nat, card : Cards, gen : Nat]

\* What a worker keeps of its start: the generation its completion carries, and what its
\* interval and its fixed deadline come from.  `own' is history: the registration it was
\* started for still stands.
Flights == [id : Workers, card : Cards, gen : Nat, at : Nat, base : Nat,
            scheduled : BOOLEAN, own : BOOLEAN]

NoRevisions == [k \in SourceKeys |-> 0]

\* The runtime inserted by register_with_policy_at.
NewTask(page, policy, generation, time) ==
    [page |-> page, policy |-> policy,
     running |-> FALSE, paused |-> FALSE, runOnce |-> FALSE,
     pendingEvent |-> FALSE, pendingReason |-> NoReason,
     activeReason |-> NoReason,
     requested |-> NoRevisions, active |-> NoRevisions,
     completed |-> NoRevisions,
     generation |-> generation, failures |-> 0,
     lastStarted |-> Never, lastSuccess |-> Never, nextRun |-> time]

AtRest        == phase \in {"spawned", "sleep"}
Registered    == DOMAIN tasks
Interval(t)   == EffectiveInterval(level, context, t.policy)
Expensive(t)  == t.policy.workload = "expensive"

\* The entry a runtime puts in the heap: every push copies these two fields.
Entry(c, t)   == [at |-> t.nextRun, card |-> c, gen |-> t.generation]
Stale(e)      == e.card \in Registered => tasks[e.card].generation # e.gen

\* No unattended collection: hidden page, or a policy without an interval.
Unattended(t) == ~t.paused /\ (t.lastStarted = Never \/ Interval(t) # NoInterval)

\* The heap pops the least instant, then the least card id; entries that differ
\* in their generation only compare equal and surface in any order.
IsTop(e) ==
    /\ e \in heap
    /\ \A f \in heap : e.at < f.at \/ (e.at = f.at /\ e.card <= f.card)

\* Compaction forgotten.
Uncompacted(h, ts) == h

\* compact_heap_if_needed: rebuild from current entries once h is too long.
Compacted(h, ts) ==
    LET limit == CompactFactor * Cardinality(DOMAIN ts) + CompactSlack
    IN  IF Cardinality(h) <= limit THEN h
        ELSE {e \in h : e.card \in DOMAIN ts /\ e = Entry(e.card, ts[e.card])}

Init ==
    /\ tasks = [c \in {} |-> 0]
    /\ heap = {} /\ deferred = {} /\ ready = <<>>
    /\ phase = "spawned"
    /\ level = "full" /\ context = "active" /\ quiet = FALSE
    /\ reloadCursor = Never
    /\ seed = 0 /\ now = 0
    /\ flights = {} /\ mistaken = {}

-----------------------------------------------------------------------------
(* Registration.                                                           *)

\* HashMap::insert and HashMap::remove on the map of runtimes.
Inserted(c, t) == [d \in Registered \cup {c} |-> IF d = c THEN t ELSE tasks[d]]
Without(c)     == [d \in Registered \ {c} |-> tasks[d]]

\* The runtimes of the cards cs are gone; their workers are not.
Disowned(cs) ==
    /\ flights' = {[w EXCEPT !.own = w.own /\ w.card \notin cs] : w \in flights}
    /\ mistaken' = mistaken \ cs

Register(c, r) ==
    LET t == NewTask(r.page, r.policy, seed + 1, now)
    IN  /\ AtRest
        /\ c \notin Registered
        /\ seed' = seed + 1
        /\ tasks' = Inserted(c, t)
        /\ heap' = heap \cup {Entry(c, t)}
        /\ UNCHANGED <<deferred, ready, phase, level, context, quiet,
                       reloadCursor, now, flights, mistaken>>

\* The settings switch of a card: its entries stay in the heap.
Unregister(c) ==
    /\ AtRest
    /\ "toggle" \in Optional
    /\ c \in Registered
    /\ tasks' = Without(c)
    /\ heap' = Compacted(heap, tasks')
    /\ Disowned({c})
    /\ UNCHANGED <<deferred, ready, phase, level, context, quiet,
                   reloadCursor, seed, now>>

\* Before the page tree is rebuilt; the seed survives.
Clear ==
    /\ AtRest
    /\ tasks' = [c \in {} |-> 0]
    /\ heap' = {}
    /\ reloadCursor' = Never
    /\ Disowned(Registered)
    /\ UNCHANGED <<deferred, ready, phase, level, context, quiet, seed, now>>

\* A reload rebinds a running card in place ...
Rebind(c, r) ==
    /\ AtRest
    /\ "reconcile" \in Optional
    /\ c \in Registered
    /\ tasks[c].running
    /\ tasks' = [tasks EXCEPT ![c].page = r.page, ![c].policy = r.policy]
    /\ UNCHANGED <<heap, deferred, ready, phase, level, context, quiet,
                   reloadCursor, seed, now, flights, mistaken>>

\* ... and replaces an idle one: unregister, register and, when the schedule is
\* the same as before (`keep'), restore_deadline.
Replace(c, r, keep) ==
    LET fresh == NewTask(r.page, r.policy, seed + 1, now)
        kept  == [fresh EXCEPT !.nextRun = tasks[c].nextRun, !.generation = @ + 1]
        old   == Compacted(heap, Without(c))
    IN  /\ AtRest
        /\ "reconcile" \in Optional
        /\ c \in Registered
        /\ ~tasks[c].running
        /\ keep => r.policy.scheduled /\ tasks[c].policy.scheduled
        /\ seed' = seed + 1
        /\ tasks' = Inserted(c, IF keep THEN kept ELSE fresh)
        /\ heap' = old \cup {Entry(c, fresh)}
                      \cup (IF keep THEN {Entry(c, kept)} ELSE {})
        /\ Disowned({c})
        /\ UNCHANGED <<deferred, ready, phase, level, context, quiet,
                       reloadCursor, now>>

-----------------------------------------------------------------------------
(* Work permits: set_work_level and set_periodic_refresh_paused, both by   *)
(* way of reschedule_at.  lv, ctx and q are the permits just stored.       *)

\* The fixed slot treated as a period.
UpcomingPeriodic(t, interval) ==
    IF t.lastStarted = Never \/ interval = NoInterval THEN now
    ELSE Larger(t.lastStarted + interval, now)

\* The next unattended run: a fixed slot stays, a period starts from the last
\* success; Never where there is none.
Upcoming(t, interval) ==
    LET anchor == IF t.lastSuccess # Never THEN t.lastSuccess ELSE t.lastStarted
    IN  IF t.lastStarted = Never      THEN now
        ELSE IF t.policy.scheduled    THEN Larger(t.nextRun, now)
        ELSE IF interval = NoInterval THEN Never
        ELSE Larger(anchor + interval, now)

\* Where reschedule_at wants an idle task, before spreading; Never leaves it
\* without an entry.
Wanted(t, lv, ctx, q) ==
    CASE lv = "suspended"                             -> Never
      [] lv # "suspended" /\ t.runOnce ->
           IF t.pendingReason = "wallclock" THEN Larger(t.nextRun, now) ELSE now
      [] lv # "suspended" /\ ~t.runOnce /\ (q \/ t.paused) -> Never
      [] OTHER -> Upcoming(t, EffectiveInterval(lv, ctx, t.policy))

\* Due expensive work takes the next slot of the resume cursor; one-shot work
\* asked for by the user or by a source never does.
Spreads(t, lv, ctx, q) ==
    /\ ~t.running
    /\ Expensive(t)
    /\ t.runOnce => t.pendingReason = "wallclock"
    /\ Wanted(t, lv, ctx, q) = now

\* The cursor not advanced.
SlotsBeforeNone(c, lv, ctx, q) == 0

\* The cursor is handed out in the order (~run_once, workload, id).
SlotsBefore(c, lv, ctx, q) ==
    Cardinality({d \in Registered :
        /\ Spreads(tasks[d], lv, ctx, q)
        /\ \/ tasks[d].runOnce /\ ~tasks[c].runOnce
           \/ tasks[d].runOnce = tasks[c].runOnce /\ d < c})

RescheduledAt(c, lv, ctx, q, resumed) ==
    IF resumed /\ Spreads(tasks[c], lv, ctx, q)
      THEN now + Slot * SlotsBefore(c, lv, ctx, q)
      ELSE Wanted(tasks[c], lv, ctx, q)

\* Idle tasks get a new generation, and those that are wanted a new entry.
Reschedule(lv, ctx, q, resumed) ==
    LET at[c \in Registered] == RescheduledAt(c, lv, ctx, q, resumed)
        idle  == {c \in Registered : ~tasks[c].running}
        moved == {c \in idle : at[c] # Never}
    IN  /\ tasks' = [c \in Registered |->
               IF c \in moved
                 THEN [tasks[c] EXCEPT !.generation = @ + 1, !.nextRun = at[c]]
               ELSE IF c \in idle THEN [tasks[c] EXCEPT !.generation = @ + 1]
               ELSE tasks[c]]
        /\ heap' = Compacted(heap \cup {Entry(c, tasks'[c]) : c \in moved}, tasks')

SetWorkLevel(lv, ctx) ==
    /\ AtRest
    /\ <<lv, ctx>> # <<level, context>>
    /\ level' = lv /\ context' = ctx
    /\ Reschedule(lv, ctx, quiet, FALSE)
    /\ UNCHANGED <<deferred, ready, phase, quiet, reloadCursor, seed, now,
                   flights, mistaken>>

\* The resume cursor set when quiet hours end is taken by the very reschedule_at
\* that follows, so it never outlives this step.
SetPeriodicRefreshPaused(q) ==
    /\ AtRest
    /\ q # quiet
    /\ quiet' = q
    /\ Reschedule(level, context, q, ~q)
    /\ UNCHANGED <<deferred, ready, phase, level, context, reloadCursor, seed, now,
                   flights, mistaken>>

\* set_active_page: set_page_paused_at for the page of every card.
SetActivePage(page) ==
    LET turned == {c \in Registered : tasks[c].paused # (tasks[c].page # page)}
        idle   == {c \in turned : ~tasks[c].running}
        shown  == {c \in idle : tasks[c].paused /\ level # "suspended" /\ ~quiet}
    IN  /\ AtRest
        /\ tasks' = [c \in Registered |->
               LET t == tasks[c]
               IN  [t EXCEPT
                      !.paused     = (t.page # page),
                      !.generation = IF c \in idle THEN t.generation + 1 ELSE t.generation,
                      !.nextRun    = IF c \in shown THEN now ELSE t.nextRun]]
        /\ heap' = heap \cup {Entry(c, tasks'[c]) : c \in shown}
        /\ UNCHANGED <<deferred, ready, phase, level, context, quiet,
                       reloadCursor, seed, now, flights, mistaken>>

-----------------------------------------------------------------------------
(* Requests: request_now, request_config_reload, request_with_reason and   *)
(* request_all_now, all of them request_event_at_with_defer.               *)

IsNewRevision(t, reason, revision) ==
    reason \in SourceKeys /\ revision > t.requested[reason]

Noted(t, reason, revision) ==
    IF IsNewRevision(t, reason, revision)
      THEN [t EXCEPT !.requested[reason] = revision]
      ELSE t

\* An edge during a run only noted, with no follow-up.
RequestedUnfollowed(t, reason, revision, slot) ==
    IF t.running \/ t.runOnce THEN Noted(t, reason, revision)
    ELSE [Noted(t, reason, revision) EXCEPT
             !.runOnce = TRUE, !.pendingReason = reason,
             !.nextRun = slot, !.generation = @ + 1]

\* The entry of the period left current.
RequestedTwice(t, reason, revision, slot) ==
    IF t.running \/ t.runOnce THEN t
    ELSE [t EXCEPT !.runOnce = TRUE, !.pendingReason = reason, !.nextRun = slot]

\* The runtime after a request for `reason', due at `slot' when it queues one.
\* A running or queued card only notes the revision and the stronger reason.
Requested(t, reason, revision, slot) ==
    LET noted == Noted(t, reason, revision)
        wins  == \/ IsNewRevision(t, reason, revision)
                 \/ ReasonPriority(reason) > ReasonPriority(t.pendingReason)
        best  == PreferReason(t.pendingReason, reason)
    IN  IF t.running THEN [noted EXCEPT !.pendingEvent = TRUE, !.pendingReason = best]
        ELSE IF t.runOnce /\ wins THEN [noted EXCEPT !.pendingReason = best]
        ELSE IF t.runOnce THEN noted
        ELSE [noted EXCEPT !.runOnce = TRUE, !.pendingReason = reason,
                           !.nextRun = slot, !.generation = @ + 1]

\* A request queued although its card is running.
QueuesRunning(t) == ~t.runOnce

Queues(t) == ~t.running /\ ~t.runOnce

RequestEvent(c, reason, revision) ==
    /\ AtRest
    /\ c \in Registered
    /\ tasks' = [tasks EXCEPT ![c] = Requested(@, reason, revision, now)]
    /\ heap' = IF Queues(tasks[c]) THEN heap \cup {Entry(c, tasks'[c])} ELSE heap
    /\ UNCHANGED <<deferred, ready, phase, level, context, quiet,
                   reloadCursor, seed, now, flights, mistaken>>

RequestNow(c) == RequestEvent(c, "manual", 0)

RequestSource(c, key, revision) == RequestEvent(c, key, revision)

\* Expensive cards take successive slots of the reload cursor.
RequestConfigReload(c) ==
    LET defers == Expensive(tasks[c]) /\ Queues(tasks[c])
        slot   == IF defers THEN Larger(reloadCursor, now) ELSE now
    IN  /\ AtRest
        /\ c \in Registered
        /\ reloadCursor' = IF defers THEN slot + Slot ELSE reloadCursor
        /\ tasks' = [tasks EXCEPT ![c] = Requested(@, "wallclock", 0, slot)]
        /\ heap' = IF Queues(tasks[c]) THEN heap \cup {Entry(c, tasks'[c])} ELSE heap
        /\ UNCHANGED <<deferred, ready, phase, level, context, quiet, seed, now,
                       flights, mistaken>>

RequestAllNow ==
    LET queued == {c \in Registered : Queues(tasks[c])}
    IN  /\ AtRest
        /\ tasks' = [c \in Registered |-> Requested(tasks[c], "manual", 0, now)]
        /\ heap' = heap \cup {Entry(c, tasks'[c]) : c \in queued}
        /\ UNCHANGED <<deferred, ready, phase, level, context, quiet,
                       reloadCursor, seed, now, flights, mistaken>>

-----------------------------------------------------------------------------
(* Completions: mark_done and its variants.                                *)

\* The revisions the ended run covers, and those requested beyond it.
Covered(t)   == [k \in SourceKeys |-> Larger(t.completed[k], t.active[k])]
Newer(t)     == {k \in SourceKeys : t.requested[k] > Covered(t)[k]}
FollowsUp(t) == t.pendingEvent \/ Newer(t) # {}

\* The runtime after a completion that ended `ok'.  A request made meanwhile becomes
\* one follow-up; otherwise the next period starts, at `deadline' if given.  The period
\* of a fixed schedule is the `base' of the worker.  An idle task is treated alike.
Finished(t, base, ok, deadline) ==
    LET completed == Covered(t)
        newer     == Newer(t)
        left      == [k \in SourceKeys |-> IF k \in newer THEN t.requested[k] ELSE 0]
        failures  == IF ok THEN 0 ELSE Smaller(t.failures + 1, MaxBackoffFailures)
        success   == IF ok THEN now ELSE t.lastSuccess
        interval  == IF t.policy.scheduled THEN base ELSE Interval(t)
        following == IF interval = NoInterval THEN t.nextRun
                     ELSE IF deadline # Never THEN deadline
                     ELSE now + Backoff(interval, failures)
        ended     == [t EXCEPT !.running = FALSE, !.activeReason = NoReason,
                               !.active = NoRevisions, !.failures = failures,
                               !.lastSuccess = success, !.generation = @ + 1]
    IN  IF FollowsUp(t)
          THEN [ended EXCEPT !.pendingEvent = FALSE, !.runOnce = TRUE, !.nextRun = now,
                             !.completed = completed, !.requested = left]
          ELSE [ended EXCEPT !.pendingReason = NoReason, !.requested = NoRevisions,
                             !.completed = NoRevisions, !.nextRun = following]

\* Only the period queued, not the follow-up.
RequeuesPeriod(t) == level # "suspended" /\ ~quiet /\ ~FollowsUp(t)

\* Whether the completion leaves an entry in the heap.
Requeues(t) ==
    /\ level # "suspended"
    /\ ~FollowsUp(t) => ~quiet /\ (t.policy.scheduled \/ Interval(t) # NoInterval)

Finish(c, base, ok, deadline) ==
    LET next == Finished(tasks[c], base, ok, deadline)
    IN  /\ tasks' = [tasks EXCEPT ![c] = next]
        /\ heap' = IF Requeues(tasks[c]) THEN heap \cup {Entry(c, next)} ELSE heap

\* Explicit next instants a worker may report: the fixed deadline it computed
\* when it started, or a short warm-up delay from its completion.
Deadlines(w) ==
    {Never} \cup {w.at + d : d \in IF w.scheduled THEN SlotDelays ELSE {}}
            \cup {now + d : d \in IF w.scheduled THEN {} ELSE FollowUpDelays}

\* The receiver of completions compares generations, nothing else.
Current(w) == w.card \in Registered /\ w.gen = tasks[w.card].generation

\* A generation may come again after a registration, so the task need not be running.
MarkDone(w, ok, deadline) ==
    /\ AtRest
    /\ Current(w)
    /\ Finish(w.card, w.base, ok, deadline)
    /\ flights' = flights \ {w}
    /\ mistaken' = IF tasks[w.card].running THEN mistaken ELSE mistaken \cup {w.card}
    /\ UNCHANGED <<deferred, ready, phase, level, context, quiet,
                   reloadCursor, seed, now>>

\* Any other completion is dropped.
Outdated(w) ==
    /\ AtRest
    /\ ~Current(w)
    /\ flights' = flights \ {w}
    /\ UNCHANGED <<tasks, heap, deferred, ready, phase, level, context, quiet,
                   reloadCursor, seed, now, mistaken>>

-----------------------------------------------------------------------------
(* poll: one step per entry that surfaces.                                 *)

\* Coalescing for all.
AbsoluteNever(t) == FALSE

\* Fixed schedules, expensive work and reload slots are never coalesced.
Absolute(t) ==
    t.policy.scheduled \/ Expensive(t) \/ t.pendingReason = "wallclock"

\* The top entry e ends the loop.
PollStops(e) ==
    /\ e.card \in Registered
    /\ \/ e.at > now + Coalesce[level]
       \/ e.at > now /\ Absolute(tasks[e.card])

\* An unattended one-shot waits for the end of quiet hours.
Held(e) ==
    /\ e.card \in Registered
    /\ tasks[e.card].runOnce
    /\ ~RunOncePermitted(tasks[e.card].pendingReason, quiet)

Dequeuable(t) == ~t.running /\ (t.runOnce \/ (~quiet /\ Unattended(t)))

\* The reason not taken.
DequeuedUntaken(t) ==
    [t EXCEPT !.runOnce = FALSE, !.activeReason = t.pendingReason, !.active = t.requested]

\* A current, permitted entry makes its card ready and consumes its request.
Dequeued(t) ==
    [t EXCEPT !.runOnce = FALSE, !.activeReason = t.pendingReason,
              !.pendingReason = NoReason, !.active = t.requested]

PollBegin ==
    /\ phase = "sleep"
    /\ phase' = IF level = "suspended" THEN "start" ELSE "poll"
    /\ UNCHANGED <<tasks, heap, deferred, ready, level, context, quiet,
                   reloadCursor, seed, now, flights, mistaken>>

PollDefer(e) ==
    /\ phase = "poll" /\ IsTop(e) /\ ~PollStops(e)
    /\ Held(e)
    /\ heap' = heap \ {e}
    /\ deferred' = deferred \cup {e}
    /\ UNCHANGED <<tasks, ready, phase, level, context, quiet, reloadCursor, seed, now,
                   flights, mistaken>>

PollDrop(e) ==
    /\ phase = "poll" /\ IsTop(e) /\ ~PollStops(e)
    /\ ~Held(e)
    /\ ~Stale(e) => ~Dequeuable(tasks[e.card])
    /\ heap' = heap \ {e}
    /\ UNCHANGED <<tasks, deferred, ready, phase, level, context, quiet,
                   reloadCursor, seed, now, flights, mistaken>>

PollTake(e) ==
    /\ phase = "poll" /\ IsTop(e) /\ ~PollStops(e)
    /\ ~Held(e)
    /\ ~Stale(e) /\ Dequeuable(tasks[e.card])
    /\ heap' = heap \ {e}
    /\ tasks' = [tasks EXCEPT ![e.card] = Dequeued(@)]
    /\ ready' = Append(ready, e.card)
    /\ UNCHANGED <<deferred, phase, level, context, quiet, reloadCursor, seed, now,
                   flights, mistaken>>

\* The deferred entries copied back, not moved.
PollEndCopying ==
    /\ phase = "poll"
    /\ \A e \in heap : IsTop(e) => PollStops(e)
    /\ phase' = "start"
    /\ heap' = Compacted(heap \cup deferred, tasks)
    /\ UNCHANGED <<tasks, deferred, ready, level, context, quiet, reloadCursor, seed, now,
                   flights, mistaken>>

PollEnd ==
    /\ phase = "poll"
    /\ \A e \in heap : IsTop(e) => PollStops(e)
    /\ phase' = "start"
    /\ heap' = Compacted(heap \cup deferred, tasks)
    /\ deferred' = {}
    /\ UNCHANGED <<tasks, ready, level, context, quiet, reloadCursor, seed, now,
                   flights, mistaken>>

-----------------------------------------------------------------------------
(* The loop over the cards poll returned.                                  *)

Started(t) == [t EXCEPT !.running = TRUE, !.lastStarted = now]

Unused(c) == {id \in Workers : \A w \in flights : w.card = c => w.id # id}

\* The worker of a started runtime; one beyond the names there are never reports.
Launched(c, t) ==
    IF Unused(c) = {} THEN {}
    ELSE {[id |-> CHOOSE id \in Unused(c) : TRUE, card |-> c, gen |-> t.generation,
           at |-> now, base |-> t.policy.base, scheduled |-> t.policy.scheduled,
           own |-> TRUE]}

\* mark_started and the hand-over to a worker.
Start ==
    /\ phase = "start" /\ ready # <<>>
    /\ ready' = Tail(ready)
    /\ LET c == Head(ready)
       IN  /\ tasks' = [tasks EXCEPT ![c] = Started(@)]
           /\ flights' = flights \cup Launched(c, tasks[c])
           /\ mistaken' = mistaken \ {c}
    /\ UNCHANGED <<heap, deferred, phase, level, context, quiet,
                   reloadCursor, seed, now>>

\* The card is gone from the configuration or disabled there: mark_started and,
\* at once, mark_done as a failure.
StartUnavailable ==
    /\ phase = "start" /\ ready # <<>>
    /\ ready' = Tail(ready)
    /\ LET c    == Head(ready)
           t    == Started(tasks[c])
           next == Finished(t, t.policy.base, FALSE, Never)
       IN  /\ tasks' = [tasks EXCEPT ![c] = next]
           /\ heap' = IF Requeues(t) THEN heap \cup {Entry(c, next)} ELSE heap
           /\ mistaken' = mistaken \ {c}
    /\ UNCHANGED <<deferred, phase, level, context, quiet, reloadCursor, seed, now,
                   flights>>

\* Back at the top of the loop, which calls next_task first.
BeginNext ==
    /\ \/ phase = "spawned"
       \/ phase = "start" /\ ready = <<>>
    /\ phase' = "next"
    /\ UNCHANGED <<tasks, heap, deferred, ready, level, context, quiet,
                   reloadCursor, seed, now, flights, mistaken>>

-----------------------------------------------------------------------------
(* next_task: drop what cannot run, look at what is next.                  *)

\* The top entry is the next task, and stays in the heap.
IsNext(e) ==
    /\ ~Stale(e)
    /\ IF tasks[e.card].runOnce
         THEN RunOncePermitted(tasks[e.card].pendingReason, quiet)
         ELSE ~quiet /\ Unattended(tasks[e.card])

NextDefer(e) ==
    /\ phase = "next" /\ level # "suspended" /\ IsTop(e)
    /\ ~Stale(e) /\ Held(e)
    /\ heap' = heap \ {e}
    /\ deferred' = deferred \cup {e}
    /\ UNCHANGED <<tasks, ready, phase, level, context, quiet, reloadCursor, seed, now,
                   flights, mistaken>>

NextDrop(e) ==
    /\ phase = "next" /\ level # "suspended" /\ IsTop(e)
    /\ ~IsNext(e) /\ (Held(e) => Stale(e))
    /\ heap' = heap \ {e}
    /\ UNCHANGED <<tasks, deferred, ready, phase, level, context, quiet,
                   reloadCursor, seed, now, flights, mistaken>>

NextEnd ==
    /\ phase = "next"
    /\ level = "suspended" \/ heap = {} \/ \E e \in heap : IsTop(e) /\ IsNext(e)
    /\ phase' = "sleep"
    /\ heap' = Compacted(heap \cup deferred, tasks)
    /\ deferred' = {}
    /\ UNCHANGED <<tasks, ready, level, context, quiet, reloadCursor, seed, now,
                   flights, mistaken>>

-----------------------------------------------------------------------------
Tick ==
    /\ AtRest
    /\ now' = now + 1
    /\ UNCHANGED <<tasks, heap, deferred, ready, phase, level, context, quiet,
                   reloadCursor, seed, flights, mistaken>>

Configure ==
    \/ \E c \in Cards : \E r \in Registrations[c] :
          \/ Register(c, r)
          \/ Rebind(c, r)
          \/ \E keep \in BOOLEAN : Replace(c, r, keep)
    \/ \E c \in Cards : Unregister(c)
    \/ Clear

Permit ==
    \/ \E p \in Permits : SetWorkLevel(p[1], p[2])
    \/ \E q \in BOOLEAN : SetPeriodicRefreshPaused(q)
    \/ \E page \in Pages : SetActivePage(page)

Request ==
    \/ \E c \in Cards : RequestNow(c) \/ RequestConfigReload(c)
    \/ \E c \in Cards, key \in SourceKeys, revision \in Revisions :
          RequestSource(c, key, revision)
    \/ RequestAllNow

Complete ==
    \E w \in flights :
        \/ \E ok \in BOOLEAN, deadline \in Deadlines(w) : MarkDone(w, ok, deadline)
        \/ Outdated(w)

PollLoop ==
    \/ PollBegin
    \/ \E e \in heap : PollDefer(e) \/ PollDrop(e) \/ PollTake(e)
    \/ PollEnd
    \/ Start \/ StartUnavailable
    \/ BeginNext
    \/ \E e \in heap : NextDefer(e) \/ NextDrop(e)
    \/ NextEnd

Next == Configure \/ Permit \/ Request \/ Complete \/ PollLoop \/ Tick

Spec == Init /\ [][Next]_vars

-----------------------------------------------------------------------------
(* Correctness.                                                            *)

TypeOK ==
    /\ Registered \subseteq Cards
    /\ tasks \in [Registered -> Tasks]
    /\ heap \subseteq Entries
    /\ deferred \subseteq Entries
    /\ ready \in Seq(Registered)
    /\ phase \in Phases
    /\ phase \notin {"poll", "start"} => ready = <<>>
    /\ phase \notin {"poll", "next"} => deferred = {}
    /\ level \in Levels
    /\ context \in Contexts
    /\ quiet \in BOOLEAN
    /\ reloadCursor \in Times
    /\ seed \in Nat
    /\ now \in Nat
    /\ flights \subseteq Flights
    /\ mistaken \subseteq Registered

Pending(c) == \E i \in 1 .. Len(ready) : ready[i] = c

\* A card that may be collected without any further event.
Runnable(c) ==
    /\ c \in Registered
    /\ ~tasks[c].running /\ ~Pending(c)
    /\ level # "suspended" /\ ~quiet /\ ~tasks[c].paused
    /\ \/ tasks[c].runOnce
       \/ tasks[c].lastStarted = Never
       \/ Interval(tasks[c]) # NoInterval

\* No lost wake-up.  Whatever sequence of permits, page switches, requests,
\* completions and reloads went before, a card that may run has its current
\* entry among those poll will see: otherwise nothing would ever start it again
\* and the card would freeze on the dashboard without any error.  That does happen to
\* an idle card reached by the completion of a former registration: it is exempt until
\* its next start.
NoLostWakeup ==
    \A c \in Cards \ mistaken : Runnable(c) => Entry(c, tasks[c]) \in heap \cup deferred

\* No lost source edge.  A revision requested of a card and neither covered by
\* its last collections nor by the one under way has left a follow-up or a
\* queued run behind, however it raced with the completion.
NoLostRevision ==
    \A c \in Registered, k \in SourceKeys :
        LET t == tasks[c]
        IN  t.requested[k] > Larger(t.completed[k], t.active[k])
              => IF t.running THEN t.pendingEvent ELSE t.runOnce

\* A queued run always knows why: the reason decides whether quiet hours hold it
\* and which revision it serves, and it is taken from two places of the code.  Only the
\* completion of a former registration takes it from an idle card.
ReasonKept ==
    \A c \in Registered \ mistaken :
        (tasks[c].runOnce \/ tasks[c].pendingEvent) <=> tasks[c].pendingReason # NoReason

\* No card is queued twice: of all its entries, the only one of the current
\* generation is the task's own slot.  A second one would start the card twice.
OneLiveEntry ==
    \A e \in heap \cup deferred : ~Stale(e) => e = Entry(e.card, tasks[e.card])

\* No re-entrant collection: what poll returned is idle, returned once, and is not also
\* waiting in the heap; and no card is idle, or started again, while a worker of its
\* registration is in flight whose completion the generation still admits.
NoReentry ==
    /\ \A i, j \in 1 .. Len(ready) : ready[i] = ready[j] => i = j
    /\ \A c \in Registered : tasks[c].running \/ Pending(c) =>
          /\ ~(tasks[c].running /\ Pending(c))
          /\ ~tasks[c].runOnce
          /\ Entry(c, tasks[c]) \notin heap \cup deferred
    /\ \A v \in flights : v.own /\ Current(v) =>
          /\ tasks[v.card].running
          /\ \A w \in flights : w.own /\ w.card = v.card /\ w.gen = v.gen => w = v

\* What poll has taken may start: the window is shown at some level; quiet hours admit
\* manual and source requests only; without a request the page is shown and the policy
\* has an interval, or it is the first run.  Absolute deadlines are never taken early,
\* other work is early by at most the coalescing window.  A request that lost its reason
\* to the completion of a former registration is taken for an unattended one.
PermittedStart ==
    \A c \in Registered : Pending(c) =>
        LET t == tasks[c]
        IN  /\ level # "suspended"
            /\ t.nextRun <= now + Coalesce[level]
            /\ t.policy.scheduled \/ Expensive(t) \/ t.activeReason = "wallclock"
                 => t.nextRun <= now
            /\ c \notin mistaken =>
                  /\ quiet => t.activeReason \notin {"wallclock", NoReason}
                  /\ t.activeReason = NoReason => Unattended(t)

\* Stale entries do not accumulate: when the loop goes to sleep, the heap is
\* within the bound it is compacted to.
HeapBounded ==
    [][phase = "next" /\ phase' = "sleep" =>
         Cardinality(heap') <= CompactFactor * Cardinality(Registered) + CompactSlack]_vars

\* A change of permit keeps the wall-clock anchor of a fixed schedule: its next slot stays,
\* or is now if it has passed; expensive work whose slot came in quiet hours takes its turn
\* after them, never earlier.
AnchorsKept ==
    [][<<level, context, quiet>>' # <<level, context, quiet>> =>
         \A c \in Registered :
            LET t    == tasks[c]
                next == tasks'[c].nextRun
            IN  t.policy.scheduled /\ ~t.running /\ ~t.runOnce /\ t.lastStarted # Never
                  => \/ next = t.nextRun
                     \/ t.nextRun < now /\ next = now
                     \/ quiet /\ ~quiet' /\ Expensive(t) /\ t.nextRun <= now /\ now <= next]_vars

\* When quiet hours end, user and source requests are due at once, and unattended
\* expensive work that was overdue is at least one slot apart, pairwise.
ResumeSpread ==
    [][quiet /\ ~quiet' /\ level # "suspended" =>
         LET idle    == {c \in Registered : ~tasks[c].running}
             asked   == {c \in idle : tasks[c].runOnce /\ tasks[c].pendingReason # "wallclock"}
             overdue == {c \in idle \ asked : /\ Expensive(tasks[c])
                                             /\ Wanted(tasks[c], level, context, FALSE) = now}
         IN  /\ \A c \in asked : tasks'[c].nextRun = now
             /\ \A c, d \in overdue : c < d =>
                    \/ tasks'[c].nextRun + Slot <= tasks'[d].nextRun
                    \/ tasks'[d].nextRun + Slot <= tasks'[c].nextRun]_vars
=============================================================================
