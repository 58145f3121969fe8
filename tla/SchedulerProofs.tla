--------------------------- MODULE SchedulerProofs --------------------------
(***************************************************************************)
(* Theorems about Scheduler, for every set of cards, pages, policies and   *)
(* sources, and for a clock and generations without bound.                 *)
(***************************************************************************)
EXTENDS Scheduler, FiniteSetTheorems, TLAPS

-----------------------------------------------------------------------------
(* The interval and backoff tables of WorkPolicy.                          *)

\* A period is a natural number; 0 is NoInterval.
LEMMA IntervalType ==
    ASSUME NEW lv \in Levels, NEW ctx \in Contexts, NEW p \in Policies
    PROVE  EffectiveInterval(lv, ctx, p) \in Nat
<1>1. Multiplier(ThrottleLevel(lv, ctx, p), p.workload) \in Nat
  BY DEF Multiplier, Policies, Workloads
<1>2. FullInterval(p) \in Nat /\ ExplicitInterval(ctx, p) \in Nat
  BY WorkPolicyAssumption DEF FullInterval, ExplicitInterval, Policies, Larger, Contexts, NoInterval
<1>3. RawInterval(lv, ctx, p) \in Nat
  BY <1>1, <1>2 DEF RawInterval, Policies, Larger
<1>4. ClampMin(RawInterval(lv, ctx, p), p) \in Nat
  BY <1>3 DEF ClampMin, Larger, Policies
<1> QED
  BY <1>4 DEF EffectiveInterval, NoInterval

\* The factors of the backoff table.
LEMMA BackoffType ==
    ASSUME NEW interval \in Nat, NEW f \in FailureCounts
    PROVE  Backoff(interval, f) \in Nat
<1>1. BackoffFactor[f] \in Nat
  BY DEF BackoffFactor, FailureCounts, MaxBackoffFailures
<1> QED
  BY <1>1 DEF Backoff

-----------------------------------------------------------------------------
(* What the operations on one runtime return.                              *)

LEMMA NewTaskType ==
    ASSUME NEW page \in Pages, NEW policy \in Policies, NEW g \in Nat, NEW time \in Nat
    PROVE  NewTask(page, policy, g, time) \in Tasks
BY DEF NewTask, Tasks, NoRevisions, Times, FailureCounts, MaxBackoffFailures

LEMMA NotedType ==
    ASSUME NEW t \in Tasks, NEW reason \in Reasons, NEW revision \in Nat
    PROVE  /\ Noted(t, reason, revision) \in Tasks
           /\ \E r \in [SourceKeys -> Nat] :
                 Noted(t, reason, revision) = [t EXCEPT !.requested = r]
<1>1. CASE IsNewRevision(t, reason, revision)
  <2> DEFINE r == [t.requested EXCEPT ![reason] = revision]
  <2>1. r \in [SourceKeys -> Nat]
    BY DEF Tasks
  <2>2. Noted(t, reason, revision) = [t EXCEPT !.requested = r]
    BY <1>1 DEF Noted
  <2> HIDE DEF r
  <2> QED
    BY <2>1, <2>2 DEF Tasks
<1>2. CASE ~IsNewRevision(t, reason, revision)
  <2>1. t.requested \in [SourceKeys -> Nat] /\ t = [t EXCEPT !.requested = t.requested]
    BY DEF Tasks
  <2> QED
    BY <1>2, <2>1 DEF Noted
<1> QED
  BY <1>1, <1>2

LEMMA RequestedType ==
    ASSUME NEW t \in Tasks, NEW reason \in Reasons, NEW revision \in Nat, NEW slot \in Nat
    PROVE  Requested(t, reason, revision, slot) \in Tasks
<1> DEFINE noted == Noted(t, reason, revision)
           best  == PreferReason(t.pendingReason, reason)
<1>1. best \in Reasons \cup {NoReason}
  BY DEF PreferReason, Tasks
<1>2. noted \in Tasks
  BY NotedType
<1> HIDE DEF noted, best
<1>3. [noted EXCEPT !.pendingEvent = TRUE, !.pendingReason = best] \in Tasks
  BY <1>1, <1>2 DEF Tasks
<1>4. [noted EXCEPT !.pendingReason = best] \in Tasks
  BY <1>1, <1>2 DEF Tasks
<1>5. [noted EXCEPT !.runOnce = TRUE, !.pendingReason = reason,
                    !.nextRun = slot, !.generation = @ + 1] \in Tasks
  <2>1. noted.generation + 1 \in Nat
    BY <1>2 DEF Tasks
  <2> QED
    BY <1>2, <2>1 DEF Tasks
<1> QED
  BY <1>2, <1>3, <1>4, <1>5 DEF Requested, noted, best

LEMMA DequeuedType ==
    ASSUME NEW t \in Tasks
    PROVE  Dequeued(t) \in Tasks
BY DEF Dequeued, Tasks

LEMMA StartedType ==
    ASSUME NEW t \in Tasks, now \in Nat
    PROVE  Started(t) \in Tasks
BY DEF Started, Tasks, Times

LEMMA FinishedType ==
    ASSUME NEW t \in Tasks, NEW base \in Nat, NEW ok \in BOOLEAN, NEW deadline \in Times,
           now \in Nat, level \in Levels, context \in Contexts
    PROVE  Finished(t, base, ok, deadline) \in Tasks
<1> DEFINE completed == Covered(t)
           newer     == Newer(t)
           left      == [k \in SourceKeys |-> IF k \in newer THEN t.requested[k] ELSE 0]
           failures  == IF ok THEN 0 ELSE Smaller(t.failures + 1, MaxBackoffFailures)
           success   == IF ok THEN now ELSE t.lastSuccess
           interval  == IF t.policy.scheduled THEN base ELSE Interval(t)
           following == IF interval = NoInterval THEN t.nextRun
                        ELSE IF deadline # Never THEN deadline
                        ELSE now + Backoff(interval, failures)
           ended     == [t EXCEPT !.running = FALSE, !.activeReason = NoReason,
                               !.active = NoRevisions, !.failures = failures,
                               !.lastSuccess = success,
                               !.generation = @ + 1]
<1>1. completed \in [SourceKeys -> Nat] /\ left \in [SourceKeys -> Nat]
  BY DEF Tasks, Larger, Covered
<1>2. failures \in FailureCounts
  BY DEF Tasks, FailureCounts, MaxBackoffFailures, Smaller
<1>3. success \in Times
  BY DEF Tasks, Times
<1>4. interval \in Nat
  BY IntervalType DEF Interval, Tasks, Policies
<1>5. following \in Nat
  <2>1. Backoff(interval, failures) \in Nat
    BY <1>2, <1>4, BackoffType
  <2> HIDE DEF interval, failures
  <2> QED
    BY <2>1 DEF Tasks, Times, Never
<1>6. ended \in Tasks
  <2> HIDE DEF failures, success
  <2>1. t.generation + 1 \in Nat
    BY DEF Tasks
  <2>2. NoRevisions \in [SourceKeys -> Nat]
    BY DEF NoRevisions
  <2> QED
    BY <1>2, <1>3, <2>1, <2>2 DEF Tasks
<1>7. [ended EXCEPT !.pendingEvent = FALSE, !.runOnce = TRUE, !.nextRun = now,
             !.completed = completed, !.requested = left] \in Tasks
  <2> HIDE DEF ended, completed, left
  <2> QED
    BY <1>1, <1>6 DEF Tasks
<1>8. [ended EXCEPT !.pendingReason = NoReason, !.requested = NoRevisions,
             !.completed = NoRevisions, !.nextRun = following] \in Tasks
  <2> HIDE DEF ended, following
  <2>1. NoRevisions \in [SourceKeys -> Nat]
    BY DEF NoRevisions
  <2> QED
    BY <1>5, <1>6, <2>1 DEF Tasks
<1>9. Finished(t, base, ok, deadline) =
        IF FollowsUp(t)
          THEN [ended EXCEPT !.pendingEvent = FALSE, !.runOnce = TRUE, !.nextRun = now,
                             !.completed = completed, !.requested = left]
          ELSE [ended EXCEPT !.pendingReason = NoReason, !.requested = NoRevisions,
                             !.completed = NoRevisions, !.nextRun = following]
  BY Zenon DEF Finished
<1> QED
  BY <1>7, <1>8, <1>9

LEMMA EntryType ==
    ASSUME NEW c \in Cards, NEW t \in Tasks
    PROVE  Entry(c, t) \in Entries
BY DEF Entry, Entries, Tasks

-----------------------------------------------------------------------------
(* What the operations on the heap and the map return.                     *)

\* Compaction drops entries only, and never the current one of a card.
LEMMA CompactedKeeps ==
    ASSUME NEW h, NEW ts
    PROVE  /\ Compacted(h, ts) \subseteq h
           /\ \A c \in DOMAIN ts : Entry(c, ts[c]) \in h => Entry(c, ts[c]) \in Compacted(h, ts)
BY DEF Compacted, Entry

LEMMA WantedType ==
    ASSUME NEW t \in Tasks, NEW lv \in Levels, NEW ctx \in Contexts, NEW q \in BOOLEAN,
           now \in Nat
    PROVE  Wanted(t, lv, ctx, q) \in Times
<1> DEFINE interval == EffectiveInterval(lv, ctx, t.policy)
           anchor   == IF t.lastSuccess # Never THEN t.lastSuccess ELSE t.lastStarted
<1>1. interval \in Nat
  BY IntervalType DEF Tasks
<1>2. anchor \in Times
  BY DEF Tasks
<1>3. Larger(t.nextRun, now) \in Nat
  BY DEF Tasks, Larger
<1>4. Larger(anchor + interval, now) \in Nat
  <2> HIDE DEF interval, anchor
  <2> QED BY <1>1, <1>2 DEF Larger, Times, Never
<1> QED
  BY <1>3, <1>4 DEF Wanted, Upcoming, Times, Never

\* The place of a card in the resume cursor.
LEMMA SlotsBeforeType ==
    ASSUME TypeOK, NEW c \in Registered, NEW lv, NEW ctx, NEW q
    PROVE  SlotsBefore(c, lv, ctx, q) \in Nat
<1> DEFINE earlier == {d \in Registered :
        /\ Spreads(tasks[d], lv, ctx, q)
        /\ \/ tasks[d].runOnce /\ ~tasks[c].runOnce
           \/ tasks[d].runOnce = tasks[c].runOnce /\ d < c}
<1>1. earlier \subseteq Cards
  BY DEF TypeOK
<1>2. IsFiniteSet(earlier)
  BY <1>1, SchedulerAssumption, FS_Subset
<1> QED
  BY <1>2, FS_CardinalityType DEF SlotsBefore

LEMMA RescheduledType ==
    ASSUME TypeOK, NEW c \in Registered, NEW lv \in Levels, NEW ctx \in Contexts,
           NEW q \in BOOLEAN, NEW resumed \in BOOLEAN
    PROVE  RescheduledAt(c, lv, ctx, q, resumed) \in Times
<1>1. Wanted(tasks[c], lv, ctx, q) \in Times
  BY WantedType DEF TypeOK
<1>2. SlotsBefore(c, lv, ctx, q) \in Nat
  BY SlotsBeforeType
<1>3. now + Slot * SlotsBefore(c, lv, ctx, q) \in Times
  <2>1. Slot * SlotsBefore(c, lv, ctx, q) \in Nat
    BY <1>2, SchedulerAssumption
  <2>2. now \in Nat
    BY DEF TypeOK
  <2> QED
    BY <2>1, <2>2 DEF Times
<1> QED
  BY <1>1, <1>3 DEF RescheduledAt

\* Inserting a runtime, and replacing one in place.
LEMMA InsertedType ==
    ASSUME TypeOK, NEW c \in Cards, NEW t \in Tasks
    PROVE  /\ DOMAIN Inserted(c, t) = Registered \cup {c}
           /\ Inserted(c, t) \in [Registered \cup {c} -> Tasks]
BY DEF TypeOK, Inserted, Registered

LEMMA UpdatedType ==
    ASSUME TypeOK, NEW c \in Registered, NEW t \in Tasks
    PROVE  /\ DOMAIN [tasks EXCEPT ![c] = t] = Registered
           /\ [tasks EXCEPT ![c] = t] \in [Registered -> Tasks]
           /\ [tasks EXCEPT ![c] = t][c] = t
BY DEF TypeOK, Registered

-----------------------------------------------------------------------------
(* Types.                                                                  *)

LEMMA TypeInit == Init => TypeOK
<1> SUFFICES ASSUME Init PROVE TypeOK
  OBVIOUS
<1>1. tasks \in [{} -> Tasks] /\ Registered = {}
  BY DEF Init, Registered
<1>2. ready \in Seq(Registered) /\ ready = <<>> /\ deferred = {}
  BY DEF Init
<1>3. phase \in Phases /\ level \in Levels /\ context \in Contexts /\ quiet \in BOOLEAN
  BY DEF Init, Phases, Levels, Contexts
<1>4. reloadCursor \in Times /\ seed \in Nat /\ now \in Nat
  BY DEF Init, Times
<1>5. heap \subseteq Entries /\ deferred \subseteq Entries
  BY DEF Init
<1>6. flights \subseteq Flights /\ mistaken \subseteq Registered
  BY DEF Init
<1> QED
  BY <1>1, <1>2, <1>3, <1>4, <1>5, <1>6 DEF TypeOK

\* What an action must show of the variables it replaces.
LEMMA TypeFrame ==
    ASSUME TypeOK,
           NEW S \in SUBSET Cards, tasks' \in [S -> Tasks],
           heap' \subseteq Entries, deferred' \subseteq Entries,
           ready' \in Seq(S), phase' \in Phases,
           phase' \notin {"poll", "start"} => ready' = <<>>,
           phase' \notin {"poll", "next"} => deferred' = {},
           level' \in Levels, context' \in Contexts, quiet' \in BOOLEAN,
           reloadCursor' \in Times, seed' \in Nat, now' \in Nat,
           flights' \subseteq Flights, mistaken' \subseteq S
    PROVE  TypeOK'
BY DEF TypeOK, Registered

\* The same for a handler, which runs while no poll is under way.
LEMMA HandlerFrame ==
    ASSUME TypeOK, AtRest,
           NEW S \in SUBSET Cards, tasks' \in [S -> Tasks],
           heap' \subseteq Entries, UNCHANGED <<deferred, ready, phase>>,
           level' \in Levels, context' \in Contexts, quiet' \in BOOLEAN,
           reloadCursor' \in Times, seed' \in Nat, now' \in Nat,
           flights' \subseteq Flights, mistaken' \subseteq S
    PROVE  TypeOK'
<1>1. ready' = <<>> /\ deferred' = {}
  BY DEF AtRest, TypeOK
<1>2. ready' \in Seq(S)
  BY <1>1
<1> QED
  BY <1>1, <1>2, TypeFrame DEF TypeOK

\* The workers of removed cards stay, and what is known of those cards goes.
LEMMA DisownedType ==
    ASSUME TypeOK, NEW cs, Disowned(cs)
    PROVE  /\ flights' \subseteq Flights
           /\ mistaken' \subseteq Registered \ cs
<1>1. ASSUME NEW w \in flights PROVE [w EXCEPT !.own = w.own /\ w.card \notin cs] \in Flights
  <2>1. w \in Flights
    BY DEF TypeOK
  <2>2. (w.own /\ w.card \notin cs) \in BOOLEAN
    OBVIOUS
  <2> QED
    BY <2>1, <2>2 DEF Flights
<1> QED
  BY <1>1 DEF Disowned, TypeOK

LEMMA TypeConfigure == TypeOK /\ Configure => TypeOK'
<1> SUFFICES ASSUME TypeOK, Configure PROVE TypeOK'
  OBVIOUS
<1> USE DEF Registered
<1>1. ASSUME NEW c \in Cards, NEW r \in Registrations[c]
      PROVE  r.page \in Pages /\ r.policy \in Policies
  BY <1>1, SchedulerAssumption
<1>2. ASSUME NEW c \in Cards, NEW r \in Registrations[c], Register(c, r) PROVE TypeOK'
  <2> DEFINE t == NewTask(r.page, r.policy, seed + 1, now)
  <2>1. t \in Tasks
    <3>1. r.page \in Pages /\ r.policy \in Policies
      BY <1>1
    <3>2. seed + 1 \in Nat /\ now \in Nat
      BY DEF TypeOK
    <3> QED
      BY <3>1, <3>2, NewTaskType
  <2>2. Entry(c, t) \in Entries
    BY <2>1, EntryType
  <2>3. Inserted(c, t) \in [Registered \cup {c} -> Tasks]
    BY <2>1, InsertedType
  <2> HIDE DEF t
  <2>4. tasks' = Inserted(c, t) /\ heap' = heap \cup {Entry(c, t)} /\ seed' \in Nat
    BY <1>2 DEF Register, TypeOK, t
  <2>5. UNCHANGED <<deferred, ready, phase, level, context, quiet, reloadCursor, now,
                    flights, mistaken>>
    BY <1>2 DEF Register
  <2> QED
    BY <1>2, <2>2, <2>3, <2>4, <2>5, HandlerFrame DEF TypeOK, Register
<1>3. ASSUME NEW c \in Cards, NEW r \in Registrations[c], Rebind(c, r) PROVE TypeOK'
  <2> DEFINE t == [tasks[c] EXCEPT !.page = r.page, !.policy = r.policy]
  <2>1. tasks[c] \in Tasks /\ c \in Registered
    BY <1>3 DEF Rebind, TypeOK
  <2>2. t \in Tasks
    <3>1. r.page \in Pages /\ r.policy \in Policies
      BY <1>1
    <3> QED
      BY <2>1, <3>1 DEF Tasks
  <2> HIDE DEF t
  <2>3. [tasks EXCEPT ![c] = t] \in [Registered -> Tasks]
    BY <2>1, <2>2, UpdatedType
  <2>4. tasks' = [tasks EXCEPT ![c] = t]
    BY <1>3 DEF Rebind, t
  <2> QED
    BY <1>3, <2>3, <2>4, HandlerFrame DEF TypeOK, Rebind
<1>4. ASSUME NEW c \in Cards, NEW r \in Registrations[c], NEW keep \in BOOLEAN,
             Replace(c, r, keep)
      PROVE  TypeOK'
  <2> DEFINE fresh == NewTask(r.page, r.policy, seed + 1, now)
             kept  == [fresh EXCEPT !.nextRun = tasks[c].nextRun, !.generation = @ + 1]
             old   == Compacted(heap, Without(c))
             t     == IF keep THEN kept ELSE fresh
             new   == old \cup {Entry(c, fresh)} \cup (IF keep THEN {Entry(c, kept)} ELSE {})
  <2>1. fresh \in Tasks
    <3>1. r.page \in Pages /\ r.policy \in Policies
      BY <1>1
    <3>2. seed + 1 \in Nat /\ now \in Nat
      BY DEF TypeOK
    <3> QED
      BY <3>1, <3>2, NewTaskType
  <2>2. kept \in Tasks
    <3> HIDE DEF fresh
    <3>1. tasks[c].nextRun \in Nat
      BY <1>4 DEF Replace, TypeOK, Tasks
    <3>2. fresh.generation + 1 \in Nat
      BY <2>1 DEF Tasks
    <3> QED
      BY <2>1, <3>1, <3>2 DEF Tasks
  <2> HIDE DEF kept, fresh
  <2>3. old \subseteq Entries
    BY CompactedKeeps DEF TypeOK
  <2> HIDE DEF old
  <2>4. new \subseteq Entries /\ t \in Tasks
    BY <2>1, <2>2, <2>3, EntryType
  <2> HIDE DEF new, t
  <2>5. Inserted(c, t) \in [Registered \cup {c} -> Tasks]
    BY <2>4, InsertedType
  <2>6. tasks' = Inserted(c, t) /\ heap' = new /\ seed' \in Nat
    BY <1>4 DEF Replace, TypeOK, new, t, old, kept, fresh
  <2>7. /\ UNCHANGED <<deferred, ready, phase, level, context, quiet, reloadCursor, now>>
        /\ Disowned({c})
    BY <1>4 DEF Replace
  <2>8. flights' \subseteq Flights /\ mistaken' \subseteq Registered \cup {c}
    BY <2>7, DisownedType
  <2> QED
    BY <1>4, <2>4, <2>5, <2>6, <2>7, <2>8, HandlerFrame DEF TypeOK, Replace
<1>5. ASSUME NEW c \in Cards, Unregister(c) PROVE TypeOK'
  <2>1. tasks' \in [Registered \ {c} -> Tasks] /\ heap' \subseteq Entries
    BY <1>5, CompactedKeeps DEF Unregister, TypeOK, Without
  <2>2. flights' \subseteq Flights /\ mistaken' \subseteq Registered \ {c}
    BY <1>5, DisownedType DEF Unregister
  <2> QED
    BY <1>5, <2>1, <2>2, HandlerFrame DEF TypeOK, Unregister
<1>6. ASSUME Clear PROVE TypeOK'
  <2>1. tasks' \in [{} -> Tasks] /\ heap' \subseteq Entries
    BY <1>6 DEF Clear
  <2>2. flights' \subseteq Flights /\ mistaken' \subseteq {}
    BY <1>6, DisownedType DEF Clear
  <2> QED
    BY <1>6, <2>1, <2>2, HandlerFrame DEF TypeOK, Clear, Times, Never
<1> QED
  BY <1>2, <1>3, <1>4, <1>5, <1>6 DEF Configure

\* Reschedule, the common part of the two permit changes.
LEMMA TypeReschedule ==
    ASSUME TypeOK, NEW lv \in Levels, NEW ctx \in Contexts, NEW q \in BOOLEAN,
           NEW resumed \in BOOLEAN, Reschedule(lv, ctx, q, resumed)
    PROVE  tasks' \in [Registered -> Tasks] /\ heap' \subseteq Entries
<1> DEFINE at    == [c \in Registered |-> RescheduledAt(c, lv, ctx, q, resumed)]
           idle  == {c \in Registered : ~tasks[c].running}
           moved == {c \in idle : at[c] # Never}
<1>1. \A c \in Registered : at[c] \in Times
  BY RescheduledType
<1> HIDE DEF at
<1>2. tasks' = [c \in Registered |->
         IF c \in moved
           THEN [tasks[c] EXCEPT !.generation = @ + 1, !.nextRun = at[c]]
         ELSE IF c \in idle THEN [tasks[c] EXCEPT !.generation = @ + 1]
         ELSE tasks[c]]
  BY DEF Reschedule, at
<1>3. heap' = Compacted(heap \cup {Entry(c, tasks'[c]) : c \in moved}, tasks')
  BY DEF Reschedule, at
<1>4. ASSUME NEW c \in Registered PROVE tasks'[c] \in Tasks
  <2>1. tasks[c] \in Tasks /\ tasks[c].generation + 1 \in Nat
    BY DEF TypeOK, Tasks
  <2>2. c \in moved => at[c] \in Nat
    BY <1>1 DEF Times
  <2>3. c \in moved => [tasks[c] EXCEPT !.generation = @ + 1, !.nextRun = at[c]] \in Tasks
    BY <2>1, <2>2 DEF Tasks
  <2>4. [tasks[c] EXCEPT !.generation = @ + 1] \in Tasks
    BY <2>1 DEF Tasks
  <2> QED
    BY <1>2, <2>1, <2>3, <2>4
<1>5. tasks' \in [Registered -> Tasks]
  BY <1>2, <1>4
<1>6. \A c \in moved : Entry(c, tasks'[c]) \in Entries
  BY <1>4, EntryType DEF TypeOK
<1> QED
  BY <1>3, <1>5, <1>6, CompactedKeeps DEF TypeOK

LEMMA TypePermit == TypeOK /\ Permit => TypeOK'
<1> SUFFICES ASSUME TypeOK, Permit PROVE TypeOK'
  OBVIOUS
<1>1. ASSUME NEW p \in Permits, SetWorkLevel(p[1], p[2]) PROVE TypeOK'
  <2>1. p[1] \in Levels /\ p[2] \in Contexts
    BY SchedulerAssumption
  <2>2. quiet \in BOOLEAN /\ Reschedule(p[1], p[2], quiet, FALSE)
    BY <1>1 DEF SetWorkLevel, TypeOK
  <2>3. tasks' \in [Registered -> Tasks] /\ heap' \subseteq Entries
    BY <2>1, <2>2, TypeReschedule
  <2> QED
    BY <1>1, <2>1, <2>3, HandlerFrame DEF TypeOK, SetWorkLevel
<1>2. ASSUME NEW q \in BOOLEAN, SetPeriodicRefreshPaused(q) PROVE TypeOK'
  <2>1. tasks' \in [Registered -> Tasks] /\ heap' \subseteq Entries
    BY <1>2, TypeReschedule DEF SetPeriodicRefreshPaused, TypeOK
  <2> QED
    BY <1>2, <2>1, HandlerFrame DEF TypeOK, SetPeriodicRefreshPaused
<1>3. ASSUME NEW page \in Pages, SetActivePage(page) PROVE TypeOK'
  <2> DEFINE turned == {c \in Registered : tasks[c].paused # (tasks[c].page # page)}
             idle   == {c \in turned : ~tasks[c].running}
             shown  == {c \in idle : tasks[c].paused /\ level # "suspended" /\ ~quiet}
             turn(c) == [tasks[c] EXCEPT
                      !.paused     = (tasks[c].page # page),
                      !.generation = IF c \in idle THEN tasks[c].generation + 1
                                                   ELSE tasks[c].generation,
                      !.nextRun    = IF c \in shown THEN now ELSE tasks[c].nextRun]
  <2>1. tasks' = [c \in Registered |-> turn(c)]
    BY <1>3 DEF SetActivePage
  <2>2. heap' = heap \cup {Entry(c, tasks'[c]) : c \in shown}
    BY <1>3 DEF SetActivePage
  <2>3. ASSUME NEW c \in Registered PROVE turn(c) \in Tasks
    <3>1. tasks[c] \in Tasks /\ now \in Nat /\ tasks[c].generation + 1 \in Nat
      BY DEF TypeOK, Tasks
    <3> HIDE DEF idle, shown
    <3> QED
      BY <3>1 DEF Tasks
  <2>4. tasks' \in [Registered -> Tasks]
    <3> HIDE DEF turn
    <3> QED BY <2>1, <2>3
  <2>5. \A c \in shown : Entry(c, tasks'[c]) \in Entries
    BY <2>4, EntryType DEF TypeOK
  <2>6. heap' \subseteq Entries
    BY <2>2, <2>5 DEF TypeOK
  <2> QED
    BY <1>3, <2>4, <2>6, HandlerFrame DEF TypeOK, SetActivePage
<1> QED
  BY <1>1, <1>2, <1>3 DEF Permit

LEMMA TypeRequest == TypeOK /\ Request => TypeOK'
<1> SUFFICES ASSUME TypeOK, Request PROVE TypeOK'
  OBVIOUS
<1>1. ASSUME NEW c \in Registered, NEW t \in Tasks, tasks' = [tasks EXCEPT ![c] = t]
      PROVE  tasks' \in [Registered -> Tasks] /\ Entry(c, tasks'[c]) \in Entries
  BY <1>1, UpdatedType, EntryType DEF TypeOK
<1>2. ASSUME NEW c \in Cards, NEW reason \in Reasons, NEW revision \in Nat,
             RequestEvent(c, reason, revision)
      PROVE  TypeOK'
  <2>1. Requested(tasks[c], reason, revision, now) \in Tasks
    BY <1>2, RequestedType DEF RequestEvent, TypeOK
  <2>2. tasks' \in [Registered -> Tasks] /\ Entry(c, tasks'[c]) \in Entries
    BY <1>1, <1>2, <2>1 DEF RequestEvent
  <2> QED
    BY <1>2, <2>2, HandlerFrame DEF TypeOK, RequestEvent
<1>3. ASSUME NEW c \in Cards, RequestNow(c) PROVE TypeOK'
  BY <1>2, <1>3 DEF RequestNow, Reasons
<1>4. ASSUME NEW c \in Cards, NEW key \in SourceKeys, NEW revision \in Revisions,
             RequestSource(c, key, revision)
      PROVE  TypeOK'
  BY <1>2, <1>4, SchedulerAssumption DEF RequestSource, Reasons
<1>5. ASSUME NEW c \in Cards, RequestConfigReload(c) PROVE TypeOK'
  <2> DEFINE defers == Expensive(tasks[c]) /\ Queues(tasks[c])
             slot   == IF defers THEN Larger(reloadCursor, now) ELSE now
  <2>1. slot \in Nat /\ slot + Slot \in Times
    BY SchedulerAssumption DEF TypeOK, Times, Never, Larger
  <2> HIDE DEF slot
  <2>2. Requested(tasks[c], "wallclock", 0, slot) \in Tasks
    BY <1>5, <2>1, RequestedType DEF RequestConfigReload, TypeOK, Reasons
  <2>3. tasks' = [tasks EXCEPT ![c] = Requested(tasks[c], "wallclock", 0, slot)]
    BY <1>5 DEF RequestConfigReload, slot
  <2>4. tasks' \in [Registered -> Tasks] /\ Entry(c, tasks'[c]) \in Entries
    BY <1>1, <1>5, <2>2, <2>3 DEF RequestConfigReload
  <2>5. reloadCursor' \in Times
    BY <1>5, <2>1 DEF RequestConfigReload, TypeOK, slot
  <2> QED
    BY <1>5, <2>4, <2>5, HandlerFrame DEF TypeOK, RequestConfigReload
<1>6. ASSUME RequestAllNow PROVE TypeOK'
  <2>1. ASSUME NEW c \in Registered PROVE Requested(tasks[c], "manual", 0, now) \in Tasks
    BY <2>1, RequestedType DEF TypeOK, Reasons
  <2>2. tasks' \in [Registered -> Tasks]
    BY <1>6, <2>1 DEF RequestAllNow
  <2>3. \A c \in Registered : Entry(c, tasks'[c]) \in Entries
    BY <2>2, EntryType DEF TypeOK
  <2>4. heap' \subseteq Entries
    BY <1>6, <2>3 DEF RequestAllNow, TypeOK
  <2> QED
    BY <1>6, <2>2, <2>4, HandlerFrame DEF TypeOK, RequestAllNow
<1> QED
  BY <1>3, <1>4, <1>5, <1>6 DEF Request

\* A follow-up instant is a time.
LEMMA DeadlinesType ==
    ASSUME TypeOK, NEW w \in flights, NEW deadline \in Deadlines(w)
    PROVE  deadline \in Times
<1>1. w.at \in Nat /\ now \in Nat
  BY DEF TypeOK, Flights
<1>2. \A d \in SlotDelays : w.at + d \in Times
  BY <1>1, SchedulerAssumption DEF Times
<1>3. \A d \in FollowUpDelays : now + d \in Times
  BY <1>1, SchedulerAssumption DEF Times
<1> QED
  BY <1>2, <1>3 DEF Deadlines, Times

LEMMA TypeComplete == TypeOK /\ Complete => TypeOK'
<1> SUFFICES ASSUME TypeOK, Complete PROVE TypeOK'
  OBVIOUS
<1>1. ASSUME NEW v \in flights, NEW ok \in BOOLEAN, NEW deadline \in Deadlines(v),
             MarkDone(v, ok, deadline)
      PROVE  TypeOK'
  <2>1. deadline \in Times /\ v.base \in Nat /\ v.card \in Registered
    BY <1>1, DeadlinesType DEF TypeOK, Flights, MarkDone, Current
  <2> DEFINE next == Finished(tasks[v.card], v.base, ok, deadline)
  <2>2. next \in Tasks
    BY <2>1, FinishedType DEF TypeOK
  <2>3. /\ tasks' = [tasks EXCEPT ![v.card] = next]
        /\ heap' \subseteq heap \cup {Entry(v.card, next)}
    BY <1>1 DEF MarkDone, Finish
  <2> HIDE DEF next
  <2>4. tasks' \in [Registered -> Tasks] /\ heap' \subseteq Entries
    BY <2>1, <2>2, <2>3, UpdatedType, EntryType DEF TypeOK
  <2>5. flights' \subseteq Flights /\ mistaken' \subseteq Registered
    BY <1>1, <2>1 DEF MarkDone, TypeOK
  <2> QED
    BY <1>1, <2>4, <2>5, HandlerFrame DEF TypeOK, MarkDone
<1>2. ASSUME NEW v \in flights, Outdated(v) PROVE TypeOK'
  BY <1>2, HandlerFrame DEF TypeOK, Outdated
<1> QED
  BY <1>1, <1>2 DEF Complete

\* A new worker has a name of its own among those of its card.
LEMMA LaunchedType ==
    ASSUME TypeOK, NEW c \in Registered, NEW w \in Launched(c, tasks[c])
    PROVE  /\ w \in Flights /\ w.card = c /\ w.gen = tasks[c].generation /\ w.own
           /\ \A v \in flights : v.card = c => v.id # w.id
<1> DEFINE name == CHOOSE id \in Unused(c) : TRUE
           r(i) == [id |-> i, card |-> c, gen |-> tasks[c].generation, at |-> now,
                    base |-> tasks[c].policy.base, scheduled |-> tasks[c].policy.scheduled,
                    own |-> TRUE]
<1>1. Unused(c) # {} /\ w = r(name)
  BY DEF Launched
<1>2. name \in Unused(c)
  BY <1>1
<1> HIDE DEF name
<1>3. tasks[c].generation \in Nat /\ tasks[c].policy \in Policies /\ c \in Cards /\ now \in Nat
  BY DEF TypeOK, Tasks
<1>4. tasks[c].policy.base \in Nat /\ tasks[c].policy.scheduled \in BOOLEAN
  BY <1>3 DEF Policies
<1>5. name \in Workers /\ \A v \in flights : v.card = c => v.id # name
  BY <1>2 DEF Unused
<1>6. r(name) \in Flights
  BY <1>3, <1>4, <1>5 DEF Flights
<1> QED
  BY <1>1, <1>5, <1>6

LEMMA TypePollLoop == TypeOK /\ PollLoop => TypeOK'
<1> SUFFICES ASSUME TypeOK, PollLoop PROVE TypeOK'
  OBVIOUS
<1>1. CASE PollBegin
  BY <1>1, TypeFrame DEF TypeOK, PollBegin, Phases
<1>2. ASSUME NEW e \in heap, PollDefer(e) \/ NextDefer(e) PROVE TypeOK'
  BY <1>2, TypeFrame DEF TypeOK, PollDefer, NextDefer
<1>3. ASSUME NEW e \in heap, PollDrop(e) \/ NextDrop(e) PROVE TypeOK'
  BY <1>3, TypeFrame DEF TypeOK, PollDrop, NextDrop
<1>4. ASSUME NEW e \in heap, PollTake(e) PROVE TypeOK'
  <2>1. e.card \in Registered
    BY <1>4 DEF PollTake, Stale
  <2>2. tasks' \in [Registered -> Tasks]
    BY <1>4, <2>1, DequeuedType, UpdatedType DEF PollTake, TypeOK
  <2>3. ready' \in Seq(Registered)
    BY <1>4, <2>1 DEF PollTake, TypeOK
  <2> QED
    BY <1>4, <2>2, <2>3, TypeFrame DEF TypeOK, PollTake
<1>5. CASE PollEnd
  BY <1>5, TypeFrame, CompactedKeeps DEF TypeOK, PollEnd, Phases
<1>6. CASE Start
  <2>1. ready' \in Seq(Registered)
    BY <1>6 DEF Start, TypeOK
  <2>2. Head(ready) \in Registered
    BY <1>6 DEF Start, TypeOK
  <2>3. tasks' \in [Registered -> Tasks]
    BY <1>6, <2>2, StartedType, UpdatedType DEF Start, TypeOK
  <2>4. flights' \subseteq Flights /\ mistaken' \subseteq Registered
    BY <1>6, <2>2, LaunchedType DEF Start, TypeOK
  <2> QED
    BY <1>6, <2>1, <2>3, <2>4, TypeFrame DEF TypeOK, Start
<1>7. CASE StartUnavailable
  <2> DEFINE c    == Head(ready)
             t    == Started(tasks[c])
             next == Finished(t, t.policy.base, FALSE, Never)
  <2>1. ready' \in Seq(Registered) /\ c \in Registered
    BY <1>7 DEF StartUnavailable, TypeOK
  <2>2. tasks' = [tasks EXCEPT ![c] = next]
        /\ heap' \subseteq heap \cup {Entry(c, next)}
    BY <1>7 DEF StartUnavailable
  <2>3. next \in Tasks
    <3>1. t \in Tasks
      BY <2>1, StartedType DEF TypeOK
    <3> HIDE DEF t
    <3>2. t.policy.base \in Nat
      BY <3>1 DEF Tasks, Policies
    <3> QED
      BY <3>1, <3>2, FinishedType DEF TypeOK, Times
  <2>5. mistaken' \subseteq Registered
    BY <1>7 DEF StartUnavailable, TypeOK
  <2> HIDE DEF next, c
  <2>4. tasks' \in [Registered -> Tasks] /\ heap' \subseteq Entries
    BY <2>1, <2>2, <2>3, UpdatedType, EntryType DEF TypeOK
  <2> QED
    BY <1>7, <2>1, <2>4, <2>5, TypeFrame DEF TypeOK, StartUnavailable
<1>8. CASE BeginNext
  BY <1>8, TypeFrame DEF TypeOK, BeginNext, Phases
<1>9. CASE NextEnd
  BY <1>9, TypeFrame, CompactedKeeps DEF TypeOK, NextEnd, Phases
<1> QED
  BY <1>1, <1>2, <1>3, <1>4, <1>5, <1>6, <1>7, <1>8, <1>9 DEF PollLoop

LEMMA TypeNext == TypeOK /\ [Next]_vars => TypeOK'
<1> SUFFICES ASSUME TypeOK, [Next]_vars PROVE TypeOK'
  OBVIOUS
<1>1. CASE Tick
  BY <1>1, HandlerFrame DEF TypeOK, Tick
<1>2. CASE UNCHANGED vars
  BY <1>2, TypeFrame DEF TypeOK, vars
<1> QED
  BY <1>1, <1>2, TypeConfigure, TypePermit, TypeRequest, TypeComplete, TypePollLoop DEF Next

\* Type correctness.
THEOREM TypeCorrect == Spec => []TypeOK
BY TypeInit, TypeNext, PTL DEF Spec

-----------------------------------------------------------------------------
(* One runtime: its flags, its reason and its revisions agree.             *)

Sound(t) ==
    /\ t.running => t.lastStarted # Never /\ ~t.runOnce
    /\ t.pendingEvent => t.running
    /\ \A k \in SourceKeys :
          t.requested[k] > Larger(t.completed[k], t.active[k])
            => IF t.running THEN t.pendingEvent ELSE t.runOnce

Reasoned(t) == (t.runOnce \/ t.pendingEvent) <=> t.pendingReason # NoReason

LEMMA ReasonsExist == NoReason \notin Reasons
BY WorkPolicyAssumption DEF NoReason, Reasons

\* A request never loses to "no reason".
LEMMA PreferredReason ==
    ASSUME NEW current \in Reasons \cup {NoReason}, NEW reason \in Reasons
    PROVE  PreferReason(current, reason) # NoReason
<1>1. ReasonPriority(reason) \in {1, 2, 3}
  BY DEF ReasonPriority, Reasons
<1>2. ReasonPriority(NoReason) = 0
  BY WorkPolicyAssumption DEF ReasonPriority, NoReason
<1>3. reason # NoReason
  BY ReasonsExist
<1>4. ~(ReasonPriority(NoReason) > ReasonPriority(reason))
  BY <1>1, <1>2
<1> QED
  BY <1>3, <1>4 DEF PreferReason

LEMMA SoundNew ==
    ASSUME NEW page \in Pages, NEW policy \in Policies, NEW g \in Nat, NEW time \in Nat
    PROVE  Sound(NewTask(page, policy, g, time)) /\ Reasoned(NewTask(page, policy, g, time))
BY DEF Sound, Reasoned, NewTask, NoRevisions, Larger

\* What a request leaves alone.
LEMMA RequestedFacts ==
    ASSUME NEW t \in Tasks, NEW reason \in Reasons, NEW revision \in Nat, NEW slot \in Nat,
           NEW u, u = Requested(t, reason, revision, slot)
    PROVE  /\ u.running = t.running /\ u.paused = t.paused /\ u.policy = t.policy
           /\ u.lastStarted = t.lastStarted
           /\ ~Queues(t) => /\ u.runOnce = t.runOnce
                            /\ u.nextRun = t.nextRun /\ u.generation = t.generation
           /\ Queues(t) => u.runOnce /\ u.generation = t.generation + 1
<1>1. PICK r \in [SourceKeys -> Nat] :
        Noted(t, reason, revision) = [t EXCEPT !.requested = r]
  BY NotedType
<1> QED
  BY <1>1 DEF Requested, Queues, Tasks

LEMMA SoundRequested ==
    ASSUME NEW t \in Tasks, NEW reason \in Reasons, NEW revision \in Nat, NEW slot \in Nat,
           Sound(t), NEW u, u = Requested(t, reason, revision, slot)
    PROVE  Sound(u) /\ (Reasoned(t) => Reasoned(u))
<1> DEFINE best == PreferReason(t.pendingReason, reason)
<1>1. best # NoReason /\ reason # NoReason
  BY PreferredReason, ReasonsExist DEF Tasks
<1>2. PICK r \in [SourceKeys -> Nat] :
        Noted(t, reason, revision) = [t EXCEPT !.requested = r]
  BY NotedType
<1> DEFINE noted == [t EXCEPT !.requested = r]
<1> HIDE DEF best
<1>3. CASE t.running
  <2>1. u = [noted EXCEPT !.pendingEvent = TRUE, !.pendingReason = best]
    BY <1>2, <1>3 DEF Requested, best
  <2> QED
    BY <1>1, <1>3, <2>1 DEF Sound, Reasoned, Tasks
<1>4. CASE ~t.running /\ t.runOnce
  <2>1. u = [noted EXCEPT !.pendingReason = best] \/ (u = noted /\ noted = t)
    BY <1>2, <1>4 DEF Requested, best, Noted
  <2> QED
    BY <1>1, <1>4, <2>1 DEF Sound, Reasoned, Tasks
<1>5. CASE ~t.running /\ ~t.runOnce
  <2>1. u = [noted EXCEPT !.runOnce = TRUE, !.pendingReason = reason,
                          !.nextRun = slot, !.generation = @ + 1]
    BY <1>2, <1>5 DEF Requested
  <2> QED
    BY <1>1, <1>5, <2>1 DEF Sound, Reasoned, Tasks
<1> QED
  BY <1>3, <1>4, <1>5

\* poll has consumed the request of the task, and its reason.
Taken(t) == ~t.runOnce /\ ~t.pendingEvent /\ t.pendingReason = NoReason

LEMMA SoundDequeued ==
    ASSUME NEW t \in Tasks, Sound(t), ~t.running
    PROVE  Sound(Dequeued(t)) /\ Reasoned(Dequeued(t)) /\ Taken(Dequeued(t))
BY DEF Sound, Reasoned, Taken, Dequeued, Tasks, Larger

\* A start forgets a completion that was taken for the card's own.
LEMMA SoundStarted ==
    ASSUME NEW t \in Tasks, Sound(t), Taken(t), now \in Nat
    PROVE  Sound(Started(t)) /\ Reasoned(Started(t)) /\ Taken(Started(t))
BY DEF Sound, Reasoned, Taken, Started, Tasks, Never

\* What a completion leaves behind.  u keeps the card's policy and page, and
\* the run it may start next is one that Requeues puts in the heap.
LEMMA FinishedFacts ==
    ASSUME NEW t \in Tasks, NEW base \in Nat, NEW ok \in BOOLEAN, NEW deadline \in Times,
           NEW u, u = Finished(t, base, ok, deadline)
    PROVE  /\ ~u.running /\ u.paused = t.paused /\ u.policy = t.policy
           /\ u.lastStarted = t.lastStarted
           /\ u.generation = t.generation + 1
           /\ ~u.pendingEvent \/ u.pendingEvent = t.pendingEvent
BY DEF Finished, Tasks

\* Its flags agree, except that it may take the reason of a task that was idle.
Settled(t, u) ==
    /\ Sound(u) /\ (t.running /\ Reasoned(t) => Reasoned(u))
    /\ ~u.pendingEvent
    /\ t.running /\ ~t.pendingEvent => Reasoned(u) /\ Taken(u)
    /\ t.running => (FollowsUp(t) <=> u.runOnce)

LEMMA SoundFinished ==
    ASSUME NEW t \in Tasks, NEW base \in Nat, NEW ok \in BOOLEAN, NEW deadline \in Times,
           Sound(t), NEW u, u = Finished(t, base, ok, deadline)
    PROVE  Settled(t, u)
<1> USE DEF Settled, Taken
<1>1. t.running /\ Newer(t) # {} => t.pendingEvent
  BY DEF Sound, Newer, Covered
<1>2. Covered(t) \in [SourceKeys -> Nat]
  BY DEF Tasks, Larger, Covered
<1>3. CASE FollowsUp(t)
  <2> DEFINE left == [k \in SourceKeys |-> IF k \in Newer(t) THEN t.requested[k] ELSE 0]
  <2>1. /\ ~u.running /\ ~u.pendingEvent /\ u.runOnce
        /\ u.pendingReason = t.pendingReason
    BY <1>3 DEF Finished, Tasks
  <2>2. t.running => t.pendingEvent
    BY <1>1, <1>3 DEF FollowsUp
  <2> QED
    BY <1>3, <2>1, <2>2 DEF Sound, Reasoned
<1>4. CASE ~FollowsUp(t)
  <2>1. /\ ~u.running /\ u.pendingEvent = t.pendingEvent /\ u.runOnce = t.runOnce
        /\ u.pendingReason = NoReason
        /\ u.requested = NoRevisions /\ u.completed = NoRevisions /\ u.active = NoRevisions
    BY <1>4 DEF Finished, Tasks
  <2>2. ~t.pendingEvent
    BY <1>4 DEF FollowsUp
  <2> QED
    BY <1>4, <2>1, <2>2 DEF Sound, Reasoned, NoRevisions, Larger
<1> QED
  BY <1>3, <1>4

-----------------------------------------------------------------------------
(* Flags, reasons and revisions, inductively.                              *)

TasksSound ==
    \A c \in Registered : Sound(tasks[c]) /\ (c \notin mistaken => Reasoned(tasks[c]))

ReadyConsumed == \A c \in Registered : Pending(c) => Taken(tasks[c])

Flags == TypeOK /\ TasksSound /\ ReadyConsumed

\* A handler never sees a card between poll and mark_started.
LEMMA NonePending ==
    ASSUME TypeOK, AtRest, UNCHANGED ready
    PROVE  \A c : ~Pending(c) /\ ~Pending(c)'
BY DEF TypeOK, AtRest, Pending

\* u has the flags, the reason and the revisions of t.
Agree(t, u) ==
    /\ u.running = t.running /\ u.runOnce = t.runOnce /\ u.lastStarted = t.lastStarted
    /\ u.pendingEvent = t.pendingEvent /\ u.pendingReason = t.pendingReason
    /\ u.requested = t.requested /\ u.completed = t.completed /\ u.active = t.active

LEMMA SoundAgree ==
    ASSUME NEW t, NEW u, Agree(t, u), Sound(t)
    PROVE  Sound(u) /\ (Reasoned(t) => Reasoned(u))
BY DEF Sound, Reasoned, Agree

LEMMA FlagsConfigure == Flags /\ Configure => TasksSound' /\ ReadyConsumed'
<1> SUFFICES ASSUME Flags, Configure PROVE TasksSound' /\ ReadyConsumed'
  OBVIOUS
<1> USE DEF Flags
<1>1. ASSUME NEW c \in Cards, NEW r \in Registrations[c]
      PROVE  /\ Sound(NewTask(r.page, r.policy, seed + 1, now))
             /\ Reasoned(NewTask(r.page, r.policy, seed + 1, now))
  <2>1. r.page \in Pages /\ r.policy \in Policies /\ seed + 1 \in Nat /\ now \in Nat
    BY SchedulerAssumption DEF TypeOK
  <2> QED
    BY <2>1, SoundNew
<1>2. ASSUME NEW c \in Cards, NEW t, tasks' = Inserted(c, t), Sound(t), Reasoned(t),
             mistaken' = mistaken \ {c}, UNCHANGED ready, AtRest
      PROVE  TasksSound' /\ ReadyConsumed'
  <2>1. ASSUME NEW d \in Registered'
        PROVE  Sound(tasks'[d]) /\ (d \notin mistaken' => Reasoned(tasks'[d]))
    <3>1. CASE d = c
      BY <1>2, <3>1 DEF Inserted
    <3>2. CASE d # c
      <4>1. d \in Registered /\ tasks'[d] = tasks[d] /\ (d \in mistaken' <=> d \in mistaken)
        BY <1>2, <2>1, <3>2 DEF Inserted, Registered
      <4> QED
        BY <4>1 DEF TasksSound
    <3> QED
      BY <3>1, <3>2
  <2> QED
    BY <1>2, <2>1, NonePending DEF TasksSound, ReadyConsumed
<1>3. ASSUME NEW c \in Cards, NEW r \in Registrations[c], Register(c, r)
      PROVE  TasksSound' /\ ReadyConsumed'
  <2>1. mistaken' = mistaken \ {c}
    BY <1>3 DEF Register, TypeOK
  <2> QED
    BY <1>1, <1>2, <1>3, <2>1 DEF Register
<1>4. ASSUME NEW c \in Cards, NEW r \in Registrations[c], Rebind(c, r)
      PROVE  TasksSound' /\ ReadyConsumed'
  <2>1. Agree(tasks[c], [tasks[c] EXCEPT !.page = r.page, !.policy = r.policy])
    BY <1>4 DEF Rebind, Agree, TypeOK, Tasks
  <2>2. TasksSound'
    BY <1>4, <2>1, SoundAgree DEF Rebind, TasksSound, TypeOK, Registered
  <2> QED
    BY <1>4, <2>2, NonePending DEF ReadyConsumed, Rebind
<1>5. ASSUME NEW c \in Cards, NEW r \in Registrations[c], NEW keep \in BOOLEAN,
             Replace(c, r, keep)
      PROVE  TasksSound' /\ ReadyConsumed'
  <2> DEFINE fresh == NewTask(r.page, r.policy, seed + 1, now)
             kept  == [fresh EXCEPT !.nextRun = tasks[c].nextRun, !.generation = @ + 1]
             t     == IF keep THEN kept ELSE fresh
  <2>1. Sound(fresh) /\ Reasoned(fresh)
    BY <1>1
  <2>2. Sound(kept) /\ Reasoned(kept)
    BY <2>1 DEF Sound, Reasoned, NewTask
  <2> HIDE DEF fresh, kept
  <2>3. Sound(t) /\ Reasoned(t)
    BY <2>1, <2>2
  <2>4. tasks' = Inserted(c, t) /\ UNCHANGED ready /\ AtRest /\ mistaken' = mistaken \ {c}
    BY <1>5 DEF Replace, Disowned, kept, fresh
  <2> QED
    BY <1>2, <2>3, <2>4
<1>6. ASSUME NEW c \in Cards, Unregister(c) PROVE TasksSound' /\ ReadyConsumed'
  BY <1>6, NonePending DEF Unregister, Disowned, Without, TasksSound, ReadyConsumed, Registered
<1>7. ASSUME Clear PROVE TasksSound' /\ ReadyConsumed'
  BY <1>7, NonePending DEF Clear, TasksSound, ReadyConsumed, Registered
<1> QED
  BY <1>3, <1>4, <1>5, <1>6, <1>7 DEF Configure

LEMMA FlagsPermit == Flags /\ Permit => TasksSound' /\ ReadyConsumed'
<1> SUFFICES ASSUME Flags, Permit PROVE TasksSound' /\ ReadyConsumed'
  OBVIOUS
<1> USE DEF Flags
<1>1. ASSUME NEW lv, NEW ctx, NEW q, NEW resumed, Reschedule(lv, ctx, q, resumed),
             UNCHANGED mistaken
      PROVE  TasksSound'
  <2> DEFINE at    == [c \in Registered |-> RescheduledAt(c, lv, ctx, q, resumed)]
             idle  == {c \in Registered : ~tasks[c].running}
             moved == {c \in idle : at[c] # Never}
  <2>1. tasks' = [c \in Registered |->
         IF c \in moved
           THEN [tasks[c] EXCEPT !.generation = @ + 1, !.nextRun = at[c]]
         ELSE IF c \in idle THEN [tasks[c] EXCEPT !.generation = @ + 1]
         ELSE tasks[c]]
    BY <1>1 DEF Reschedule
  <2> HIDE DEF moved, idle, at
  <2>2. ASSUME NEW c \in Registered
        PROVE  Sound(tasks'[c]) /\ (c \notin mistaken => Reasoned(tasks'[c]))
    <3>1. tasks[c] \in Tasks /\ Sound(tasks[c]) /\ (c \notin mistaken => Reasoned(tasks[c]))
      BY DEF TypeOK, TasksSound
    <3>2. Agree(tasks[c], tasks'[c])
      BY <2>1, <3>1 DEF Agree, Tasks
    <3> QED
      BY <3>1, <3>2, SoundAgree
  <2> QED
    BY <1>1, <2>1, <2>2 DEF TasksSound, Registered
<1>2. ASSUME NEW p \in Permits, SetWorkLevel(p[1], p[2]) PROVE TasksSound' /\ ReadyConsumed'
  BY <1>1, <1>2, NonePending DEF SetWorkLevel, ReadyConsumed
<1>3. ASSUME NEW q \in BOOLEAN, SetPeriodicRefreshPaused(q) PROVE TasksSound' /\ ReadyConsumed'
  BY <1>1, <1>3, NonePending DEF SetPeriodicRefreshPaused, ReadyConsumed
<1>4. ASSUME NEW page \in Pages, SetActivePage(page) PROVE TasksSound' /\ ReadyConsumed'
  <2>3. ASSUME NEW c \in Registered
        PROVE  Sound(tasks'[c]) /\ (c \notin mistaken => Reasoned(tasks'[c]))
    <3>1. tasks[c] \in Tasks /\ Sound(tasks[c]) /\ (c \notin mistaken => Reasoned(tasks[c]))
      BY DEF TypeOK, TasksSound
    <3>2. Agree(tasks[c], tasks'[c])
      BY <1>4, <3>1 DEF SetActivePage, Agree, Tasks
    <3> QED
      BY <3>1, <3>2, SoundAgree
  <2>4. Registered' = Registered /\ UNCHANGED mistaken
    BY <1>4 DEF SetActivePage, Registered
  <2> QED
    BY <1>4, <2>3, <2>4, NonePending DEF SetActivePage, TasksSound, ReadyConsumed
<1> QED
  BY <1>2, <1>3, <1>4 DEF Permit

LEMMA FlagsRequest == Flags /\ Request => TasksSound' /\ ReadyConsumed'
<1> SUFFICES ASSUME Flags, Request PROVE TasksSound' /\ ReadyConsumed'
  OBVIOUS
<1> USE DEF Flags
<1>1. \A c \in Registered : /\ tasks[c] \in Tasks /\ Sound(tasks[c])
                            /\ c \notin mistaken => Reasoned(tasks[c])
  BY DEF TypeOK, TasksSound
<1>2. ASSUME NEW c \in Registered, NEW t, Sound(t), c \notin mistaken => Reasoned(t),
             tasks' = [tasks EXCEPT ![c] = t],
             AtRest, UNCHANGED <<ready, mistaken>>
      PROVE  TasksSound' /\ ReadyConsumed'
  <2>1. TasksSound'
    BY <1>1, <1>2 DEF TasksSound, TypeOK, Registered
  <2> QED
    BY <1>2, <2>1, NonePending DEF ReadyConsumed
<1>3. ASSUME NEW c \in Cards, NEW reason \in Reasons, NEW revision \in Nat,
             RequestEvent(c, reason, revision)
      PROVE  TasksSound' /\ ReadyConsumed'
  <2>1. c \in Registered /\ now \in Nat
    BY <1>3 DEF RequestEvent, TypeOK
  <2>2. /\ Sound(Requested(tasks[c], reason, revision, now))
        /\ c \notin mistaken => Reasoned(Requested(tasks[c], reason, revision, now))
    BY <1>1, <2>1, SoundRequested
  <2> QED
    BY <1>2, <1>3, <2>1, <2>2 DEF RequestEvent
<1>4. ASSUME NEW c \in Cards, RequestNow(c) PROVE TasksSound' /\ ReadyConsumed'
  BY <1>3, <1>4 DEF RequestNow, Reasons
<1>5. ASSUME NEW c \in Cards, NEW key \in SourceKeys, NEW revision \in Revisions,
             RequestSource(c, key, revision)
      PROVE  TasksSound' /\ ReadyConsumed'
  BY <1>3, <1>5, SchedulerAssumption DEF RequestSource, Reasons
<1>6. ASSUME NEW c \in Cards, RequestConfigReload(c) PROVE TasksSound' /\ ReadyConsumed'
  <2> DEFINE defers == Expensive(tasks[c]) /\ Queues(tasks[c])
             slot   == IF defers THEN Larger(reloadCursor, now) ELSE now
  <2>1. slot \in Nat
    BY DEF TypeOK, Times, Never, Larger
  <2> HIDE DEF slot
  <2>2. c \in Registered /\ "wallclock" \in Reasons
    BY <1>6 DEF RequestConfigReload, Reasons
  <2>3. /\ Sound(Requested(tasks[c], "wallclock", 0, slot))
        /\ c \notin mistaken => Reasoned(Requested(tasks[c], "wallclock", 0, slot))
    BY <1>1, <2>1, <2>2, SoundRequested
  <2>4. tasks' = [tasks EXCEPT ![c] = Requested(tasks[c], "wallclock", 0, slot)]
        /\ AtRest /\ UNCHANGED <<ready, mistaken>>
    BY <1>6 DEF RequestConfigReload, slot
  <2> QED
    BY <1>2, <2>2, <2>3, <2>4
<1>7. ASSUME RequestAllNow PROVE TasksSound' /\ ReadyConsumed'
  <2>1. ASSUME NEW c \in Registered
        PROVE  /\ Sound(Requested(tasks[c], "manual", 0, now))
               /\ c \notin mistaken => Reasoned(Requested(tasks[c], "manual", 0, now))
    BY <1>1, SoundRequested DEF TypeOK, Reasons
  <2>2. TasksSound'
    BY <1>7, <2>1 DEF RequestAllNow, TasksSound, Registered
  <2> QED
    BY <1>7, <2>2, NonePending DEF RequestAllNow, ReadyConsumed
<1> QED
  BY <1>4, <1>5, <1>6, <1>7 DEF Request

LEMMA FlagsComplete == Flags /\ Complete => TasksSound' /\ ReadyConsumed'
<1> SUFFICES ASSUME Flags, Complete PROVE TasksSound' /\ ReadyConsumed'
  OBVIOUS
<1> USE DEF Flags
<1>1. ASSUME NEW w \in flights, NEW ok \in BOOLEAN, NEW deadline \in Deadlines(w),
             MarkDone(w, ok, deadline)
      PROVE  TasksSound' /\ ReadyConsumed'
  <2> DEFINE c == w.card
             u == Finished(tasks[c], w.base, ok, deadline)
  <2>1. /\ c \in Registered /\ AtRest /\ UNCHANGED ready
        /\ tasks' = [tasks EXCEPT ![c] = u]
        /\ c \notin mistaken' => c \notin mistaken /\ tasks[c].running
        /\ \A d \in Registered \ {c} : d \in mistaken' <=> d \in mistaken
    BY <1>1 DEF MarkDone, Current, Finish
  <2>2. /\ tasks[c] \in Tasks /\ Sound(tasks[c]) /\ w.base \in Nat
        /\ c \notin mistaken => Reasoned(tasks[c])
    BY <2>1 DEF TypeOK, TasksSound, Flights
  <2>3. deadline \in Times
    BY DeadlinesType
  <2>4. Settled(tasks[c], u)
    BY <2>2, <2>3, SoundFinished
  <2> HIDE DEF u
  <2>5. Sound(u) /\ (c \notin mistaken' => Reasoned(u))
    BY <2>1, <2>2, <2>4 DEF Settled
  <2> HIDE DEF c
  <2>6. ASSUME NEW d \in Registered
        PROVE  Sound(tasks'[d]) /\ (d \notin mistaken' => Reasoned(tasks'[d]))
    <3>1. CASE d = c
      BY <2>1, <2>5, <3>1 DEF TypeOK
    <3>2. CASE d # c
      <4>1. (d \in mistaken' <=> d \in mistaken) /\ tasks'[d] = tasks[d]
        BY <2>1, <3>2 DEF TypeOK, Registered
      <4> QED
        BY <4>1 DEF TasksSound
    <3> QED
      BY <3>1, <3>2
  <2>7. TasksSound'
    BY <2>1, <2>6 DEF TasksSound, TypeOK, Registered
  <2> QED
    BY <2>1, <2>7, NonePending DEF ReadyConsumed
<1>2. ASSUME NEW w \in flights, Outdated(w) PROVE TasksSound' /\ ReadyConsumed'
  BY <1>2, NonePending DEF Outdated, TasksSound, ReadyConsumed, Registered
<1> QED
  BY <1>1, <1>2 DEF Complete

\* The first of the ready cards, and those left after it.
LEMMA ReadyHead ==
    ASSUME TypeOK, ready # <<>>, ready' = Tail(ready)
    PROVE  /\ Head(ready) \in Registered /\ Pending(Head(ready))
           /\ \A c : Pending(c)' => Pending(c)
<1>1. ready \in Seq(Registered) /\ Len(ready) \in Nat \ {0}
  BY DEF TypeOK
<1>2. Head(ready) = ready[1] /\ Head(ready) \in Registered
  BY <1>1
<1>3. Pending(Head(ready))
  BY <1>1, <1>2 DEF Pending
<1>4. ASSUME NEW c, Pending(c)' PROVE Pending(c)
  <2>1. PICK i \in 1 .. Len(ready') : ready'[i] = c
    BY <1>4 DEF Pending
  <2>2. i + 1 \in 1 .. Len(ready) /\ ready[i + 1] = c
    BY <1>1, <2>1
  <2> QED
    BY <2>2 DEF Pending
<1> QED
  BY <1>2, <1>3, <1>4

LEMMA FlagsPollLoop == Flags /\ PollLoop => TasksSound' /\ ReadyConsumed'
<1> SUFFICES ASSUME Flags, PollLoop PROVE TasksSound' /\ ReadyConsumed'
  OBVIOUS
<1> USE DEF Flags
<1>1. \A c \in Registered : /\ tasks[c] \in Tasks /\ Sound(tasks[c])
                            /\ c \notin mistaken => Reasoned(tasks[c])
  BY DEF TypeOK, TasksSound
<1>2. CASE UNCHANGED <<tasks, ready, mistaken>>
  BY <1>2 DEF TasksSound, ReadyConsumed, Registered, Pending
<1>3. ASSUME NEW e \in heap, PollTake(e) PROVE TasksSound' /\ ReadyConsumed'
  <2>1. e.card \in Registered /\ ~tasks[e.card].running
    BY <1>3 DEF PollTake, Stale, Dequeuable
  <2>2. LET u == Dequeued(tasks[e.card]) IN Sound(u) /\ Reasoned(u) /\ Taken(u)
    BY <1>1, <2>1, SoundDequeued
  <2>3. tasks' = [tasks EXCEPT ![e.card] = Dequeued(tasks[e.card])] /\ UNCHANGED mistaken
    BY <1>3 DEF PollTake
  <2>4. TasksSound'
    BY <2>1, <2>2, <2>3 DEF TasksSound, TypeOK, Registered
  <2>5. ASSUME NEW c, Pending(c)' PROVE Pending(c) \/ c = e.card
    BY <1>3, <2>5 DEF Pending, PollTake, TypeOK
  <2>6. ReadyConsumed'
    BY <2>1, <2>2, <2>3, <2>5 DEF ReadyConsumed, TypeOK, Registered
  <2> QED
    BY <2>4, <2>6
<1>6. ASSUME NEW c \in Registered, NEW u, Sound(u), Reasoned(u), Taken(u),
             tasks' = [tasks EXCEPT ![c] = u], mistaken' = mistaken \ {c},
             \A d : Pending(d)' => Pending(d)
      PROVE  TasksSound' /\ ReadyConsumed'
  <2>1. ASSUME NEW d \in Registered
        PROVE  /\ Sound(tasks'[d]) /\ (d \notin mistaken' => Reasoned(tasks'[d]))
               /\ Pending(d)' => Taken(tasks'[d])
    <3>1. CASE d = c
      BY <1>6, <3>1 DEF TypeOK, Registered
    <3>2. CASE d # c
      <4>1. (d \in mistaken' <=> d \in mistaken) /\ tasks'[d] = tasks[d]
        BY <1>6, <3>2 DEF TypeOK, Registered
      <4> QED
        BY <1>6, <4>1 DEF TasksSound, ReadyConsumed
    <3> QED
      BY <3>1, <3>2
  <2>2. Registered' = Registered
    BY <1>6 DEF TypeOK, Registered
  <2> QED
    BY <2>1, <2>2 DEF TasksSound, ReadyConsumed
<1>4. CASE Start
  <2> DEFINE c == Head(ready)
  <2>1. c \in Registered /\ Pending(c) /\ \A d : Pending(d)' => Pending(d)
    BY <1>4, ReadyHead DEF Start
  <2>2. Taken(tasks[c])
    BY <2>1 DEF ReadyConsumed
  <2>3. LET u == Started(tasks[c]) IN Sound(u) /\ Reasoned(u) /\ Taken(u)
    BY <1>1, <2>1, <2>2, SoundStarted DEF TypeOK
  <2>4. tasks' = [tasks EXCEPT ![c] = Started(tasks[c])] /\ mistaken' = mistaken \ {c}
    BY <1>4 DEF Start
  <2> HIDE DEF c
  <2> QED
    BY <1>6, <2>1, <2>3, <2>4
<1>5. CASE StartUnavailable
  <2> DEFINE c    == Head(ready)
             s    == Started(tasks[c])
             next == Finished(s, s.policy.base, FALSE, Never)
  <2>1. c \in Registered /\ Pending(c) /\ \A d : Pending(d)' => Pending(d)
    BY <1>5, ReadyHead DEF StartUnavailable
  <2>2. Taken(tasks[c])
    BY <2>1 DEF ReadyConsumed
  <2>3. Sound(s) /\ Reasoned(s) /\ Taken(s) /\ s \in Tasks
    BY <1>1, <2>1, <2>2, SoundStarted, StartedType DEF TypeOK
  <2>4. s.running /\ ~s.pendingEvent /\ s.policy.base \in Nat
    BY <1>1, <2>1, <2>3 DEF Started, Taken, Tasks, Policies
  <2> HIDE DEF s
  <2>7. next = Finished(s, s.policy.base, FALSE, Never) /\ Never \in Times
    BY DEF Times
  <2> HIDE DEF next, Flags
  <2>8. Settled(s, next)
    BY <2>3, <2>4, <2>7, SoundFinished
  <2>5. Sound(next) /\ Reasoned(next) /\ Taken(next)
    BY <2>4, <2>8 DEF Settled
  <2> USE DEF next
  <2>6. tasks' = [tasks EXCEPT ![c] = next] /\ mistaken' = mistaken \ {c}
    BY <1>5 DEF StartUnavailable, s
  <2> HIDE DEF c, next
  <2> QED
    BY <1>6, <2>1, <2>5, <2>6
<1> QED
  BY <1>2, <1>3, <1>4, <1>5
     DEF PollLoop, PollBegin, PollDefer, PollDrop, PollEnd, BeginNext, NextDefer,
         NextDrop, NextEnd

LEMMA FlagsInit == Init => Flags
BY TypeInit DEF Init, Flags, TasksSound, ReadyConsumed, Registered

LEMMA FlagsNext == Flags /\ [Next]_vars => Flags'
<1> SUFFICES ASSUME Flags, [Next]_vars PROVE TasksSound' /\ ReadyConsumed'
  BY TypeNext DEF Flags
<1>1. CASE Tick \/ UNCHANGED vars
  BY <1>1 DEF Tick, vars, Flags, TasksSound, ReadyConsumed, Registered, Pending
<1> QED
  BY <1>1, FlagsConfigure, FlagsPermit, FlagsRequest, FlagsComplete, FlagsPollLoop DEF Next

\* The flags of a task agree: the inductive invariant behind the two theorems
\* below, about running, run_once, pending_event and the revision maps.
THEOREM FlagsAlways == Spec => []Flags
BY FlagsInit, FlagsNext, PTL DEF Spec

\* No source edge is lost: whatever the order of requests, starts and
\* completions, an uncovered revision has a run or a follow-up waiting for it.
THEOREM NoLostRevisionAlways == Spec => []NoLostRevision
<1>1. Flags => NoLostRevision
  BY DEF Flags, TasksSound, Sound, NoLostRevision
<1> QED
  BY <1>1, FlagsAlways, PTL

\* A queued or following run knows its reason, and nothing else has one, whichever completions
\* a generation admits (request_event_at, poll_at, mark_done_after_at_with_deadline); but for
\* a card that one of a former registration has reached while it was idle.
THEOREM ReasonKeptAlways == Spec => []ReasonKept
<1>1. Flags => ReasonKept
  BY DEF Flags, TasksSound, Reasoned, ReasonKept
<1> QED
  BY <1>1, FlagsAlways, PTL

-----------------------------------------------------------------------------
(* No lost wake-up.                                                        *)

\* What a handler must show: the entries of the cards that may run.
LEMMA WakeHandler ==
    ASSUME TypeOK, AtRest, UNCHANGED <<ready, deferred>>,
           \A c \in Cards \ mistaken' : Runnable(c)' => Entry(c, tasks[c])' \in heap'
    PROVE  NoLostWakeup'
BY DEF NoLostWakeup

\* While a handler runs, every entry is in the heap.
LEMMA WakeAtRest ==
    ASSUME TypeOK, AtRest, NoLostWakeup, NEW c \in Cards \ mistaken, Runnable(c)
    PROVE  Entry(c, tasks[c]) \in heap
BY DEF TypeOK, AtRest, NoLostWakeup

\* A card that a handler leaves alone, in a heap that grows, stays awake.
LEMMA WakeKept ==
    ASSUME TypeOK, AtRest, NoLostWakeup, NEW c \in Cards \ mistaken, Runnable(c)',
           UNCHANGED <<ready, level, context, quiet>>,
           c \in Registered, tasks'[c] = tasks[c]
    PROVE  Runnable(c) /\ Entry(c, tasks[c])' \in heap
<1>1. Runnable(c)
  BY NonePending DEF Runnable, Interval
<1> QED
  BY <1>1, WakeAtRest DEF Entry

LEMMA WakeConfigure == Flags /\ NoLostWakeup /\ Configure => NoLostWakeup'
<1> SUFFICES ASSUME Flags, NoLostWakeup, Configure PROVE NoLostWakeup'
  OBVIOUS
<1> USE DEF Flags
<1>1. ASSUME NEW c \in Cards, NEW r \in Registrations[c], Register(c, r) PROVE NoLostWakeup'
  <2> DEFINE t == NewTask(r.page, r.policy, seed + 1, now)
  <2>1. tasks' = Inserted(c, t) /\ heap' = heap \cup {Entry(c, t)} /\ UNCHANGED mistaken
    BY <1>1 DEF Register
  <2> HIDE DEF t
  <2>2. ASSUME NEW d \in Cards \ mistaken', Runnable(d)' PROVE Entry(d, tasks[d])' \in heap'
    <3>1. CASE d = c
      BY <2>1, <3>1 DEF Inserted, Entry, Registered
    <3>2. CASE d # c
      <4>1. d \in Registered /\ tasks'[d] = tasks[d]
        BY <2>1, <2>2, <3>2 DEF Inserted, Registered, Runnable
      <4> QED
        BY <1>1, <2>1, <2>2, <4>1, WakeKept DEF Register
    <3> QED
      BY <3>1, <3>2
  <2> QED
    BY <1>1, <2>2, WakeHandler DEF Register
<1>2. ASSUME NEW c \in Cards, NEW r \in Registrations[c], Rebind(c, r) PROVE NoLostWakeup'
  <2>1. ASSUME NEW d \in Cards \ mistaken', Runnable(d)' PROVE Entry(d, tasks[d])' \in heap'
    <3>1. d # c
      BY <1>2, <2>1 DEF Rebind, Runnable, TypeOK, Tasks
    <3>2. d \in Registered /\ tasks'[d] = tasks[d]
      BY <1>2, <2>1, <3>1 DEF Rebind, Runnable, TypeOK, Registered
    <3> QED
      BY <1>2, <2>1, <3>2, WakeKept DEF Rebind
  <2> QED
    BY <1>2, <2>1, WakeHandler DEF Rebind
<1>3. ASSUME NEW c \in Cards, NEW r \in Registrations[c], NEW keep \in BOOLEAN,
             Replace(c, r, keep)
      PROVE  NoLostWakeup'
  <2> DEFINE fresh == NewTask(r.page, r.policy, seed + 1, now)
             kept  == [fresh EXCEPT !.nextRun = tasks[c].nextRun, !.generation = @ + 1]
             old   == Compacted(heap, Without(c))
             t     == IF keep THEN kept ELSE fresh
  <2>1. tasks' = Inserted(c, t) /\ mistaken' = mistaken \ {c}
    BY <1>3 DEF Replace, Disowned
  <2>2. old \subseteq heap' /\ Entry(c, t) \in heap'
    BY <1>3 DEF Replace
  <2> HIDE DEF t, fresh, kept
  <2>3. ASSUME NEW d \in Cards \ mistaken', Runnable(d)' PROVE Entry(d, tasks[d])' \in heap'
    <3>1. CASE d = c
      BY <2>1, <2>2, <3>1 DEF Inserted, Entry, Registered
    <3>2. CASE d # c
      <4>1. d \in Registered /\ tasks'[d] = tasks[d]
        BY <2>1, <2>3, <3>2 DEF Inserted, Registered, Runnable
      <4>2. Entry(d, tasks[d])' \in heap
        BY <1>3, <2>1, <2>3, <3>2, <4>1, WakeKept DEF Replace
      <4>3. d \in DOMAIN Without(c) /\ Without(c)[d] = tasks[d]
        BY <3>2, <4>1 DEF Without
      <4>4. Entry(d, tasks[d])' = Entry(d, Without(c)[d])
        BY <4>1, <4>3 DEF Entry
      <4> QED
        BY <2>2, <4>2, <4>3, <4>4, CompactedKeeps
    <3> QED
      BY <3>1, <3>2
  <2> QED
    BY <1>3, <2>3, WakeHandler DEF Replace
<1>4. ASSUME NEW c \in Cards, Unregister(c) PROVE NoLostWakeup'
  <2>1. tasks' = Without(c) /\ heap' = Compacted(heap, tasks') /\ mistaken' = mistaken \ {c}
    BY <1>4 DEF Unregister, Disowned
  <2>2. ASSUME NEW d \in Cards \ mistaken', Runnable(d)' PROVE Entry(d, tasks[d])' \in heap'
    <3>1. d \in DOMAIN tasks' /\ d \in Registered /\ tasks'[d] = tasks[d] /\ d # c
      BY <2>1, <2>2 DEF Without, Registered, Runnable
    <3>2. Entry(d, tasks[d])' \in heap
      BY <1>4, <2>1, <2>2, <3>1, WakeKept DEF Unregister
    <3>3. Entry(d, tasks[d])' = Entry(d, tasks'[d])
      BY DEF Entry
    <3> QED
      BY <2>1, <3>1, <3>2, <3>3, CompactedKeeps
  <2> QED
    BY <1>4, <2>2, WakeHandler DEF Unregister
<1>5. ASSUME Clear PROVE NoLostWakeup'
  BY <1>5 DEF Clear, NoLostWakeup, Runnable, Registered
<1> QED
  BY <1>1, <1>2, <1>3, <1>4, <1>5 DEF Configure

\* The permits of reschedule_at leave no idle card that may run without an
\* instant.
LEMMA WantedRunnable ==
    ASSUME NEW t \in Tasks, NEW lv \in Levels, NEW ctx \in Contexts, NEW q \in BOOLEAN,
           now \in Nat, lv # "suspended", ~q, ~t.paused,
           \/ t.runOnce
           \/ t.lastStarted = Never
           \/ EffectiveInterval(lv, ctx, t.policy) # NoInterval
    PROVE  Wanted(t, lv, ctx, q) # Never
<1> DEFINE interval == EffectiveInterval(lv, ctx, t.policy)
           anchor   == IF t.lastSuccess # Never THEN t.lastSuccess ELSE t.lastStarted
<1>1. interval \in Nat /\ anchor \in Times
  BY IntervalType DEF Tasks
<1>2. Larger(t.nextRun, now) \in Nat
  BY DEF Tasks, Larger
<1>3. Larger(anchor + interval, now) \in Nat
  <2> HIDE DEF interval, anchor
  <2> QED BY <1>1 DEF Larger, Times, Never
<1> HIDE DEF interval, anchor
<1>4. \A n \in Nat : n # Never
  BY DEF Never
<1>5. CASE t.runOnce
  <2>1. Wanted(t, lv, ctx, q) \in {Larger(t.nextRun, now), now}
    BY <1>5 DEF Wanted
  <2> QED
    BY <1>2, <1>4, <2>1
<1>6. CASE ~t.runOnce
  <2>1. Wanted(t, lv, ctx, q) \in {Larger(t.nextRun, now), now, Larger(anchor + interval, now)}
    BY <1>6 DEF Wanted, Upcoming, interval, anchor
  <2> QED
    BY <1>2, <1>3, <1>4, <2>1
<1> QED
  BY <1>5, <1>6

LEMMA WakeReschedule ==
    ASSUME TypeOK, AtRest, UNCHANGED <<ready, deferred>>,
           level' \in Levels, context' \in Contexts, quiet' \in BOOLEAN,
           NEW resumed \in BOOLEAN, Reschedule(level', context', quiet', resumed)
    PROVE  NoLostWakeup'
<1> DEFINE at    == [c \in Registered |-> RescheduledAt(c, level', context', quiet', resumed)]
           idle  == {c \in Registered : ~tasks[c].running}
           moved == {c \in idle : at[c] # Never}
<1>1. tasks' = [c \in Registered |->
         IF c \in moved
           THEN [tasks[c] EXCEPT !.generation = @ + 1, !.nextRun = at[c]]
         ELSE IF c \in idle THEN [tasks[c] EXCEPT !.generation = @ + 1]
         ELSE tasks[c]]
  BY DEF Reschedule
<1>2. heap' = Compacted(heap \cup {Entry(c, tasks'[c]) : c \in moved}, tasks')
  BY DEF Reschedule
<1>3. ASSUME NEW c \in Registered, Runnable(c)' PROVE c \in moved
  <2> DEFINE t == tasks[c]
  <2>1. t \in Tasks
    BY DEF TypeOK
  <2>2. /\ tasks'[c].running = t.running /\ tasks'[c].paused = t.paused
        /\ tasks'[c].runOnce = t.runOnce /\ tasks'[c].lastStarted = t.lastStarted
        /\ tasks'[c].policy = t.policy
    <3> HIDE DEF at, idle, moved
    <3> QED
      BY <1>1, <2>1 DEF Tasks
  <2>3. /\ ~t.running /\ level' # "suspended" /\ ~quiet' /\ ~t.paused
        /\ \/ t.runOnce
           \/ t.lastStarted = Never
           \/ EffectiveInterval(level', context', t.policy) # NoInterval
    BY <1>3, <2>2 DEF Runnable, Interval
  <2> HIDE DEF t
  <2>4. Wanted(t, level', context', quiet') # Never
    BY <2>1, <2>3, WantedRunnable DEF TypeOK
  <2>5. SlotsBefore(c, level', context', quiet') \in Nat
    <3> DEFINE earlier == {d \in Registered :
          /\ Spreads(tasks[d], level', context', quiet')
          /\ \/ tasks[d].runOnce /\ ~tasks[c].runOnce
             \/ tasks[d].runOnce = tasks[c].runOnce /\ d < c}
    <3>1. earlier \subseteq Cards
      BY DEF TypeOK
    <3>2. IsFiniteSet(earlier)
      BY <3>1, SchedulerAssumption, FS_Subset
    <3> QED
      BY <3>2, FS_CardinalityType DEF SlotsBefore
  <2>6. now + Slot * SlotsBefore(c, level', context', quiet') # Never
    BY <2>5, SchedulerAssumption DEF TypeOK, Never
  <2> QED
    BY <2>3, <2>4, <2>6 DEF RescheduledAt, t
<1> HIDE DEF at, idle, moved
<1>4. ASSUME NEW c \in Cards \ mistaken', Runnable(c)' PROVE Entry(c, tasks[c])' \in heap'
  <2>1. c \in Registered /\ c \in DOMAIN tasks'
    BY <1>1, <1>4 DEF Runnable, Registered
  <2>2. Entry(c, tasks'[c]) \in heap \cup {Entry(d, tasks'[d]) : d \in moved}
    BY <1>3, <1>4, <2>1
  <2>3. Entry(c, tasks[c])' = Entry(c, tasks'[c])
    BY DEF Entry
  <2> QED
    BY <1>2, <2>1, <2>2, <2>3, CompactedKeeps
<1> QED
  BY <1>4, WakeHandler

LEMMA WakePermit == Flags /\ NoLostWakeup /\ Permit => NoLostWakeup'
<1> SUFFICES ASSUME Flags, NoLostWakeup, Permit PROVE NoLostWakeup'
  OBVIOUS
<1> USE DEF Flags
<1>1. ASSUME NEW p \in Permits, SetWorkLevel(p[1], p[2]) PROVE NoLostWakeup'
  <2>1. /\ level' \in Levels /\ context' \in Contexts /\ quiet' \in BOOLEAN
        /\ Reschedule(level', context', quiet', FALSE)
    BY <1>1, SchedulerAssumption DEF SetWorkLevel, TypeOK
  <2>2. AtRest /\ UNCHANGED <<ready, deferred>>
    BY <1>1 DEF SetWorkLevel
  <2> QED
    BY <2>1, <2>2, WakeReschedule
<1>2. ASSUME NEW q \in BOOLEAN, SetPeriodicRefreshPaused(q) PROVE NoLostWakeup'
  <2>1. /\ level' \in Levels /\ context' \in Contexts /\ quiet' \in BOOLEAN
        /\ Reschedule(level', context', quiet', ~q)
    BY <1>2 DEF SetPeriodicRefreshPaused, TypeOK
  <2>2. AtRest /\ UNCHANGED <<ready, deferred>>
    BY <1>2 DEF SetPeriodicRefreshPaused
  <2> QED
    BY <2>1, <2>2, WakeReschedule
<1>3. ASSUME NEW page \in Pages, SetActivePage(page) PROVE NoLostWakeup'
  <2> DEFINE turned == {c \in Registered : tasks[c].paused # (tasks[c].page # page)}
             idle   == {c \in turned : ~tasks[c].running}
             shown  == {c \in idle : tasks[c].paused /\ level # "suspended" /\ ~quiet}
  <2>1. tasks' = [c \in Registered |->
           [tasks[c] EXCEPT
              !.paused     = (tasks[c].page # page),
              !.generation = IF c \in idle THEN tasks[c].generation + 1
                                           ELSE tasks[c].generation,
              !.nextRun    = IF c \in shown THEN now ELSE tasks[c].nextRun]]
    BY <1>3 DEF SetActivePage
  <2>2. heap' = heap \cup {Entry(c, tasks'[c]) : c \in shown}
    BY <1>3 DEF SetActivePage
  <2>3. ASSUME NEW c \in Cards \ mistaken', Runnable(c)' PROVE Entry(c, tasks[c])' \in heap'
    <3>1. c \in Registered /\ tasks[c] \in Tasks
      BY <2>1, <2>3 DEF Runnable, Registered, TypeOK
    <3>2. /\ tasks'[c].running = tasks[c].running
          /\ tasks'[c].paused = (tasks[c].page # page)
          /\ tasks'[c].runOnce = tasks[c].runOnce
          /\ tasks'[c].lastStarted = tasks[c].lastStarted
          /\ tasks'[c].policy = tasks[c].policy
      <4> HIDE DEF idle, shown
      <4> QED BY <2>1, <3>1 DEF Tasks
    <3>3. ~tasks[c].running /\ tasks[c].page = page /\ level # "suspended" /\ ~quiet
      BY <1>3, <2>3, <3>2 DEF Runnable, SetActivePage
    <3>4. CASE tasks[c].paused
      BY <2>2, <3>1, <3>3, <3>4 DEF Entry
    <3>5. CASE ~tasks[c].paused
      <4>0. tasks[c].paused = FALSE /\ (tasks[c].page # page) = FALSE
        BY <3>1, <3>3, <3>5 DEF Tasks
      <4>1. c \notin turned
        BY <4>0
      <4>2. tasks'[c] = tasks[c]
        <5>1. tasks'[c] = [tasks[c] EXCEPT !.paused = (tasks[c].page # page),
                            !.generation = tasks[c].generation, !.nextRun = tasks[c].nextRun]
          BY <2>1, <3>1, <4>1
        <5>2. tasks'[c] = [tasks[c] EXCEPT !.paused = FALSE,
                            !.generation = tasks[c].generation, !.nextRun = tasks[c].nextRun]
          BY <4>0, <5>1
        <5> QED
          BY <3>1, <4>0, <5>2 DEF Tasks
      <4>3. UNCHANGED <<ready, level, context, quiet, mistaken>> /\ AtRest
        BY <1>3 DEF SetActivePage
      <4> QED
        BY <2>2, <2>3, <3>1, <4>2, <4>3, WakeKept
    <3> QED
      BY <3>4, <3>5 DEF TypeOK, Tasks
  <2> QED
    BY <1>3, <2>3, WakeHandler DEF SetActivePage
<1> QED
  BY <1>1, <1>2, <1>3 DEF Permit

\* A request gives a queued card its entry and leaves the other cards theirs.
LEMMA WakeRequested ==
    ASSUME TypeOK, AtRest, NoLostWakeup, UNCHANGED <<ready, level, context, quiet>>,
           NEW c \in Registered \ mistaken, NEW reason \in Reasons, NEW revision \in Nat, NEW slot \in Nat,
           c \in DOMAIN tasks',
           tasks'[c] = Requested(tasks[c], reason, revision, slot),
           heap \subseteq heap',
           Queues(tasks[c]) => Entry(c, tasks'[c]) \in heap',
           Runnable(c)'
    PROVE  Entry(c, tasks[c])' \in heap'
<1> DEFINE u == tasks'[c]
<1>1. tasks[c] \in Tasks
  BY DEF TypeOK
<1>2. /\ u.running = tasks[c].running /\ u.paused = tasks[c].paused
      /\ u.policy = tasks[c].policy /\ u.lastStarted = tasks[c].lastStarted
      /\ ~Queues(tasks[c]) => /\ u.runOnce = tasks[c].runOnce
                              /\ u.nextRun = tasks[c].nextRun
                              /\ u.generation = tasks[c].generation
  BY <1>1, RequestedFacts
<1>3. CASE Queues(tasks[c])
  BY <1>3 DEF Entry
<1>4. CASE ~Queues(tasks[c])
  <2>1. Runnable(c)
    BY <1>2, <1>4, NonePending DEF Runnable, Interval
  <2>2. Entry(c, tasks[c]) \in heap /\ Entry(c, tasks[c])' = Entry(c, tasks[c])
    BY <1>2, <1>4, <2>1, WakeAtRest DEF Entry, TypeOK
  <2> QED
    BY <2>2
<1> QED
  BY <1>3, <1>4

LEMMA WakeRequest == Flags /\ NoLostWakeup /\ Request => NoLostWakeup'
<1> SUFFICES ASSUME Flags, NoLostWakeup, Request PROVE NoLostWakeup'
  OBVIOUS
<1> USE DEF Flags
<1>1. ASSUME NEW c \in Registered, NEW reason \in Reasons, NEW revision \in Nat,
             NEW slot \in Nat, AtRest,
             UNCHANGED <<ready, deferred, level, context, quiet, mistaken>>,
             tasks' = [tasks EXCEPT ![c] = Requested(@, reason, revision, slot)],
             heap' = IF Queues(tasks[c]) THEN heap \cup {Entry(c, tasks'[c])} ELSE heap
      PROVE  NoLostWakeup'
  <2>1. DOMAIN tasks' = Registered
        /\ tasks'[c] = Requested(tasks[c], reason, revision, slot)
        /\ \A d \in Registered \ {c} : tasks'[d] = tasks[d]
    BY <1>1 DEF TypeOK, Registered
  <2>2. heap \subseteq heap' /\ (Queues(tasks[c]) => Entry(c, tasks'[c]) \in heap')
    BY <1>1
  <2>3. ASSUME NEW d \in Cards \ mistaken', Runnable(d)' PROVE Entry(d, tasks[d])' \in heap'
    <3>1. d \in Registered
      BY <2>1, <2>3 DEF Runnable, Registered
    <3>2. CASE d = c
      BY <1>1, <2>1, <2>2, <2>3, <3>2, WakeRequested
    <3>3. CASE d # c
      BY <1>1, <2>1, <2>2, <2>3, <3>1, <3>3, WakeKept
    <3> QED
      BY <3>2, <3>3
  <2> QED
    BY <1>1, <2>3, WakeHandler
<1>2. ASSUME NEW c \in Cards, NEW reason \in Reasons, NEW revision \in Nat,
             RequestEvent(c, reason, revision)
      PROVE  NoLostWakeup'
  BY <1>1, <1>2 DEF RequestEvent, TypeOK
<1>3. ASSUME NEW c \in Cards, RequestNow(c) PROVE NoLostWakeup'
  BY <1>2, <1>3 DEF RequestNow, Reasons
<1>4. ASSUME NEW c \in Cards, NEW key \in SourceKeys, NEW revision \in Revisions,
             RequestSource(c, key, revision)
      PROVE  NoLostWakeup'
  BY <1>2, <1>4, SchedulerAssumption DEF RequestSource, Reasons
<1>5. ASSUME NEW c \in Cards, RequestConfigReload(c) PROVE NoLostWakeup'
  <2> DEFINE defers == Expensive(tasks[c]) /\ Queues(tasks[c])
             slot   == IF defers THEN Larger(reloadCursor, now) ELSE now
  <2>1. slot \in Nat
    BY DEF TypeOK, Times, Never, Larger
  <2>2. /\ c \in Registered /\ AtRest
        /\ UNCHANGED <<ready, deferred, level, context, quiet, mistaken>>
        /\ tasks' = [tasks EXCEPT ![c] = Requested(@, "wallclock", 0, slot)]
        /\ heap' = IF Queues(tasks[c]) THEN heap \cup {Entry(c, tasks'[c])} ELSE heap
    BY <1>5 DEF RequestConfigReload
  <2>3. "wallclock" \in Reasons
    BY DEF Reasons
  <2> HIDE DEF slot
  <2> QED
    BY <1>1, <2>1, <2>2, <2>3
<1>6. ASSUME RequestAllNow PROVE NoLostWakeup'
  <2>1. DOMAIN tasks' = Registered
        /\ \A c \in Registered : tasks'[c] = Requested(tasks[c], "manual", 0, now)
    BY <1>6 DEF RequestAllNow, Registered
  <2>2. heap \subseteq heap'
        /\ \A c \in Registered : Queues(tasks[c]) => Entry(c, tasks'[c]) \in heap'
    BY <1>6 DEF RequestAllNow
  <2>3. "manual" \in Reasons /\ 0 \in Nat /\ now \in Nat
    BY DEF Reasons, TypeOK
  <2>4. AtRest /\ UNCHANGED <<ready, deferred, level, context, quiet, mistaken>>
    BY <1>6 DEF RequestAllNow
  <2>5. ASSUME NEW d \in Cards \ mistaken', Runnable(d)' PROVE Entry(d, tasks[d])' \in heap'
    <3>1. d \in Registered /\ d \in DOMAIN tasks'
      BY <2>1, <2>5 DEF Runnable, Registered
    <3> QED
      BY <2>1, <2>2, <2>3, <2>4, <2>5, <3>1, WakeRequested
  <2> QED
    BY <2>4, <2>5, WakeHandler
<1> QED
  BY <1>3, <1>4, <1>5, <1>6 DEF Request

\* A run that ended leaves an entry behind when its card may run again.
LEMMA FinishedRunnable ==
    ASSUME NEW t \in Tasks, NEW base \in Nat, NEW ok \in BOOLEAN, NEW deadline \in Times,
           t.running, Sound(t),
           NEW u, u = Finished(t, base, ok, deadline),
           level # "suspended", ~quiet,
           u.runOnce \/ u.lastStarted = Never \/ Interval(u) # NoInterval
    PROVE  Requeues(t)
<1>1. u.lastStarted = t.lastStarted /\ u.policy = t.policy
  BY FinishedFacts
<1>2. Settled(t, u)
  BY SoundFinished
<1>3. FollowsUp(t) \/ Interval(t) # NoInterval
  BY <1>1, <1>2 DEF Settled, Sound, Interval
<1> QED
  BY <1>3 DEF Requeues

LEMMA WakeComplete == Flags /\ NoLostWakeup /\ Complete => NoLostWakeup'
<1> SUFFICES ASSUME Flags, NoLostWakeup, Complete PROVE NoLostWakeup'
  OBVIOUS
<1> USE DEF Flags
<1>1. ASSUME NEW w \in flights, NEW ok \in BOOLEAN, NEW deadline \in Deadlines(w),
             MarkDone(w, ok, deadline)
      PROVE  NoLostWakeup'
  <2> DEFINE c == w.card
             u == Finished(tasks[c], w.base, ok, deadline)
  <2>1. /\ c \in Registered /\ AtRest /\ UNCHANGED <<ready, deferred, level, context, quiet>>
        /\ tasks' = [tasks EXCEPT ![c] = u]
        /\ heap' = IF Requeues(tasks[c]) THEN heap \cup {Entry(c, u)} ELSE heap
        /\ c \notin mistaken' => tasks[c].running
        /\ mistaken \subseteq mistaken'
    BY <1>1 DEF MarkDone, Current, Finish
  <2>2. tasks[c] \in Tasks /\ Sound(tasks[c]) /\ w.base \in Nat
    BY <2>1 DEF TypeOK, TasksSound, Flights
  <2>3. deadline \in Times
    BY DeadlinesType
  <2>4. tasks'[c] = u /\ DOMAIN tasks' = Registered
        /\ \A d \in Registered \ {c} : tasks'[d] = tasks[d]
    BY <2>1 DEF TypeOK, Registered
  <2>5. ASSUME NEW d \in Cards \ mistaken', Runnable(d)' PROVE Entry(d, tasks[d])' \in heap'
    <3>1. d \in Registered
      BY <2>4, <2>5 DEF Runnable, Registered
    <3>2. CASE d = c
      <4>1. level # "suspended" /\ ~quiet
            /\ (u.runOnce \/ u.lastStarted = Never \/ Interval(u) # NoInterval)
        BY <2>1, <2>4, <2>5, <3>2 DEF Runnable, Interval
      <4>2. tasks[c].running
        BY <2>1, <2>5, <3>2
      <4>3. Requeues(tasks[c])
        BY <2>2, <2>3, <4>1, <4>2, FinishedRunnable
      <4> HIDE DEF u, c
      <4> QED
        BY <2>1, <2>4, <3>2, <4>3 DEF Entry
    <3>3. CASE d # c
      <4> HIDE DEF u, c
      <4>1. d \in Cards \ mistaken
        BY <2>1, <2>5
      <4> QED
        BY <2>1, <2>4, <2>5, <3>1, <3>3, <4>1, WakeKept
    <3> QED
      BY <3>2, <3>3
  <2> QED
    BY <2>1, <2>5, WakeHandler
<1>2. ASSUME NEW w \in flights, Outdated(w) PROVE NoLostWakeup'
  BY <1>2 DEF Outdated, NoLostWakeup, Runnable, Registered, Pending, Interval, Entry
<1> QED
  BY <1>1, <1>2 DEF Complete

\* Dropping the first ready card leaves the others pending.
LEMMA ReadyTail ==
    ASSUME TypeOK, ready # <<>>, ready' = Tail(ready), NEW c, Pending(c), c # Head(ready)
    PROVE  Pending(c)'
<1>1. ready \in Seq(Registered) /\ Len(ready) \in Nat \ {0}
  BY DEF TypeOK
<1>2. PICK i \in 1 .. Len(ready) : ready[i] = c
  BY DEF Pending
<1>3. i # 1
  BY <1>1, <1>2
<1>4. i - 1 \in 1 .. Len(ready') /\ ready'[i - 1] = c
  BY <1>1, <1>2, <1>3
<1> QED
  BY <1>4 DEF Pending

\* The step of an entry that poll or next_task drops or sets aside.
LEMMA WakeEntry ==
    ASSUME TypeOK, NoLostWakeup, NEW e \in heap,
           heap' = heap \ {e}, deferred \subseteq deferred',
           UNCHANGED <<tasks, ready, level, context, quiet, mistaken>>,
           \A c \in Cards \ mistaken : Runnable(c) /\ e = Entry(c, tasks[c]) => e \in deferred'
    PROVE  NoLostWakeup'
<1>1. ASSUME NEW c \in Cards \ mistaken', Runnable(c)'
      PROVE  Entry(c, tasks[c])' \in (heap \cup deferred)'
  <2>1. Runnable(c)
    BY <1>1 DEF Runnable, Registered, Pending, Interval
  <2>2. Entry(c, tasks[c]) \in heap \cup deferred /\ Entry(c, tasks[c])' = Entry(c, tasks[c])
    BY <2>1 DEF NoLostWakeup, Entry
  <2> QED
    BY <2>1, <2>2
<1> QED
  BY <1>1 DEF NoLostWakeup

LEMMA WakeStart ==
    ASSUME TypeOK, NoLostWakeup, ready # <<>>, ready' = Tail(ready),
           UNCHANGED <<deferred, level, context, quiet>>, heap \subseteq heap',
           NEW c, c = Head(ready), NEW u, tasks' = [tasks EXCEPT ![c] = u],
           Runnable(c)' => Entry(c, u) \in heap', mistaken' = mistaken \ {c}
    PROVE  NoLostWakeup'
<1>1. c \in Registered
  BY ReadyHead
<1>2. tasks'[c] = u /\ DOMAIN tasks' = Registered
      /\ \A d \in Registered \ {c} : tasks'[d] = tasks[d]
  BY <1>1 DEF TypeOK, Registered
<1>3. ASSUME NEW d \in Cards \ mistaken', Runnable(d)'
      PROVE  Entry(d, tasks[d])' \in heap' \cup deferred'
  <2>1. CASE d = c
    BY <1>2, <1>3, <2>1 DEF Entry
  <2>2. CASE d # c
    <3>1. d \in Registered /\ tasks'[d] = tasks[d]
      BY <1>2, <1>3, <2>2 DEF Runnable, Registered
    <3>2. ~Pending(d)
      BY <1>3, <2>2, ReadyTail DEF Runnable
    <3>3. Runnable(d)
      BY <1>3, <3>1, <3>2 DEF Runnable, Interval
    <3>4. d \in Cards \ mistaken
      BY <1>3, <2>2
    <3> QED
      BY <3>1, <3>3, <3>4 DEF NoLostWakeup, Entry
  <2> QED
    BY <2>1, <2>2
<1> QED
  BY <1>3 DEF NoLostWakeup

LEMMA WakePollLoop == Flags /\ NoLostWakeup /\ PollLoop => NoLostWakeup'
<1> SUFFICES ASSUME Flags, NoLostWakeup, PollLoop PROVE NoLostWakeup'
  OBVIOUS
<1> USE DEF Flags
<1>1. CASE PollBegin \/ BeginNext
  BY <1>1 DEF PollBegin, BeginNext, NoLostWakeup, Runnable, Registered, Pending, Interval, Entry
<1>2. ASSUME NEW e \in heap, PollDefer(e) \/ NextDefer(e) PROVE NoLostWakeup'
  BY <1>2, WakeEntry DEF PollDefer, NextDefer
<1>3. ASSUME NEW e \in heap, PollDrop(e) PROVE NoLostWakeup'
  <2>1. ASSUME NEW c \in Cards \ mistaken, Runnable(c), e = Entry(c, tasks[c]) PROVE FALSE
    <3>1. e.card = c /\ ~Stale(e)
      BY <2>1 DEF Entry, Stale, Runnable
    <3>2. Dequeuable(tasks[c])
      BY <2>1 DEF Runnable, Dequeuable, Unattended
    <3> QED
      BY <1>3, <3>1, <3>2 DEF PollDrop
  <2> QED
    BY <1>3, <2>1, WakeEntry DEF PollDrop
<1>4. ASSUME NEW e \in heap, PollTake(e) PROVE NoLostWakeup'
  <2> DEFINE u == Dequeued(tasks[e.card])
  <2>1. /\ e.card \in Registered /\ heap' = heap \ {e}
        /\ tasks' = [tasks EXCEPT ![e.card] = u]
        /\ ready' = Append(ready, e.card) /\ ready \in Seq(Registered)
        /\ UNCHANGED <<deferred, level, context, quiet, mistaken>>
    BY <1>4 DEF PollTake, Stale, TypeOK
  <2> HIDE DEF u
  <2>2. Pending(e.card)' /\ \A c : Pending(c) => Pending(c)'
    <3>1. Len(ready') = Len(ready) + 1 /\ ready'[Len(ready')] = e.card
          /\ Len(ready) \in Nat
          /\ \A i \in 1 .. Len(ready) : ready'[i] = ready[i]
      BY <2>1
    <3> QED
      BY <3>1 DEF Pending
  <2>3. ASSUME NEW c \in Cards \ mistaken', Runnable(c)'
        PROVE  Entry(c, tasks[c])' \in (heap \cup deferred)'
    <3>1. c # e.card /\ ~Pending(c)
      BY <2>2, <2>3 DEF Runnable
    <3>2. c \in Registered /\ tasks'[c] = tasks[c]
      BY <2>1, <2>3, <3>1 DEF Runnable, Registered, TypeOK
    <3>3. Runnable(c)
      BY <2>1, <2>3, <3>1, <3>2 DEF Runnable, Interval
    <3>4. Entry(c, tasks[c]) \in heap \cup deferred /\ Entry(c, tasks[c])' = Entry(c, tasks[c])
      BY <2>1, <3>2, <3>3 DEF NoLostWakeup, Entry
    <3>5. Entry(c, tasks[c]) # e
      BY <3>1 DEF Entry
    <3> QED
      BY <2>1, <3>4, <3>5
  <2> QED
    BY <2>3 DEF NoLostWakeup
<1>5. CASE PollEnd \/ NextEnd
  <2>1. /\ heap' = Compacted(heap \cup deferred, tasks)
        /\ UNCHANGED <<tasks, ready, level, context, quiet, mistaken>>
    BY <1>5 DEF PollEnd, NextEnd
  <2>2. ASSUME NEW c \in Cards \ mistaken', Runnable(c)' PROVE Entry(c, tasks[c])' \in heap'
    <3>1. Runnable(c)
      BY <2>1, <2>2 DEF Runnable, Registered, Pending, Interval
    <3>2. Entry(c, tasks[c]) \in heap \cup deferred /\ c \in DOMAIN tasks
      BY <2>1, <3>1 DEF NoLostWakeup, Runnable, Registered
    <3>3. Entry(c, tasks[c])' = Entry(c, tasks[c])
      BY <2>1 DEF Entry
    <3> QED
      BY <2>1, <3>2, <3>3, CompactedKeeps
  <2> QED
    BY <2>2 DEF NoLostWakeup
<1>6. CASE Start
  <2> PICK c : c = Head(ready)
    OBVIOUS
  <2>1. /\ c \in Registered /\ tasks[c] \in Tasks
        /\ tasks' = [tasks EXCEPT ![c] = Started(tasks[c])]
        /\ UNCHANGED <<heap, deferred, level, context, quiet>> /\ mistaken' = mistaken \ {c}
        /\ ready # <<>> /\ ready' = Tail(ready)
    BY <1>6, ReadyHead DEF Start, TypeOK
  <2>2. tasks'[c].running
    BY <2>1 DEF Started, Tasks, TypeOK, Registered
  <2> QED
    BY <2>1, <2>2, WakeStart DEF Runnable
<1>7. CASE StartUnavailable
  <2> PICK c : c = Head(ready)
    OBVIOUS
  <2> DEFINE s == Started(tasks[c])
             u == Finished(s, s.policy.base, FALSE, Never)
  <2>1. /\ c \in Registered /\ Pending(c) /\ tasks[c] \in Tasks /\ Sound(tasks[c])
        /\ tasks' = [tasks EXCEPT ![c] = u]
        /\ heap' = IF Requeues(s) THEN heap \cup {Entry(c, u)} ELSE heap
        /\ UNCHANGED <<deferred, level, context, quiet>> /\ mistaken' = mistaken \ {c}
        /\ ready # <<>> /\ ready' = Tail(ready)
    BY <1>7, ReadyHead DEF StartUnavailable, TypeOK, TasksSound
  <2>2. Taken(tasks[c]) /\ now \in Nat
    BY <2>1 DEF ReadyConsumed, TypeOK
  <2>3. s \in Tasks /\ Sound(s)
    BY <2>1, <2>2, StartedType, SoundStarted
  <2>4. s.running /\ s.policy.base \in Nat
    BY <2>1, <2>3 DEF Started, Tasks, Policies
  <2>5. tasks'[c] = u
    BY <2>1 DEF TypeOK, Registered
  <2> HIDE DEF s
  <2>6. u = Finished(s, s.policy.base, FALSE, Never) /\ Never \in Times
    BY DEF Times
  <2> HIDE DEF u
  <2>7. ASSUME Runnable(c)' PROVE Requeues(s)
    <3>1. level # "suspended" /\ ~quiet
          /\ (u.runOnce \/ u.lastStarted = Never \/ Interval(u) # NoInterval)
      BY <2>1, <2>5, <2>7 DEF Runnable, Interval
    <3> HIDE DEF Flags
    <3> QED
      BY <2>3, <2>4, <2>6, <3>1, FinishedRunnable
  <2> QED
    BY <2>1, <2>7, WakeStart
<1>8. ASSUME NEW e \in heap, NextDrop(e) PROVE NoLostWakeup'
  <2>1. ASSUME NEW c \in Cards \ mistaken, Runnable(c), e = Entry(c, tasks[c]) PROVE FALSE
    <3>1. e.card = c /\ ~Stale(e)
      BY <2>1 DEF Entry, Stale, Runnable
    <3>2. ~Held(e) => IsNext(e)
      BY <2>1, <3>1 DEF Runnable, Held, IsNext, Unattended
    <3> QED
      BY <1>8, <3>1, <3>2 DEF NextDrop
  <2> QED
    BY <1>8, <2>1, WakeEntry DEF NextDrop
<1> QED
  BY <1>1, <1>2, <1>3, <1>4, <1>5, <1>6, <1>7, <1>8 DEF PollLoop

LEMMA WakeNext == Flags /\ NoLostWakeup /\ [Next]_vars => NoLostWakeup'
<1> SUFFICES ASSUME Flags, NoLostWakeup, [Next]_vars PROVE NoLostWakeup'
  OBVIOUS
<1>1. CASE Tick \/ UNCHANGED vars
  BY <1>1 DEF Tick, vars, NoLostWakeup, Runnable, Registered, Pending, Interval, Entry
<1> QED
  BY <1>1, WakeConfigure, WakePermit, WakeRequest, WakeComplete, WakePollLoop DEF Next

\* No wake-up is lost: a card that may run always has its current entry where
\* poll will find it, whatever handlers run and completions arrive between two polls; but for
\* a card that one of a former registration has reached while it was idle.
THEOREM NoLostWakeupAlways == Spec => []NoLostWakeup
<1>1. Init => NoLostWakeup
  BY DEF Init, NoLostWakeup, Runnable, Registered
<1> QED
  BY <1>1, FlagsInit, FlagsNext, WakeNext, PTL DEF Spec

-----------------------------------------------------------------------------
(* A change of permit: what stays, what is spread, and what the heap holds.*)

\* What a rescheduling does to one card.
LEMMA Rescheduled ==
    ASSUME TypeOK, NEW lv \in Levels, NEW ctx \in Contexts, NEW q \in BOOLEAN,
           NEW resumed \in BOOLEAN, Reschedule(lv, ctx, q, resumed), NEW c \in Registered
    PROVE  LET at == RescheduledAt(c, lv, ctx, q, resumed)
           IN  tasks'[c].nextRun = IF tasks[c].running \/ at = Never THEN tasks[c].nextRun ELSE at
<1> DEFINE at    == [d \in Registered |-> RescheduledAt(d, lv, ctx, q, resumed)]
           idle  == {d \in Registered : ~tasks[d].running}
           moved == {d \in idle : at[d] # Never}
<1>1. tasks' = [d \in Registered |->
         IF d \in moved
           THEN [tasks[d] EXCEPT !.generation = @ + 1, !.nextRun = at[d]]
         ELSE IF d \in idle THEN [tasks[d] EXCEPT !.generation = @ + 1]
         ELSE tasks[d]]
  BY DEF Reschedule
<1>2. tasks[c] \in Tasks
  BY DEF TypeOK
<1>3. at[c] = RescheduledAt(c, lv, ctx, q, resumed)
  OBVIOUS
<1> HIDE DEF at
<1>4. tasks'[c] = IF c \in moved
           THEN [tasks[c] EXCEPT !.generation = @ + 1, !.nextRun = at[c]]
         ELSE IF c \in idle THEN [tasks[c] EXCEPT !.generation = @ + 1]
         ELSE tasks[c]
  BY <1>1
<1>5. tasks'[c].nextRun = IF c \in moved THEN at[c] ELSE tasks[c].nextRun
  BY <1>2, <1>4 DEF Tasks
<1> QED
  BY <1>3, <1>5

\* The permits change in two handlers, and both reschedule every card.
LEMMA PermitChanges ==
    ASSUME TypeOK, [Next]_vars, <<level, context, quiet>>' # <<level, context, quiet>>
    PROVE  /\ Reschedule(level', context', quiet', quiet /\ ~quiet')
           /\ level' \in Levels /\ context' \in Contexts /\ quiet' \in BOOLEAN
           /\ quiet # quiet' => level' = level /\ context' = context
<1>1. CASE \E p \in Permits : SetWorkLevel(p[1], p[2])
  <2>1. PICK p \in Permits : SetWorkLevel(p[1], p[2])
    BY <1>1
  <2>2. p[1] \in Levels /\ p[2] \in Contexts
    BY SchedulerAssumption
  <2>3. level' = p[1] /\ context' = p[2] /\ quiet' = quiet /\ Reschedule(p[1], p[2], quiet, FALSE)
    BY <2>1 DEF SetWorkLevel
  <2> QED
    BY <2>2, <2>3 DEF TypeOK
<1>2. CASE \E q \in BOOLEAN : SetPeriodicRefreshPaused(q)
  <2>1. PICK q \in BOOLEAN : SetPeriodicRefreshPaused(q)
    BY <1>2
  <2>2. /\ level' = level /\ context' = context /\ quiet' = q /\ q # quiet
        /\ Reschedule(level, context, q, ~q)
    BY <2>1 DEF SetPeriodicRefreshPaused
  <2>3. ~q = (quiet /\ ~q)
    BY <2>2 DEF TypeOK
  <2> QED
    BY <2>2, <2>3 DEF TypeOK
<1>3. CASE Configure \/ Request \/ Complete \/ Tick \/ UNCHANGED vars
           \/ \E page \in Pages : SetActivePage(page)
  BY <1>3 DEF Configure, Register, Rebind, Replace, Unregister, Clear, Request, RequestNow,
              RequestSource, RequestEvent, RequestConfigReload, RequestAllNow, Complete, MarkDone,
              Outdated, Tick, SetActivePage, vars
<1>4. CASE PollLoop
  BY <1>4 DEF PollLoop, PollBegin, PollDefer, PollDrop, PollTake, PollEnd, Start, StartUnavailable,
              BeginNext, NextDefer, NextDrop, NextEnd
<1> QED
  BY <1>1, <1>2, <1>3, <1>4 DEF Next, Permit

LEMMA AnchorsStep ==
    ASSUME TypeOK, [Next]_vars, <<level, context, quiet>>' # <<level, context, quiet>>,
           NEW c \in Registered, tasks[c].policy.scheduled, ~tasks[c].running, ~tasks[c].runOnce,
           tasks[c].lastStarted # Never
    PROVE  LET t    == tasks[c]
               next == tasks'[c].nextRun
           IN  \/ next = t.nextRun
               \/ t.nextRun < now /\ next = now
               \/ quiet /\ ~quiet' /\ Expensive(t) /\ t.nextRun <= now /\ now <= next
<1> DEFINE t  == tasks[c]
           w  == Wanted(t, level', context', quiet')
           at == RescheduledAt(c, level', context', quiet', quiet /\ ~quiet')
<1>1. t.nextRun \in Nat /\ now \in Nat
  BY DEF TypeOK, Tasks
<1>2. tasks'[c].nextRun = IF at = Never THEN t.nextRun ELSE at
  BY PermitChanges, Rescheduled
<1>3. w = Never \/ w = Larger(t.nextRun, now)
  BY DEF Wanted, Upcoming
<1>4. CASE quiet /\ ~quiet' /\ Spreads(t, level', context', quiet')
  <2>1. SlotsBefore(c, level', context', quiet') \in Nat
    BY SlotsBeforeType
  <2>2. at = now + Slot * SlotsBefore(c, level', context', quiet')
    BY <1>4 DEF RescheduledAt
  <2>3. w = now /\ Expensive(t)
    BY <1>4 DEF Spreads
  <2>4. at \in Nat /\ now <= at
    BY <1>1, <2>1, <2>2, SchedulerAssumption
  <2>5. t.nextRun <= now
    BY <1>1, <1>3, <2>3 DEF Larger, Never
  <2> QED
    BY <1>1, <1>2, <1>4, <2>3, <2>4, <2>5
<1>5. CASE ~(quiet /\ ~quiet' /\ Spreads(t, level', context', quiet'))
  <2>1. at = w
    BY <1>5 DEF RescheduledAt
  <2> HIDE DEF at, w
  <2> QED
    BY <1>1, <1>2, <1>3, <2>1 DEF Larger
<1> QED
  BY <1>4, <1>5

\* A change of permit keeps the wall-clock anchor of a fixed schedule (reschedule_at).
THEOREM AnchorsAlwaysKept == Spec => AnchorsKept
<1>1. TypeOK /\ [Next]_vars /\ <<level, context, quiet>>' # <<level, context, quiet>> =>
         \A c \in Registered :
            LET t    == tasks[c]
                next == tasks'[c].nextRun
            IN  t.policy.scheduled /\ ~t.running /\ ~t.runOnce /\ t.lastStarted # Never
                  => \/ next = t.nextRun
                     \/ t.nextRun < now /\ next = now
                     \/ quiet /\ ~quiet' /\ Expensive(t) /\ t.nextRun <= now /\ now <= next
  BY AnchorsStep
<1> QED
  BY <1>1, TypeCorrect, PTL DEF Spec, AnchorsKept

-----------------------------------------------------------------------------
\* Of two cards that take slots, one comes first: the cursor gives it an earlier one.
LEMMA SlotsDiffer ==
    ASSUME TypeOK, NEW lv, NEW ctx, NEW q, NEW c \in Registered, NEW d \in Registered,
           Spreads(tasks[c], lv, ctx, q),
           \/ tasks[c].runOnce /\ ~tasks[d].runOnce
           \/ tasks[c].runOnce = tasks[d].runOnce /\ c < d
    PROVE  SlotsBefore(c, lv, ctx, q) < SlotsBefore(d, lv, ctx, q)
<1> DEFINE earlier(b) == {e \in Registered :
        /\ Spreads(tasks[e], lv, ctx, q)
        /\ \/ tasks[e].runOnce /\ ~tasks[b].runOnce
           \/ tasks[e].runOnce = tasks[b].runOnce /\ e < b}
<1>1. /\ SlotsBefore(c, lv, ctx, q) = Cardinality(earlier(c))
      /\ SlotsBefore(d, lv, ctx, q) = Cardinality(earlier(d))
  BY DEF SlotsBefore
<1>2. Registered \subseteq Nat /\ earlier(d) \subseteq Cards /\ earlier(c) \subseteq Cards
  BY SchedulerAssumption DEF TypeOK
<1>3. \A e \in Registered : tasks[e].runOnce \in BOOLEAN
  BY DEF TypeOK, Tasks
<1>4. c \in earlier(d) /\ c \notin earlier(c)
  BY <1>2
<1>5. earlier(c) \subseteq earlier(d)
  <2> SUFFICES ASSUME NEW e \in earlier(c)
               PROVE  \/ tasks[e].runOnce /\ ~tasks[d].runOnce
                      \/ tasks[e].runOnce = tasks[d].runOnce /\ e < d
    OBVIOUS
  <2>1. e \in Nat /\ c \in Nat /\ d \in Nat
    BY <1>2
  <2>2. CASE tasks[e].runOnce /\ ~tasks[c].runOnce
    BY <1>3, <2>2
  <2>3. CASE tasks[e].runOnce = tasks[c].runOnce /\ e < c
    BY <1>3, <2>1, <2>3
  <2> QED
    BY <2>2, <2>3
<1> HIDE DEF earlier
<1>6. IsFiniteSet(earlier(d)) /\ IsFiniteSet(earlier(c))
  BY <1>2, SchedulerAssumption, FS_Subset
<1>7. Cardinality(earlier(c)) \in Nat /\ Cardinality(earlier(d)) \in Nat
  BY <1>6, FS_CardinalityType
<1>8. Cardinality(earlier(c)) <= Cardinality(earlier(d)) /\ Cardinality(earlier(c)) # Cardinality(earlier(d))
  BY <1>4, <1>5, <1>6, FS_Subset
<1> QED
  BY <1>1, <1>7, <1>8

\* A later place in the cursor is at least one slot later.
LEMMA SlotsApart ==
    ASSUME NEW m \in Nat, NEW n \in Nat, m < n, now \in Nat
    PROVE  now + Slot * m + Slot <= now + Slot * n
<1>1. PICK k \in Nat : n = m + 1 + k
  <2>1. n - m - 1 \in Nat /\ n = m + 1 + (n - m - 1)
    OBVIOUS
  <2> QED BY <2>1
<1>2. Slot \in Nat /\ Slot * m \in Nat /\ Slot * k \in Nat
  BY SchedulerAssumption
<1>3. Slot * n = Slot * m + Slot + Slot * k
  BY <1>1, <1>2
<1> QED
  BY <1>2, <1>3

LEMMA ResumeStep ==
    ASSUME TypeOK, [Next]_vars, quiet /\ ~quiet', level # "suspended"
    PROVE  LET idle    == {c \in Registered : ~tasks[c].running}
               asked   == {c \in idle : tasks[c].runOnce /\ tasks[c].pendingReason # "wallclock"}
               overdue == {c \in idle \ asked : /\ Expensive(tasks[c])
                                               /\ Wanted(tasks[c], level, context, FALSE) = now}
           IN  /\ \A c \in asked : tasks'[c].nextRun = now
               /\ \A c, d \in overdue : c < d =>
                      \/ tasks'[c].nextRun + Slot <= tasks'[d].nextRun
                      \/ tasks'[d].nextRun + Slot <= tasks'[c].nextRun
<1> DEFINE at(c) == RescheduledAt(c, level, context, FALSE, TRUE)
           idle    == {c \in Registered : ~tasks[c].running}
           asked   == {c \in idle : tasks[c].runOnce /\ tasks[c].pendingReason # "wallclock"}
           overdue == {c \in idle \ asked : /\ Expensive(tasks[c])
                                           /\ Wanted(tasks[c], level, context, FALSE) = now}
           before(c) == SlotsBefore(c, level, context, FALSE)
<1>1. Reschedule(level, context, FALSE, TRUE)
  <2>1. /\ Reschedule(level', context', quiet', quiet /\ ~quiet')
        /\ level' = level /\ context' = context /\ quiet' \in BOOLEAN
    BY PermitChanges
  <2>2. quiet' = FALSE /\ (quiet /\ ~quiet') = TRUE
    BY <2>1
  <2> QED
    BY <2>1, <2>2
<1>2. \A c \in idle : tasks'[c].nextRun = IF at(c) = Never THEN tasks[c].nextRun ELSE at(c)
  BY <1>1, Rescheduled DEF TypeOK
<1>3. now \in Nat /\ now # Never
  BY DEF TypeOK, Never
<1>4. ASSUME NEW c \in asked PROVE tasks'[c].nextRun = now
  <2>1. Wanted(tasks[c], level, context, FALSE) = now
    BY DEF Wanted
  <2>2. at(c) = now
    BY <2>1 DEF RescheduledAt, Spreads
  <2> QED
    BY <1>2, <1>3, <2>2
<1>5. ASSUME NEW c \in overdue
      PROVE  /\ c \in Registered /\ Spreads(tasks[c], level, context, FALSE)
             /\ before(c) \in Nat /\ tasks'[c].nextRun = now + Slot * before(c)
  <2>1. Spreads(tasks[c], level, context, FALSE)
    BY DEF Spreads
  <2>2. before(c) \in Nat
    BY SlotsBeforeType
  <2>3. at(c) = now + Slot * before(c)
    BY <2>1 DEF RescheduledAt
  <2>4. at(c) # Never
    <3>1. Slot * before(c) \in Nat
      <4> HIDE DEF before
      <4> QED BY <2>2, SchedulerAssumption
    <3> HIDE DEF at, before
    <3> QED BY <1>3, <2>3, <3>1 DEF Never
  <2> QED
    BY <1>2, <2>1, <2>2, <2>3, <2>4
<1>6. ASSUME NEW c \in overdue, NEW d \in overdue, c < d
      PROVE  \/ tasks'[c].nextRun + Slot <= tasks'[d].nextRun
             \/ tasks'[d].nextRun + Slot <= tasks'[c].nextRun
  <2>1. tasks[c].runOnce \in BOOLEAN /\ tasks[d].runOnce \in BOOLEAN
    BY DEF TypeOK, Tasks
  <2> HIDE DEF overdue
  <2>2. before(c) < before(d) \/ before(d) < before(c)
    <3>1. CASE tasks[d].runOnce /\ ~tasks[c].runOnce
      BY <1>5, <1>6, <3>1, SlotsDiffer
    <3>2. CASE ~(tasks[d].runOnce /\ ~tasks[c].runOnce)
      <4>1. \/ tasks[c].runOnce /\ ~tasks[d].runOnce
            \/ tasks[c].runOnce = tasks[d].runOnce /\ c < d
        BY <1>6, <2>1, <3>2
      <4> QED
        BY <1>5, <4>1, SlotsDiffer
    <3> QED BY <3>1, <3>2
  <2> HIDE DEF before
  <2> QED
    BY <1>3, <1>5, <2>2, SlotsApart
<1> QED
  BY <1>4, <1>6

\* The end of quiet hours answers users and sources at once and spreads the rest, for any
\* number of cards (reschedule_at, the resume cursor).
THEOREM ResumeAlwaysSpread == Spec => ResumeSpread
<1>1. TypeOK /\ [Next]_vars /\ quiet /\ ~quiet' /\ level # "suspended" =>
         LET idle    == {c \in Registered : ~tasks[c].running}
             asked   == {c \in idle : tasks[c].runOnce /\ tasks[c].pendingReason # "wallclock"}
             overdue == {c \in idle \ asked : /\ Expensive(tasks[c])
                                             /\ Wanted(tasks[c], level, context, FALSE) = now}
         IN  /\ \A c \in asked : tasks'[c].nextRun = now
             /\ \A c, d \in overdue : c < d =>
                    \/ tasks'[c].nextRun + Slot <= tasks'[d].nextRun
                    \/ tasks'[d].nextRun + Slot <= tasks'[c].nextRun
  BY ResumeStep
<1> QED
  BY <1>1, TypeCorrect, PTL DEF Spec, ResumeSpread

-----------------------------------------------------------------------------
\* Compaction leaves one entry for a card, so that the heap is within the limit.
LEMMA CompactedBound ==
    ASSUME TypeOK, NEW h
    PROVE  Cardinality(Compacted(h, tasks)) <= CompactFactor * Cardinality(Registered) + CompactSlack
<1> DEFINE limit == CompactFactor * Cardinality(Registered) + CompactSlack
           live  == {e \in h : e.card \in Registered /\ e = Entry(e.card, tasks[e.card])}
<1>1. CASE Cardinality(h) <= limit
  BY <1>1 DEF Compacted, Registered
<1>2. CASE ~(Cardinality(h) <= limit)
  <2>1. Compacted(h, tasks) = live
    BY <1>2 DEF Compacted, Registered
  <2>2. IsFiniteSet(Registered)
    BY SchedulerAssumption, FS_Subset DEF TypeOK
  <2>3. [e \in live |-> e.card] \in Injection(live, Registered)
    BY DEF Injection, IsInjective
  <2>4. IsFiniteSet(live) /\ Cardinality(live) <= Cardinality(Registered)
    BY <2>2, <2>3, FS_Injection
  <2>5. Cardinality(live) \in Nat /\ Cardinality(Registered) \in Nat
    BY <2>2, <2>4, FS_CardinalityType
  <2>6. \A n \in Nat : n <= CompactFactor * n + CompactSlack
    BY SchedulerAssumption
  <2> HIDE DEF live
  <2> QED
    BY <2>1, <2>4, <2>5, <2>6, SchedulerAssumption
<1> QED
  BY <1>1, <1>2

LEMMA SleepStep ==
    ASSUME TypeOK, [Next]_vars, phase = "next" /\ phase' = "sleep"
    PROVE  Cardinality(heap') <= CompactFactor * Cardinality(Registered) + CompactSlack
<1>1. NextEnd
  <2>1. ~Configure /\ ~Permit /\ ~Request /\ ~Complete /\ ~Tick
    BY DEF Configure, Register, Rebind, Replace, Unregister, Clear, Permit, SetWorkLevel,
           SetPeriodicRefreshPaused, SetActivePage, Request, RequestNow, RequestSource,
           RequestEvent, RequestConfigReload, RequestAllNow, Complete, MarkDone, Outdated,
           Tick, AtRest
  <2>2. PollLoop
    BY <2>1 DEF Next, vars
  <2> QED
    BY <2>2 DEF PollLoop, PollBegin, PollDefer, PollDrop, PollTake, PollEnd, Start,
                StartUnavailable, BeginNext, NextDefer, NextDrop
<1> QED
  BY <1>1, CompactedBound DEF NextEnd

\* The loop goes to sleep with a heap within the bound (compact_heap_if_needed).
THEOREM HeapAlwaysBounded == Spec => HeapBounded
<1>1. TypeOK /\ [Next]_vars /\ phase = "next" /\ phase' = "sleep" =>
         Cardinality(heap') <= CompactFactor * Cardinality(Registered) + CompactSlack
  BY SleepStep
<1> QED
  BY <1>1, TypeCorrect, PTL DEF Spec, HeapBounded

-----------------------------------------------------------------------------
(* No card is queued twice, collected twice at once or taken when it may   *)
(* not be.  Proved where the generation of a card only grows: while no     *)
(* card leaves the scheduler with its entries still in the heap, that is   *)
(* with Optional = {}.                                                     *)

\* The entries of a card are no newer than the card, and the one of its current
\* generation is its slot.
Fresh ==
    \A e \in heap \cup deferred :
        /\ e.card \in Registered
        /\ e.gen <= tasks[e.card].generation
        /\ e.gen = tasks[e.card].generation => e.at = tasks[e.card].nextRun

Disjoint == heap \cap deferred = {}

\* What poll returned is idle and returned once, and what runs does not wait: NoReentry
\* without the workers.
Apart ==
    /\ \A i, j \in 1 .. Len(ready) : ready[i] = ready[j] => i = j
    /\ \A c \in Registered : tasks[c].running \/ Pending(c) =>
          /\ ~(tasks[c].running /\ Pending(c))
          /\ ~tasks[c].runOnce
          /\ Entry(c, tasks[c]) \notin heap \cup deferred

\* The workers of a standing registration were started with the generations the card
\* has had, each with another one, and only a running card still has such a generation.
Flying ==
    \A w \in flights : w.own =>
        /\ w.card \in Registered
        /\ w.gen <= tasks[w.card].generation
        /\ w.gen = tasks[w.card].generation => tasks[w.card].running
        /\ \A v \in flights : v.own /\ v.card = w.card /\ v.gen = w.gen => v = w

Queued == Fresh /\ Disjoint /\ Apart /\ Flying

Queue == Flags /\ Queued

LEMMA QueueReentry == Queue => NoReentry
BY DEF Queue, Queued, Apart, Flying, NoReentry, Current

LEMMA FreshOneLive == Queue => OneLiveEntry
<1> SUFFICES ASSUME Queue, NEW e \in heap \cup deferred, ~Stale(e)
             PROVE  e = Entry(e.card, tasks[e.card])
  BY DEF OneLiveEntry
<1>1. e \in Entries
  BY DEF Queue, Queued, Flags, TypeOK
<1>2. e.gen = tasks[e.card].generation /\ e.at = tasks[e.card].nextRun
  BY DEF Queue, Queued, Fresh, Stale
<1> QED
  BY <1>1, <1>2 DEF Entry, Entries

\* A handler leaves the slot of a card alone ...
SlotKept(c) ==
    /\ c \in Registered
    /\ tasks'[c].generation = tasks[c].generation
    /\ tasks'[c].nextRun = tasks[c].nextRun
    /\ tasks'[c].running = tasks[c].running

\* ... or makes all its entries stale, and the card is idle.
SlotBumped(c) ==
    /\ ~tasks'[c].running
    /\ c \in Registered => tasks'[c].generation > tasks[c].generation

\* Then the workers that are left fly on.
LEMMA FlyingKept ==
    ASSUME TypeOK, TypeOK', Flying, flights' \subseteq flights,
           \A w \in flights' : w.own =>
               /\ w.card \in DOMAIN tasks'
               /\ SlotKept(w.card) \/ tasks'[w.card].generation > tasks[w.card].generation
    PROVE  Flying'
<1> SUFFICES ASSUME NEW w \in flights', w.own
             PROVE  /\ w.card \in DOMAIN tasks'
                    /\ w.gen <= tasks'[w.card].generation
                    /\ w.gen = tasks'[w.card].generation => tasks'[w.card].running
                    /\ \A v \in flights' : v.own /\ v.card = w.card /\ v.gen = w.gen => v = w
  BY DEF Flying, Registered
<1>1. /\ w \in flights /\ w.card \in Registered /\ w.gen \in Nat
      /\ w.gen <= tasks[w.card].generation
      /\ w.gen = tasks[w.card].generation => tasks[w.card].running
      /\ \A v \in flights' : v.own /\ v.card = w.card /\ v.gen = w.gen => v = w
  BY DEF Flying, TypeOK, Flights
<1>2. tasks[w.card].generation \in Nat /\ tasks'[w.card].generation \in Nat
  BY <1>1 DEF TypeOK, Tasks, Registered
<1>3. w.card \in DOMAIN tasks'
  OBVIOUS
<1>4. CASE SlotKept(w.card)
  BY <1>1, <1>3, <1>4 DEF SlotKept
<1>5. CASE tasks'[w.card].generation > tasks[w.card].generation
  BY <1>1, <1>2, <1>3, <1>5
<1> QED
  BY <1>4, <1>5

LEMMA QueueHandler ==
    ASSUME Queue, Flags', AtRest, UNCHANGED <<ready, deferred>>, flights' \subseteq flights,
           Registered \subseteq DOMAIN tasks',
           \A c \in DOMAIN tasks' : SlotKept(c) \/ SlotBumped(c),
           \A e \in heap' : \/ e \in heap
                            \/ \E c \in DOMAIN tasks' :
                                  SlotBumped(c) /\ e = Entry(c, tasks'[c])
    PROVE  Queued'
<1> USE DEF Queue, Queued
<1>1. ready = <<>> /\ ready' = <<>> /\ deferred = {} /\ deferred' = {}
  BY DEF Flags, TypeOK, AtRest
<1>2. ASSUME NEW c \in DOMAIN tasks'
      PROVE  /\ tasks'[c].generation \in Nat
             /\ c \in Registered => tasks[c].generation \in Nat
  BY DEF Flags, TypeOK, Tasks, Registered
<1>3. ASSUME NEW e \in heap
      PROVE  /\ e.card \in DOMAIN tasks' /\ e.gen \in Nat
             /\ e.gen <= tasks'[e.card].generation
             /\ e.gen = tasks'[e.card].generation =>
                    SlotKept(e.card) /\ e.at = tasks'[e.card].nextRun
  <2>1. /\ e.card \in Registered /\ e.gen \in Nat /\ e.gen <= tasks[e.card].generation
        /\ e.gen = tasks[e.card].generation => e.at = tasks[e.card].nextRun
    BY DEF Fresh, Flags, TypeOK, Entries
  <2>2. tasks[e.card].generation \in Nat /\ tasks'[e.card].generation \in Nat
    BY <1>2, <2>1
  <2>3. CASE SlotKept(e.card)
    BY <2>1, <2>2, <2>3 DEF SlotKept
  <2>4. CASE SlotBumped(e.card)
    BY <2>1, <2>2, <2>4 DEF SlotBumped
  <2> QED
    BY <2>1, <2>3, <2>4
<1>4. ASSUME NEW c \in DOMAIN tasks', NEW e, e = Entry(c, tasks'[c])
      PROVE  e.card = c /\ e.gen = tasks'[c].generation /\ e.at = tasks'[c].nextRun
  BY <1>4 DEF Entry
<1>5. Fresh'
  <2>1. ASSUME NEW e \in heap'
        PROVE  /\ e.card \in DOMAIN tasks'
               /\ e.gen <= tasks'[e.card].generation
               /\ e.gen = tasks'[e.card].generation => e.at = tasks'[e.card].nextRun
    <3>1. CASE e \in heap
      BY <1>3, <3>1
    <3>2. ASSUME NEW c \in DOMAIN tasks', e = Entry(c, tasks'[c])
          PROVE  /\ e.card \in DOMAIN tasks'
                 /\ e.gen <= tasks'[e.card].generation
                 /\ e.gen = tasks'[e.card].generation => e.at = tasks'[e.card].nextRun
      BY <1>2, <1>4, <3>2
    <3> QED
      BY <3>1, <3>2
  <2> QED
    BY <1>1, <2>1 DEF Fresh, Registered
<1>6. ASSUME NEW c \in DOMAIN tasks', tasks'[c].running
      PROVE  ~tasks'[c].runOnce /\ Entry(c, tasks'[c]) \notin heap'
  <2>1. ~tasks'[c].runOnce
    BY <1>6 DEF Flags, TasksSound, Sound, Registered
  <2>2. SlotKept(c)
    BY <1>6 DEF SlotBumped
  <2>3. tasks[c].running /\ Entry(c, tasks'[c]) = Entry(c, tasks[c])
    BY <1>6, <2>2 DEF SlotKept, Entry
  <2>4. Entry(c, tasks[c]) \notin heap
    BY <2>2, <2>3 DEF Apart, SlotKept
  <2>5. ASSUME NEW d \in DOMAIN tasks', SlotBumped(d)
        PROVE  Entry(c, tasks'[c]) # Entry(d, tasks'[d])
    BY <1>6, <2>5 DEF SlotBumped, Entry
  <2> QED
    BY <2>1, <2>3, <2>4, <2>5
<1>7. Apart'
  <2>2. \A c : ~Pending(c)'
    BY <1>1 DEF Pending
  <2>3. \A c \in DOMAIN tasks' : Entry(c, tasks[c])' = Entry(c, tasks'[c])
    BY DEF Entry
  <2> QED
    BY <1>1, <1>6, <2>2, <2>3 DEF Apart, Registered
<1>8. Flying'
  <2>1. \A w \in flights' : w.own => w \in flights /\ w.card \in Registered
    BY DEF Flying
  <2>2. \A w \in flights' : w.own =>
            /\ w.card \in DOMAIN tasks'
            /\ SlotKept(w.card) \/ tasks'[w.card].generation > tasks[w.card].generation
    BY <2>1 DEF SlotBumped
  <2> QED
    BY <2>2, FlyingKept DEF Flags
<1> QED
  BY <1>1, <1>5, <1>7, <1>8 DEF Disjoint

LEMMA QueueConfigure ==
    ASSUME Optional = {}, Queue, Flags', Configure
    PROVE  Queued'
<1>1. ASSUME NEW c \in Cards, NEW r \in Registrations[c], Register(c, r)
      PROVE  Queued'
  <2> DEFINE t == NewTask(r.page, r.policy, seed + 1, now)
  <2>1. /\ tasks' = Inserted(c, t) /\ heap' = heap \cup {Entry(c, t)} /\ c \notin Registered
        /\ AtRest /\ UNCHANGED <<ready, deferred, flights>>
    BY <1>1 DEF Register
  <2>2. ~t.running
    BY DEF NewTask
  <2> HIDE DEF t
  <2>3. DOMAIN tasks' = Registered \cup {c} /\ tasks'[c] = t
        /\ \A d \in Registered : tasks'[d] = tasks[d]
    BY <2>1 DEF Inserted
  <2>4. SlotBumped(c) /\ \A d \in Registered : SlotKept(d)
    BY <2>1, <2>2, <2>3 DEF SlotBumped, SlotKept
  <2> QED
    BY <2>1, <2>3, <2>4, QueueHandler
<1>2. ASSUME Clear PROVE Queued'
  <2>1. /\ ready' = <<>> /\ deferred' = {} /\ heap' = {} /\ Registered' = {}
        /\ \A w \in flights' : \E v \in flights :
              w = [v EXCEPT !.own = v.own /\ v.card \notin Registered]
    BY <1>2 DEF Clear, Disowned, Queue, Queued, Flags, TypeOK, AtRest, Registered
  <2>2. \A w \in flights' : ~w.own
    BY <2>1 DEF Queue, Queued, Flags, Flying, TypeOK, Flights
  <2> QED
    BY <2>1, <2>2 DEF Queued, Fresh, Disjoint, Apart, Flying
<1> QED
  BY <1>1, <1>2 DEF Configure, Rebind, Replace, Unregister

LEMMA QueueReschedule ==
    ASSUME Queue, Flags', AtRest, UNCHANGED <<ready, deferred, flights>>,
           NEW lv, NEW ctx, NEW q, NEW resumed, Reschedule(lv, ctx, q, resumed)
    PROVE  Queued'
<1> DEFINE at    == [c \in Registered |-> RescheduledAt(c, lv, ctx, q, resumed)]
           idle  == {c \in Registered : ~tasks[c].running}
           moved == {c \in idle : at[c] # Never}
<1>1. tasks' = [c \in Registered |->
         IF c \in moved
           THEN [tasks[c] EXCEPT !.generation = @ + 1, !.nextRun = at[c]]
         ELSE IF c \in idle THEN [tasks[c] EXCEPT !.generation = @ + 1]
         ELSE tasks[c]]
  BY DEF Reschedule
<1>2. heap' \subseteq heap \cup {Entry(c, tasks'[c]) : c \in moved}
  BY CompactedKeeps DEF Reschedule
<1>3. \A c \in moved : c \in idle
  OBVIOUS
<1>4. DOMAIN tasks' = Registered
  BY <1>1
<1>5. ASSUME NEW c \in Registered
      PROVE  (c \in idle => SlotBumped(c)) /\ (c \notin idle => SlotKept(c))
  <2>1. tasks[c] \in Tasks /\ tasks[c].generation \in Nat
    BY DEF Queue, Queued, Flags, TypeOK, Tasks
  <2>2. c \in idle => ~tasks[c].running
    OBVIOUS
  <2> HIDE DEF at, idle, moved
  <2>3. CASE c \in idle
    <3>1. tasks'[c].generation = tasks[c].generation + 1 /\ tasks'[c].running = tasks[c].running
      BY <1>1, <2>1, <2>3 DEF Tasks
    <3> QED
      BY <2>1, <2>2, <2>3, <3>1 DEF SlotBumped
  <2>4. CASE c \notin idle
    BY <1>1, <1>3, <2>4 DEF SlotKept
  <2> QED
    BY <2>3, <2>4
<1> HIDE DEF at, idle, moved
<1>6. moved \subseteq Registered
  BY DEF moved, idle
<1>7. \A e \in heap' : e \in heap \/ \E c \in DOMAIN tasks' : SlotBumped(c) /\ e = Entry(c, tasks'[c])
  BY <1>2, <1>3, <1>4, <1>5, <1>6
<1> QED
  BY <1>4, <1>5, <1>7, QueueHandler

LEMMA QueuePermit ==
    ASSUME Queue, Flags', Permit
    PROVE  Queued'
<1>1. ASSUME NEW p \in Permits, SetWorkLevel(p[1], p[2]) PROVE Queued'
  BY <1>1, QueueReschedule DEF SetWorkLevel
<1>2. ASSUME NEW q \in BOOLEAN, SetPeriodicRefreshPaused(q)
      PROVE  Queued'
  BY <1>2, QueueReschedule DEF SetPeriodicRefreshPaused
<1>3. ASSUME NEW page \in Pages, SetActivePage(page) PROVE Queued'
  <2> DEFINE turned == {c \in Registered : tasks[c].paused # (tasks[c].page # page)}
             idle   == {c \in turned : ~tasks[c].running}
             shown  == {c \in idle : tasks[c].paused /\ level # "suspended" /\ ~quiet}
  <2>1. tasks' = [c \in Registered |->
           [tasks[c] EXCEPT
              !.paused     = (tasks[c].page # page),
              !.generation = IF c \in idle THEN tasks[c].generation + 1
                                           ELSE tasks[c].generation,
              !.nextRun    = IF c \in shown THEN now ELSE tasks[c].nextRun]]
    BY <1>3 DEF SetActivePage
  <2>2. heap' = heap \cup {Entry(c, tasks'[c]) : c \in shown}
    BY <1>3 DEF SetActivePage
  <2>3. shown \subseteq idle /\ idle \subseteq Registered /\ \A c \in idle : ~tasks[c].running
    OBVIOUS
  <2> HIDE DEF turned, idle, shown
  <2>4. DOMAIN tasks' = Registered
    BY <2>1
  <2>5. ASSUME NEW c \in Registered
        PROVE  (c \in idle => SlotBumped(c)) /\ (c \notin idle => SlotKept(c))
    <3>1. tasks[c] \in Tasks /\ tasks[c].generation \in Nat
      BY DEF Queue, Queued, Flags, TypeOK, Tasks
    <3>2. tasks'[c].running = tasks[c].running
      BY <2>1, <3>1 DEF Tasks
    <3>3. CASE c \in idle
      <4>1. tasks'[c].generation = tasks[c].generation + 1
        BY <2>1, <3>1, <3>3 DEF Tasks
      <4> QED
        BY <2>3, <3>1, <3>2, <3>3, <4>1 DEF SlotBumped
    <3>4. CASE c \notin idle
      <4>1. tasks'[c].generation = tasks[c].generation /\ tasks'[c].nextRun = tasks[c].nextRun
        BY <2>1, <2>3, <3>1, <3>4 DEF Tasks
      <4> QED
        BY <3>2, <3>4, <4>1 DEF SlotKept
    <3> QED
      BY <3>3, <3>4
  <2>6. AtRest /\ UNCHANGED <<ready, deferred, flights>>
    BY <1>3 DEF SetActivePage
  <2>7. \A e \in heap' : e \in heap \/ \E c \in DOMAIN tasks' : SlotBumped(c) /\ e = Entry(c, tasks'[c])
    BY <2>2, <2>3, <2>4, <2>5
  <2> QED
    BY <2>4, <2>5, <2>6, <2>7, QueueHandler
<1> QED
  BY <1>1, <1>2, <1>3 DEF Permit

\* A request leaves the slot of its card alone or queues it anew.
LEMMA SlotRequested ==
    ASSUME Queue, NEW c \in Registered, NEW reason \in Reasons, NEW revision \in Nat,
           NEW slot \in Nat, tasks'[c] = Requested(tasks[c], reason, revision, slot)
    PROVE  IF Queues(tasks[c]) THEN SlotBumped(c) ELSE SlotKept(c)
<1>1. tasks[c] \in Tasks /\ tasks[c].generation \in Nat
  BY DEF Queue, Queued, Flags, TypeOK, Tasks
<1> QED
  BY <1>1, RequestedFacts DEF SlotBumped, SlotKept, Queues

LEMMA QueueRequest ==
    ASSUME Queue, Flags', Request
    PROVE  Queued'
<1>1. ASSUME NEW c \in Registered, NEW reason \in Reasons, NEW revision \in Nat,
             NEW slot \in Nat, AtRest, UNCHANGED <<ready, deferred, flights>>,
             tasks' = [tasks EXCEPT ![c] = Requested(@, reason, revision, slot)],
             heap' = IF Queues(tasks[c]) THEN heap \cup {Entry(c, tasks'[c])} ELSE heap
      PROVE  Queued'
  <2>1. DOMAIN tasks' = Registered
        /\ tasks'[c] = Requested(tasks[c], reason, revision, slot)
        /\ \A d \in Registered \ {c} : tasks'[d] = tasks[d]
    BY <1>1 DEF Queue, Queued, Flags, TypeOK, Registered
  <2>2. IF Queues(tasks[c]) THEN SlotBumped(c) ELSE SlotKept(c)
    BY <2>1, SlotRequested
  <2>3. \A d \in Registered \ {c} : SlotKept(d)
    BY <2>1 DEF SlotKept
  <2>4. \A e \in heap' : e \in heap \/ \E d \in DOMAIN tasks' : SlotBumped(d) /\ e = Entry(d, tasks'[d])
    BY <1>1, <2>1, <2>2
  <2> QED
    BY <1>1, <2>1, <2>2, <2>3, <2>4, QueueHandler
<1>2. ASSUME NEW c \in Cards, NEW reason \in Reasons, NEW revision \in Nat,
             RequestEvent(c, reason, revision)
      PROVE  Queued'
  BY <1>1, <1>2 DEF RequestEvent, Queue, Queued, Flags, TypeOK
<1>3. ASSUME NEW c \in Cards, RequestNow(c) PROVE Queued'
  BY <1>2, <1>3 DEF RequestNow, Reasons
<1>4. ASSUME NEW c \in Cards, NEW key \in SourceKeys, NEW revision \in Revisions,
             RequestSource(c, key, revision)
      PROVE  Queued'
  BY <1>2, <1>4, SchedulerAssumption DEF RequestSource, Reasons
<1>5. ASSUME NEW c \in Cards, RequestConfigReload(c) PROVE Queued'
  <2> DEFINE defers == Expensive(tasks[c]) /\ Queues(tasks[c])
             slot   == IF defers THEN Larger(reloadCursor, now) ELSE now
  <2>1. slot \in Nat
    BY DEF Queue, Queued, Flags, TypeOK, Times, Never, Larger
  <2>2. /\ c \in Registered /\ AtRest /\ UNCHANGED <<ready, deferred, flights>>
        /\ tasks' = [tasks EXCEPT ![c] = Requested(@, "wallclock", 0, slot)]
        /\ heap' = IF Queues(tasks[c]) THEN heap \cup {Entry(c, tasks'[c])} ELSE heap
    BY <1>5 DEF RequestConfigReload
  <2>3. "wallclock" \in Reasons
    BY DEF Reasons
  <2> HIDE DEF slot
  <2> QED
    BY <1>1, <2>1, <2>2, <2>3
<1>6. ASSUME RequestAllNow PROVE Queued'
  <2>1. DOMAIN tasks' = Registered
        /\ \A c \in Registered : tasks'[c] = Requested(tasks[c], "manual", 0, now)
    BY <1>6 DEF RequestAllNow, Registered
  <2>2. "manual" \in Reasons /\ 0 \in Nat /\ now \in Nat
    BY DEF Reasons, Queue, Queued, Flags, TypeOK
  <2>3. \A c \in Registered : IF Queues(tasks[c]) THEN SlotBumped(c) ELSE SlotKept(c)
    BY <2>1, <2>2, SlotRequested
  <2>4. heap' = heap \cup {Entry(c, tasks'[c]) : c \in {d \in Registered : Queues(tasks[d])}}
        /\ AtRest /\ UNCHANGED <<ready, deferred, flights>>
    BY <1>6 DEF RequestAllNow
  <2>5. \A e \in heap' : e \in heap \/ \E d \in DOMAIN tasks' : SlotBumped(d) /\ e = Entry(d, tasks'[d])
    BY <2>1, <2>3, <2>4
  <2> QED
    BY <2>1, <2>3, <2>4, <2>5, QueueHandler
<1> QED
  BY <1>3, <1>4, <1>5, <1>6 DEF Request

\* A step that leaves the cards alone, and drops or moves entries at most.
LEMMA QueueStill ==
    ASSUME Queue, Flags', UNCHANGED <<tasks, ready>>, flights' \subseteq flights,
           heap' \cup deferred' \subseteq heap \cup deferred, heap' \cap deferred' = {}
    PROVE  Queued'
<1>1. \A c \in Registered : Entry(c, tasks[c])' = Entry(c, tasks[c])
  BY DEF Entry
<1>2. \A c : Pending(c)' <=> Pending(c)
  BY DEF Pending
<1>3. Flying'
  BY DEF Queue, Queued, Flying, Registered
<1> QED
  BY <1>1, <1>2, <1>3 DEF Queue, Queued, Fresh, Disjoint, Apart, Registered

LEMMA QueueComplete ==
    ASSUME Queue, Flags', Complete
    PROVE  Queued'
<1>1. ASSUME NEW w \in flights, NEW ok \in BOOLEAN, NEW deadline \in Deadlines(w),
             MarkDone(w, ok, deadline)
      PROVE  Queued'
  <2> DEFINE c == w.card
             u == Finished(tasks[c], w.base, ok, deadline)
  <2>1. /\ c \in Registered /\ tasks' = [tasks EXCEPT ![c] = u]
        /\ heap' \subseteq heap \cup {Entry(c, u)}
        /\ AtRest /\ UNCHANGED <<ready, deferred>> /\ flights' \subseteq flights
    BY <1>1 DEF MarkDone, Current, Finish
  <2>2. tasks[c] \in Tasks /\ tasks[c].generation \in Nat /\ w.base \in Nat
    BY <2>1 DEF Queue, Queued, Flags, TypeOK, Tasks, Flights
  <2>3. deadline \in Times
    BY DeadlinesType DEF Queue, Flags
  <2>4. ~u.running /\ u.generation = tasks[c].generation + 1
    BY <2>2, <2>3, FinishedFacts
  <2> HIDE DEF u, c
  <2>5. DOMAIN tasks' = Registered /\ tasks'[c] = u
        /\ \A d \in Registered \ {c} : tasks'[d] = tasks[d]
    BY <2>1 DEF Queue, Queued, Flags, TypeOK, Registered
  <2>6. SlotBumped(c)
    BY <2>2, <2>4, <2>5 DEF SlotBumped
  <2>7. \A d \in Registered \ {c} : SlotKept(d)
    BY <2>5 DEF SlotKept
  <2>8. \A e \in heap' : e \in heap \/ \E d \in DOMAIN tasks' : SlotBumped(d) /\ e = Entry(d, tasks'[d])
    BY <2>1, <2>5, <2>6
  <2> QED
    BY <2>1, <2>5, <2>6, <2>7, <2>8, QueueHandler
<1>2. ASSUME NEW w \in flights, Outdated(w) PROVE Queued'
  BY <1>2, QueueStill DEF Outdated, Queue, Queued, Disjoint
<1> QED
  BY <1>1, <1>2 DEF Complete

\* The first ready card is not among the others.
LEMMA ReadyDistinct ==
    ASSUME TypeOK, Apart, ready # <<>>, ready' = Tail(ready), NEW c, c = Head(ready)
    PROVE  /\ ~Pending(c)'
           /\ \A i, j \in 1 .. Len(ready') : ready'[i] = ready'[j] => i = j
<1>1. ready \in Seq(Registered) /\ Len(ready) \in Nat \ {0}
  BY DEF TypeOK
<1>2. Len(ready') = Len(ready) - 1 /\ \A i \in 1 .. Len(ready') : ready'[i] = ready[i + 1]
  BY <1>1
<1>3. \A i, j \in 1 .. Len(ready) : ready[i] = ready[j] => i = j
  BY DEF Apart
<1>4. ASSUME NEW i \in 1 .. Len(ready'), NEW j \in 1 .. Len(ready'), ready'[i] = ready'[j]
      PROVE  i = j
  <2>1. i + 1 \in 1 .. Len(ready) /\ j + 1 \in 1 .. Len(ready) /\ ready[i + 1] = ready[j + 1]
    BY <1>1, <1>2, <1>4
  <2>2. i + 1 = j + 1
    BY <1>3, <2>1
  <2> QED
    BY <1>1, <1>2, <2>2
<1>5. ASSUME NEW i \in 1 .. Len(ready'), ready'[i] = c PROVE FALSE
  <2>1. i + 1 \in 1 .. Len(ready) /\ 1 \in 1 .. Len(ready) /\ ready[i + 1] = ready[1]
    BY <1>1, <1>2, <1>5
  <2>2. i + 1 = 1
    BY <1>3, <2>1
  <2> QED
    BY <1>1, <1>2, <2>2
<1> QED
  BY <1>4, <1>5 DEF Pending

LEMMA QueuePollLoop ==
    ASSUME Queue, Flags', PollLoop
    PROVE  Queued'
<1> USE DEF Queue, Queued
<1>0. TypeOK /\ \A c \in Registered : tasks[c] \in Tasks /\ tasks[c].generation \in Nat
  BY DEF Flags, TypeOK, Tasks
<1>2. CASE PollBegin \/ BeginNext
  BY <1>2, QueueStill DEF PollBegin, BeginNext, Disjoint
<1>3. ASSUME NEW e \in heap,
             PollDefer(e) \/ NextDefer(e) \/ PollDrop(e) \/ NextDrop(e)
      PROVE  Queued'
  BY <1>3, QueueStill DEF PollDefer, NextDefer, PollDrop, NextDrop, Disjoint
<1>4. CASE PollEnd \/ NextEnd
  BY <1>4, CompactedKeeps, QueueStill DEF PollEnd, NextEnd
<1>5. ASSUME NEW e \in heap, PollTake(e) PROVE Queued'
  <2>1. PICK c : c = e.card
    OBVIOUS
  <2> DEFINE u == Dequeued(tasks[c])
  <2>2. /\ c \in Registered /\ ~tasks[c].running /\ heap' = heap \ {e}
        /\ tasks' = [tasks EXCEPT ![c] = u] /\ ready' = Append(ready, c)
        /\ deferred' = deferred /\ ~Stale(e) /\ flights' = flights
    BY <1>5, <2>1 DEF PollTake, Stale, Dequeuable
  <2>3. /\ u.generation = tasks[c].generation /\ u.nextRun = tasks[c].nextRun
        /\ u.running = tasks[c].running /\ ~u.runOnce
    BY <1>0, <2>2 DEF Dequeued, Tasks
  <2>4. e = Entry(c, tasks[c])
    BY <2>1, <2>2, FreshOneLive DEF OneLiveEntry
  <2> HIDE DEF u
  <2>5. DOMAIN tasks' = Registered /\ tasks'[c] = u
        /\ \A d \in Registered \ {c} : tasks'[d] = tasks[d]
    BY <2>2, <1>0 DEF TypeOK, Registered
  <2>6. ~Pending(c)
    BY <2>2, <2>4 DEF Apart
  <2>7. \A d \in Registered : Entry(d, tasks'[d]) = Entry(d, tasks[d])
    BY <2>3, <2>5 DEF Entry
  <2>8. Fresh' /\ Disjoint'
    BY <2>2, <2>3, <2>5 DEF Fresh, Disjoint, Registered
  <2>9. /\ Len(ready') = Len(ready) + 1 /\ ready'[Len(ready')] = c /\ Len(ready) \in Nat
        /\ \A i \in 1 .. Len(ready) : ready'[i] = ready[i]
    BY <2>2, <1>0 DEF TypeOK
  <2>10. \A i \in 1 .. Len(ready) : ready[i] # c
    BY <2>6 DEF Pending
  <2>11. \A i, j \in 1 .. Len(ready') : ready'[i] = ready'[j] => i = j
    <3>1. \A i, j \in 1 .. Len(ready) : ready[i] = ready[j] => i = j
      BY DEF Apart
    <3> QED
      BY <2>9, <2>10, <3>1
  <2>12. \A d : Pending(d)' => Pending(d) \/ d = c
    BY <2>9 DEF Pending
  <2>13. ASSUME NEW d \in Registered, tasks'[d].running \/ Pending(d)'
         PROVE  /\ ~(tasks'[d].running /\ Pending(d)')
                /\ ~tasks'[d].runOnce
                /\ Entry(d, tasks'[d]) \notin heap' \cup deferred'
    <3>1. CASE d = c
      BY <2>2, <2>3, <2>4, <2>5, <2>7, <3>1 DEF Disjoint
    <3>2. CASE d # c
      BY <2>2, <2>5, <2>7, <2>12, <2>13, <3>2 DEF Apart
    <3> QED
      BY <3>1, <3>2
  <2>14. Apart'
    <3>1. \A d \in Registered : Entry(d, tasks[d])' = Entry(d, tasks'[d])
      BY DEF Entry
    <3> QED
      BY <2>5, <2>11, <2>13, <3>1 DEF Apart, Registered
  <2>15. Flying'
    <3>1. \A w \in flights : w.own => w.card \in Registered /\ SlotKept(w.card)
      BY <2>3, <2>5 DEF Flying, SlotKept
    <3> QED
      BY <2>2, <2>5, <3>1, FlyingKept DEF Flags
  <2> QED
    BY <2>8, <2>14, <2>15
\* Steps that start, or skip, the first ready card.
<1>6. ASSUME NEW c, c = Head(ready), ready # <<>>, ready' = Tail(ready),
             NEW u, tasks' = [tasks EXCEPT ![c] = u],
             phase = "start", deferred' = deferred,
             \/ /\ heap' = heap /\ u.running /\ ~u.runOnce
                /\ u.generation = tasks[c].generation /\ u.nextRun = tasks[c].nextRun
                /\ flights' = flights \cup Launched(c, tasks[c])
             \/ /\ flights' = flights
                /\ heap' \subseteq heap \cup {Entry(c, u)} /\ ~u.running
                /\ u.generation = tasks[c].generation + 1
      PROVE  Queued'
  <2>1. c \in Registered /\ Pending(c) /\ \A d : Pending(d)' => Pending(d)
    BY <1>0, <1>6, ReadyHead
  <2>2. ~Pending(c)' /\ \A i, j \in 1 .. Len(ready') : ready'[i] = ready'[j] => i = j
    BY <1>0, <1>6, ReadyDistinct
  <2>3. DOMAIN tasks' = Registered /\ tasks'[c] = u
        /\ \A d \in Registered \ {c} : tasks'[d] = tasks[d]
    BY <1>0, <1>6, <2>1 DEF TypeOK, Registered
  <2>4. deferred = {} /\ deferred' = {}
    BY <1>0, <1>6 DEF TypeOK
  <2>5. /\ Entry(c, u).card = c /\ Entry(c, u).gen = u.generation
        /\ Entry(c, u).at = u.nextRun
    BY DEF Entry
  <2>6. tasks[c].generation \in Nat
        /\ \A e \in heap : e \in Entries
    BY <1>0, <2>1 DEF TypeOK
  <2>7. Fresh'
    <3>1. ASSUME NEW e \in heap'
          PROVE  /\ e.card \in Registered
                 /\ e.gen <= tasks'[e.card].generation
                 /\ e.gen = tasks'[e.card].generation => e.at = tasks'[e.card].nextRun
      <4>1. CASE e \in heap /\ e.card # c
        BY <2>3, <4>1 DEF Fresh
      <4>2. CASE e \in heap /\ e.card = c
        <5>1. /\ e.gen \in Nat /\ e.gen <= tasks[c].generation
              /\ e.gen = tasks[c].generation => e.at = tasks[c].nextRun
          BY <2>6, <4>2 DEF Fresh, Entries
        <5> QED
          BY <1>6, <2>1, <2>3, <2>6, <4>2, <5>1
      <4>3. CASE e = Entry(c, u) /\ u.generation = tasks[c].generation + 1
        BY <2>1, <2>3, <2>5, <2>6, <4>3
      <4> QED
        BY <1>6, <4>1, <4>2, <4>3
    <3> QED
      BY <2>3, <2>4, <3>1 DEF Fresh, Registered
  <2>8. ASSUME NEW d \in Registered, tasks'[d].running \/ Pending(d)'
        PROVE  /\ ~(tasks'[d].running /\ Pending(d)')
               /\ ~tasks'[d].runOnce
               /\ Entry(d, tasks'[d]) \notin heap'
    <3>1. CASE d = c
      <4>1. u.running /\ heap' = heap /\ Entry(c, u) = Entry(c, tasks[c])
        BY <1>6, <2>2, <2>3, <2>8, <3>1 DEF Entry
      <4> QED
        BY <1>6, <2>1, <2>2, <2>3, <3>1, <4>1 DEF Apart
    <3>2. CASE d # c
      <4>1. tasks'[d] = tasks[d] /\ (tasks[d].running \/ Pending(d))
        BY <2>1, <2>3, <2>8, <3>2
      <4>2. Entry(d, tasks[d]) # Entry(c, u)
        BY <3>2 DEF Entry
      <4> QED
        BY <1>6, <2>1, <4>1, <4>2 DEF Apart
    <3> QED
      BY <3>1, <3>2
  <2>9. Apart'
    <3>1. \A d \in Registered : Entry(d, tasks[d])' = Entry(d, tasks'[d])
      BY DEF Entry
    <3> QED
      BY <2>2, <2>3, <2>4, <2>8, <3>1 DEF Apart, Registered
  <2>10. ~tasks[c].running
    BY <2>1 DEF Apart
  <2>11. \A w \in flights : w.own /\ w.card = c => w.gen # tasks[c].generation
    BY <2>10 DEF Flying
  <2>12. \A w \in flights : w.own => w.card \in Registered /\ w.gen \in Nat
    BY <1>0 DEF Flying, TypeOK, Flights
  <2>13. Flying'
    <3>1. CASE u.generation = tasks[c].generation + 1 /\ flights' = flights
      <4>1. \A d \in Registered : SlotKept(d) \/ tasks'[d].generation > tasks[d].generation
        BY <2>3, <2>6, <3>1 DEF SlotKept
      <4> QED
        BY <2>3, <2>12, <3>1, <4>1, FlyingKept DEF Flags
    <3>2. CASE /\ u.running /\ u.generation = tasks[c].generation
               /\ flights' = flights \cup Launched(c, tasks[c])
      <4>1. ASSUME NEW w \in Launched(c, tasks[c])
            PROVE  /\ w.card = c /\ w.gen = tasks[c].generation
                   /\ \A v \in Launched(c, tasks[c]) : v = w
        <5> DEFINE one == [id |-> CHOOSE id \in Unused(c) : TRUE, card |-> c,
                           gen |-> tasks[c].generation, at |-> now,
                           base |-> tasks[c].policy.base,
                           scheduled |-> tasks[c].policy.scheduled, own |-> TRUE]
        <5>1. Launched(c, tasks[c]) = {} \/ Launched(c, tasks[c]) = {one}
          BY DEF Launched
        <5>2. one.card = c /\ one.gen = tasks[c].generation
          OBVIOUS
        <5> HIDE DEF one
        <5> QED
          BY <4>1, <5>1, <5>2
      <4> SUFFICES ASSUME NEW w \in flights', w.own
                   PROVE  /\ w.card \in DOMAIN tasks'
                          /\ w.gen <= tasks'[w.card].generation
                          /\ w.gen = tasks'[w.card].generation => tasks'[w.card].running
                          /\ \A v \in flights' :
                                v.own /\ v.card = w.card /\ v.gen = w.gen => v = w
        BY DEF Flying, Registered
      <4>2. CASE w \in Launched(c, tasks[c])
        BY <2>1, <2>3, <2>6, <2>11, <3>2, <4>1, <4>2
      <4>3. CASE w \in flights /\ w.card = c
        <5>1. w.gen <= tasks[c].generation /\ w.gen # tasks[c].generation
          BY <2>11, <4>3 DEF Flying
        <5>2. \A v \in flights : v.own /\ v.card = w.card /\ v.gen = w.gen => v = w
          BY <4>3 DEF Flying
        <5> QED
          BY <2>1, <2>3, <3>2, <4>1, <4>3, <5>1, <5>2
      <4>4. CASE w \in flights /\ w.card # c
        <5>1. /\ w.card \in Registered /\ w.gen <= tasks[w.card].generation
              /\ w.gen = tasks[w.card].generation => tasks[w.card].running
              /\ \A v \in flights : v.own /\ v.card = w.card /\ v.gen = w.gen => v = w
          BY <4>4 DEF Flying
        <5> QED
          BY <2>3, <3>2, <4>1, <4>4, <5>1
      <4> QED
        BY <3>2, <4>2, <4>3, <4>4
    <3> QED
      BY <1>6, <3>1, <3>2
  <2> QED
    BY <2>4, <2>7, <2>9, <2>13 DEF Disjoint
<1>7. CASE Start
  <2> PICK c : c = Head(ready)
    OBVIOUS
  <2> DEFINE u == Started(tasks[c])
  <2>1. /\ tasks' = [tasks EXCEPT ![c] = u] /\ phase = "start"
        /\ ready # <<>> /\ ready' = Tail(ready)
        /\ heap' = heap /\ deferred' = deferred
        /\ flights' = flights \cup Launched(c, tasks[c])
    BY <1>7 DEF Start
  <2>2. c \in Registered /\ tasks[c] \in Tasks /\ ~tasks[c].runOnce
    BY <1>0, <2>1, ReadyHead DEF Apart
  <2>3. /\ u.running /\ ~u.runOnce
        /\ u.generation = tasks[c].generation /\ u.nextRun = tasks[c].nextRun
    BY <2>2 DEF Started, Tasks
  <2> HIDE DEF u
  <2> QED
    BY <1>6, <2>1, <2>3
<1>8. CASE StartUnavailable
  <2> PICK c : c = Head(ready)
    OBVIOUS
  <2> DEFINE s == Started(tasks[c])
             u == Finished(s, s.policy.base, FALSE, Never)
  <2>1. /\ tasks' = [tasks EXCEPT ![c] = u] /\ phase = "start"
        /\ ready # <<>> /\ ready' = Tail(ready)
        /\ heap' \subseteq heap \cup {Entry(c, u)} /\ deferred' = deferred
        /\ flights' = flights
    BY <1>8 DEF StartUnavailable
  <2>2. c \in Registered /\ tasks[c] \in Tasks
    BY <1>0, <2>1, ReadyHead
  <2>3. s \in Tasks /\ s.generation = tasks[c].generation
    BY <1>0, <2>2, StartedType DEF Started, Tasks, TypeOK
  <2> HIDE DEF s
  <2>4. ~u.running /\ u.generation = tasks[c].generation + 1
    <3>1. s.policy.base \in Nat /\ Never \in Times
      BY <2>3 DEF Times, Tasks, Policies
    <3>2. ~u.running /\ u.generation = s.generation + 1
      BY <2>3, <3>1, FinishedFacts
    <3> QED
      BY <2>3, <3>2
  <2> HIDE DEF u
  <2> QED
    BY <1>6, <2>1, <2>4
<1> QED
  BY <1>2, <1>3, <1>4, <1>5, <1>7, <1>8 DEF PollLoop

LEMMA QueueNext ==
    ASSUME Optional = {}, Queue, [Next]_vars
    PROVE  Queue'
<1>1. Flags'
  BY FlagsNext DEF Queue, Queued
<1>2. CASE Tick \/ UNCHANGED vars
  BY <1>1, <1>2, QueueStill DEF Tick, vars, Queue, Queued, Disjoint
<1> QED
  BY <1>1, <1>2, QueueConfigure, QueuePermit, QueueRequest, QueueComplete, QueuePollLoop
     DEF Next, Queue, Queued

LEMMA QueueInit == Init => Queue
BY FlagsInit DEF Init, Queue, Queued, Fresh, Disjoint, Apart, Flying, Registered, Pending

\* While no card is taken out of the scheduler one by one, no card has two live
\* entries: a stale one never becomes current again.
THEOREM OneLiveEntryAlways ==
    ASSUME Optional = {}
    PROVE  Spec => []OneLiveEntry
<1>1. Queue /\ [Next]_vars => Queue'
  BY QueueNext
<1> QED
  BY <1>1, QueueInit, FreshOneLive, PTL DEF Spec

\* Under the same condition poll never returns a card that is running, never returns one
\* twice, and the worker of a card whose completion still counts is its only one.
THEOREM NoReentryAlways ==
    ASSUME Optional = {}
    PROVE  Spec => []NoReentry
<1>1. Queue /\ [Next]_vars => Queue'
  BY QueueNext
<1>2. Queue => NoReentry
  BY QueueReentry
<1> QED
  BY <1>1, <1>2, QueueInit, PTL DEF Spec

-----------------------------------------------------------------------------
(* What poll returns is permitted.                                         *)

\* What PermittedStart says of one card that is pending: of its instant, and of its reason.
Timely(t) ==
    /\ t.nextRun <= now + Coalesce[level]
    /\ t.policy.scheduled \/ Expensive(t) \/ t.activeReason = "wallclock" => t.nextRun <= now

Admitted(t) ==
    /\ quiet => t.activeReason \notin {"wallclock", NoReason}
    /\ t.activeReason = NoReason => Unattended(t)

Permitted(c, t) == Timely(t) /\ (c \notin mistaken => Admitted(t))

\* poll never goes through the heap while the window is suspended.
Awake == phase = "poll" => level # "suspended"

\* The entry of a card is its slot, and so the instant that poll looks at is the card's.
LEMMA TakenPermitted ==
    ASSUME Queue, NEW e \in heap, PollTake(e)
    PROVE  Permitted(e.card, Dequeued(tasks[e.card]))
<1> DEFINE t == tasks[e.card]
           u == Dequeued(t)
<1>1. /\ e.card \in Registered /\ t \in Tasks /\ e.at = t.nextRun /\ e.at \in Nat
  <2>1. e.card \in Registered /\ ~Stale(e)
    BY DEF PollTake, Queue, Queued, Fresh
  <2>2. e = Entry(e.card, t)
    BY <2>1, FreshOneLive DEF OneLiveEntry
  <2> QED
    BY <2>1, <2>2 DEF Entry, Queue, Queued, Flags, TypeOK, Tasks
<1>2. /\ u.nextRun = t.nextRun /\ u.policy = t.policy /\ u.activeReason = t.pendingReason
  BY <1>1 DEF Dequeued, Tasks
<1>3. /\ e.at <= now + Coalesce[level]
      /\ e.at > now => ~Absolute(t)
  <2>1. ~PollStops(e)
    BY DEF PollTake
  <2>2. now + Coalesce[level] \in Nat
    BY SchedulerAssumption DEF Queue, Queued, Flags, TypeOK
  <2> QED
    BY <1>1, <2>1, <2>2 DEF PollStops
<1>4. ASSUME e.card \notin mistaken PROVE Admitted(u)
  <2>1. Dequeuable(t) /\ ~Held(e)
    BY DEF PollTake
  <2>2. ~t.runOnce => ~quiet /\ Unattended(t)
    BY <2>1 DEF Dequeuable
  <2>3. t.runOnce => RunOncePermitted(t.pendingReason, quiet)
    BY <1>1, <2>1 DEF Held
  <2>4. Reasoned(t)
    BY <1>1, <1>4 DEF Queue, Queued, Flags, TasksSound
  <2>5. Unattended(u) <=> Unattended(t)
    BY <1>1 DEF Unattended, Interval, Dequeued, Tasks
  <2>6. quiet => t.pendingReason \notin {"wallclock", NoReason}
    BY <2>2, <2>3, <2>4 DEF Reasoned, RunOncePermitted
  <2>7. t.pendingReason = NoReason => Unattended(t)
    BY <2>2, <2>4 DEF Reasoned
  <2> HIDE DEF u, t
  <2> QED
    BY <1>2, <2>5, <2>6, <2>7 DEF Admitted
<1>5. now \in Nat
  BY DEF Queue, Queued, Flags, TypeOK
<1>6. Expensive(u) = Expensive(t)
  BY <1>2 DEF Expensive
<1> HIDE DEF u, t
<1>7. ~(e.at > now) => e.at <= now
  BY <1>1, <1>5
<1> QED
  <2>1. Timely(u)
    BY <1>1, <1>2, <1>3, <1>6, <1>7 DEF Timely, Absolute
  <2>2. Permitted(e.card, u)
    BY <1>4, <2>1 DEF Permitted
  <2> QED
    BY <2>2 DEF u, t

LEMMA AwakeNext == TypeOK /\ Awake /\ [Next]_vars => Awake'
BY DEF Awake, AtRest, Next, Configure, Register, Rebind, Replace, Unregister, Clear, Permit,
       SetWorkLevel, SetPeriodicRefreshPaused, SetActivePage, Request, RequestNow, RequestSource,
       RequestEvent, RequestConfigReload, RequestAllNow, Complete, MarkDone, Outdated, Tick, PollLoop,
       PollBegin, PollDefer, PollDrop, PollTake, PollEnd, Start, StartUnavailable, BeginNext,
       NextDefer, NextDrop, NextEnd, vars

LEMMA PermittedFacts ==
    PermittedStart <=> \A c \in Registered : Pending(c) =>
                           level # "suspended" /\ Permitted(c, tasks[c])
BY DEF PermittedStart, Permitted, Timely, Admitted

LEMMA PermittedNext ==
    ASSUME Queue, Awake, PermittedStart, [Next]_vars, Flags'
    PROVE  PermittedStart'
<1>0. /\ TypeOK /\ TypeOK'
      /\ \A c \in Registered : Pending(c) => level # "suspended" /\ Permitted(c, tasks[c])
  BY PermittedFacts DEF Queue, Flags
<1>1. CASE AtRest /\ ready' = ready
  BY <1>0, <1>1, NonePending DEF PermittedStart
<1>2. ASSUME UNCHANGED <<tasks, ready, level, context, quiet, now, mistaken>> PROVE PermittedStart'
  BY <1>2 DEF PermittedStart, Registered, Pending, Expensive, Unattended, Interval
<1>3. ASSUME NEW c \in Registered, NEW u, tasks' = [tasks EXCEPT ![c] = u],
             UNCHANGED <<level, context, quiet, now>>,
             \A d \in Registered \ {c} : d \in mistaken' <=> d \in mistaken,
             \A d : Pending(d)' => Pending(d) \/ d = c,
             Pending(c)' => level # "suspended" /\ Timely(u) /\ (c \notin mistaken' => Admitted(u))
      PROVE  PermittedStart'
  <2>1. DOMAIN tasks' = Registered /\ tasks'[c] = u /\ \A d \in Registered \ {c} : tasks'[d] = tasks[d]
    BY <1>0, <1>3 DEF TypeOK, Registered
  <2>2. ASSUME NEW d \in Registered, Pending(d)'
        PROVE  /\ level # "suspended" /\ Timely(tasks'[d])
               /\ d \notin mistaken' => Admitted(tasks'[d])
    <3>1. CASE d = c
      BY <1>3, <2>1, <2>2, <3>1
    <3>2. CASE d # c
      BY <1>0, <1>3, <2>1, <2>2, <3>2 DEF Permitted
    <3> QED
      BY <3>1, <3>2
  <2> QED
    BY <1>3, <2>1, <2>2
       DEF PermittedStart, Timely, Admitted, Expensive, Unattended, Interval, Registered
<1>4. ASSUME NEW e \in heap, PollTake(e) PROVE PermittedStart'
  <2>1. e.card \in Registered
    BY DEF Queue, Queued, Fresh
  <2>2. /\ tasks' = [tasks EXCEPT ![e.card] = Dequeued(tasks[e.card])]
        /\ ready' = Append(ready, e.card) /\ UNCHANGED <<level, context, quiet, now, mistaken>>
        /\ level # "suspended"
    BY <1>4 DEF PollTake, Awake
  <2>3. \A d : Pending(d)' => Pending(d) \/ d = e.card
    BY <1>0, <2>2 DEF Pending, TypeOK
  <2>4. Permitted(e.card, Dequeued(tasks[e.card]))
    BY <1>4, TakenPermitted
  <2> QED
    BY <1>3, <2>1, <2>2, <2>3, <2>4 DEF Permitted
<1>5. CASE Start \/ StartUnavailable
  <2>1. PICK c : c = Head(ready)
    OBVIOUS
  <2>2. /\ ready # <<>> /\ ready' = Tail(ready) /\ UNCHANGED <<level, context, quiet, now>>
        /\ \E u : tasks' = [tasks EXCEPT ![c] = u]
        /\ mistaken' = mistaken \ {c}
    BY <1>5, <2>1 DEF Start, StartUnavailable
  <2>3. PICK u : tasks' = [tasks EXCEPT ![c] = u]
    BY <2>2
  <2>4. /\ c \in Registered /\ \A d : Pending(d)' => Pending(d)
    BY <1>0, <2>1, <2>2, ReadyHead
  <2>5. ~Pending(c)'
    BY <1>0, <2>1, <2>2, ReadyDistinct DEF Queue, Queued
  <2> QED
    BY <1>3, <2>2, <2>3, <2>4, <2>5
<1>6. CASE Configure \/ Request \/ Complete \/ Permit \/ Tick
  BY <1>1, <1>6 DEF Configure, Register, Rebind, Replace, Unregister, Clear, Permit, SetWorkLevel,
           SetPeriodicRefreshPaused, SetActivePage, Request, RequestNow, RequestSource,
           RequestEvent, RequestConfigReload, RequestAllNow, Complete, MarkDone, Outdated, Tick
<1>7. CASE PollLoop
  <2>1. CASE PollBegin \/ PollEnd \/ BeginNext \/ NextEnd
    BY <1>2, <2>1 DEF PollBegin, PollEnd, BeginNext, NextEnd
  <2>2. ASSUME NEW e \in heap, PollDefer(e) \/ PollDrop(e) \/ NextDefer(e) \/ NextDrop(e)
        PROVE  PermittedStart'
    BY <1>2, <2>2 DEF PollDefer, PollDrop, NextDefer, NextDrop
  <2> QED
    BY <1>4, <1>5, <1>7, <2>1, <2>2 DEF PollLoop
<1>8. CASE UNCHANGED vars
  BY <1>2, <1>8 DEF vars
<1> QED
  BY <1>6, <1>7, <1>8 DEF Next

\* While no card is taken out of the scheduler one by one, what poll returns may run: the
\* window is shown, quiet hours admit requests of users and sources only, a start nobody
\* asked for has its page shown and an interval, or is the card's first; fixed slots and
\* expensive work are never early, other work by at most the coalescing window (poll).  A
\* card reached while idle by a former registration's completion is exempt in its reason.
THEOREM PermittedAlways ==
    ASSUME Optional = {}
    PROVE  Spec => []PermittedStart
<1>1. Init => Queue /\ Awake /\ PermittedStart
  BY QueueInit DEF Init, PermittedStart, Registered, Awake
<1>2. Queue /\ Awake /\ PermittedStart /\ [Next]_vars => Queue' /\ Awake' /\ PermittedStart'
  <2>1. Queue /\ [Next]_vars => Queue' /\ Flags'
    BY QueueNext DEF Queue
  <2>2. Queue /\ Awake /\ [Next]_vars => Awake'
    BY AwakeNext DEF Queue, Flags
  <2> QED
    BY <2>1, <2>2, PermittedNext
<1> QED
  BY <1>1, <1>2, PTL DEF Spec
=============================================================================
