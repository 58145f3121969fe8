------------------------------ MODULE Runtime -------------------------------
(***************************************************************************)
(* RuntimeManager of src/core/runtime.rs: what it knows of the window, the *)
(* user, the battery, the temperature and the agent, the one timer it arms,*)
(* the snapshot it publishes, and its consumers (src/window.rs).           *)
(*                                                                         *)
(* Everything runs on the GTK main loop.  Each handler ends in recompute,  *)
(* which evaluates the facts, broadcasts a snapshot that differs from the  *)
(* last, and arms the timer for the next instant at which time alone may   *)
(* change the facts.  Instants are seconds.                                *)
(***************************************************************************)
EXTENDS RuntimePolicy, Sequences, SequencesExt, Functions

CONSTANTS
    Configs,          \* runtime configurations the loader accepts
    Owners,           \* dialogs and plugins that may hold an interaction lease
    Desired,          \* durations they ask for
    Consumers,        \* tasks that may subscribe
    Desktop,          \* the one of them that keeps the session's inhibitor
    Capacities,       \* samples of the battery
    Temperatures,     \* verdicts of the thermal source
    Events,           \* important events of the agent
    MaxSeen           \* MAX_SEEN_AGENT_EVENTS

None == -1                    \* Option::None of an instant

ASSUME RuntimeAssumption ==
    /\ \E cfg \in Configs : \A other \in Configs : other.lease <= cfg.lease
    /\ \A cfg \in Configs :
           /\ cfg.lease \in Nat \ {0} /\ cfg.quietEnabled \in BOOLEAN
           /\ {cfg.idleTimeout, cfg.idleStability, cfg.grace, cfg.attention,
               cfg.quietStart, cfg.quietEnd} \subseteq Nat
           /\ DOMAIN cfg.inhibit \subseteq {"screen", "suspend"}
           /\ \A flag \in DOMAIN cfg.inhibit : cfg.inhibit[flag] \in InhibitModes
    /\ Desired \subseteq Nat
    /\ Desktop \in Consumers /\ Temperatures \subseteq Thermals
    /\ MaxSeen \in Nat \ {0}
    /\ {"none", "active"} \cap Events = {}

VARIABLES
    now,
    midnight,         \* local second of the day at instant 0
    manager,          \* the cells of RuntimeManager
    order,            \* seen_event_order, and with it seen_events
    channel,          \* per consumer
    held, inhibitors, \* flags the desktop consumer holds, requests the session keeps
    down,             \* shutdown was called
    granted           \* history: when a lease was granted last, and if to the user

vars == <<now, midnight, manager, order, channel, held, inhibitors, down, granted>>

-----------------------------------------------------------------------------
(* recompute.                                                              *)

LocalSecond == (midnight + now) % DaySeconds

Live(deadline) == deadline # None /\ deadline > now

InteractionActive(m) ==
    Live(m.lease) \/ \E o \in DOMAIN m.interactions : Live(m.interactions[o])

EligibleIdle(m) ==
    /\ m.mapped
    /\ now - m.lastActivity >= m.config.idleTimeout
    /\ ~InteractionActive(m)

Candidate(m) ==
    IF ~EligibleIdle(m) THEN None
    ELSE IF m.idleCandidate = None THEN now ELSE m.idleCandidate

StableIdle(m) ==
    LET candidate == Candidate(m)
    IN  candidate # None /\ now - candidate >= m.config.idleStability

GraceElapsed(m) ==
    m.active \/ (m.inactiveSince # None /\ now - m.inactiveSince >= m.config.grace)

AgentPhase(m) ==
    CASE Live(m.agent.until)                      -> m.agent.event
      [] ~Live(m.agent.until) /\ m.agent.active   -> "active"
      [] OTHER                                    -> "none"

Facts(m) ==
    [mapped |-> m.mapped, active |-> m.active, graceOver |-> GraceElapsed(m),
     userIdle |-> StableIdle(m), interaction |-> InteractionActive(m),
     quiet |-> QuietHoursActive(m.config, LocalSecond),
     thermal |-> m.thermal, stage |-> m.stage, agent |-> AgentPhase(m)]

LeaseKept(m) == IF Live(m.lease) THEN m.lease ELSE None

InteractionsKept(m) ==
    [o \in {o \in DOMAIN m.interactions : Live(m.interactions[o])} |-> m.interactions[o]]

\* The instants at which time alone changes the facts of m, after recompute has
\* dropped the leases that are over.
IdleDeadlines(m) ==
    LET idleAt == m.lastActivity + m.config.idleTimeout
    IN  IF idleAt > now THEN {idleAt}
        ELSE IF m.idleCandidate = None THEN {}
        ELSE {m.idleCandidate + m.config.idleStability}

GraceDeadlines(m) ==
    IF m.inactiveSince = None THEN {} ELSE {m.inactiveSince + m.config.grace}

\* The end of the window only.
QuietDeadlinesEnd(m) ==
    IF QuietWindow(m.config) THEN {now + SecondsUntil(m.config.quietEnd, LocalSecond)} ELSE {}

QuietDeadlines(m) ==
    IF QuietWindow(m.config)
      THEN {now + SecondsUntilQuietBoundary(m.config, LocalSecond)} ELSE {}

Deadlines(m) ==
    {deadline \in IdleDeadlines(m) \cup GraceDeadlines(m) \cup QuietDeadlines(m)
                    \cup Range(m.interactions) \cup {m.lease, m.agent.until} : deadline > now}

\* schedule_deadline: no timer while the window is hidden.
Timer(m) ==
    LET deadlines == Deadlines(m)
    IN  IF ~m.mapped \/ deadlines = {} THEN None
        ELSE CHOOSE first \in deadlines : \A other \in deadlines : first <= other

Recomputed(m) ==
    LET kept == [m EXCEPT !.lease = LeaseKept(m), !.interactions = InteractionsKept(m),
                          !.idleCandidate = Candidate(m)]
    IN  [kept EXCEPT !.snapshot = Evaluate(Facts(m), m.config), !.timer = Timer(kept)]

\* A full channel keeps what it holds.
BroadcastFirst(snapshot) ==
    [c \in Consumers |->
        IF channel[c].open /\ channel[c].pending = <<>>
          THEN [channel[c] EXCEPT !.pending = <<snapshot>>, !.last = <<>>] ELSE channel[c]]

\* Latest wins: what a full channel holds is drained first.
Broadcast(snapshot) ==
    [c \in Consumers |->
        IF channel[c].open THEN [channel[c] EXCEPT !.pending = <<snapshot>>, !.last = <<>>]
        ELSE channel[c]]

\* A handler that leaves m in the cells, and then recomputes.
Recompute(m) ==
    LET next == Recomputed(m)
    IN  /\ manager' = next
        /\ channel' = IF next.snapshot = manager.snapshot THEN channel
                      ELSE Broadcast(next.snapshot)
        /\ UNCHANGED <<now, midnight, held, inhibitors, down>>

-----------------------------------------------------------------------------
NoAgent == [event |-> "none", until |-> None, active |-> FALSE]

\* The cells of a new manager, before its first recompute.
NewManager(cfg) ==
    [config |-> cfg, mapped |-> TRUE, active |-> TRUE, inactiveSince |-> None,
     lastActivity |-> now, idleCandidate |-> None, lease |-> None, interactions |-> <<>>,
     agent |-> NoAgent, thermal |-> "unknown", capacity |-> None, stage |-> "unknown",
     snapshot |-> <<>>, timer |-> None]

Closed == [open |-> FALSE, pending |-> <<>>, last |-> <<>>]

\* A new channel holds the snapshot of the moment.
Opened == [open |-> TRUE, pending |-> <<manager.snapshot>>, last |-> <<>>]

Init ==
    /\ now = 0 /\ midnight \in 0 .. DaySeconds - 1
    /\ \E cfg \in Configs : manager = Recomputed(NewManager(cfg))
    /\ order = <<>>
    /\ channel = [c \in Consumers |-> IF c = Desktop THEN Opened ELSE Closed]
    /\ held = {} /\ inhibitors = 0
    /\ down = FALSE
    /\ granted = [at |-> None, input |-> TRUE]

-----------------------------------------------------------------------------
(* Handlers.                                                               *)

\* What report_activity does to the cells.
Active(m) ==
    [m EXCEPT !.lastActivity = now, !.idleCandidate = None,
              !.lease = IF m.mapped THEN now + m.config.lease ELSE @]

\* A click, a key, a scroll, a drag, a page switch, the answer to a dialog.
ReportActivity ==
    /\ Recompute(Active(manager))
    /\ granted' = IF manager.mapped THEN [at |-> now, input |-> TRUE] ELSE granted
    /\ UNCHANGED order

\* A lease that survives the window.
HiddenLeased(m) == [m EXCEPT !.mapped = FALSE]

Hidden(m) == [m EXCEPT !.mapped = FALSE, !.lease = None, !.interactions = <<>>]

SetMapped ==
    /\ Recompute(IF manager.mapped THEN Hidden(manager) ELSE [manager EXCEPT !.mapped = TRUE])
    /\ UNCHANGED <<order, granted>>

SetActive ==
    /\ Recompute([manager EXCEPT !.active = ~@,
                                 !.inactiveSince = IF manager.active THEN now ELSE None])
    /\ UNCHANGED <<order, granted>>

SetThermal(thermal) ==
    /\ Recompute([manager EXCEPT !.thermal = thermal])
    /\ UNCHANGED <<order, granted>>

\* The verdict is shown, and decides nothing.
SetPowerSource ==
    /\ Recompute(manager)
    /\ UNCHANGED <<order, granted>>

SetBatteryCapacity(capacity) ==
    /\ Recompute([manager EXCEPT !.capacity = capacity,
                     !.stage = BatteryStageFor(capacity, @, manager.config.thresholds)])
    /\ UNCHANGED <<order, granted>>

Sooner(a, b) == IF a <= b THEN a ELSE b

\* A running lease moved to the new length.
ReconfiguredRenewed(m, cfg) ==
    LET maximum == now + cfg.lease
    IN  [m EXCEPT !.config = cfg,
                  !.lease  = IF Live(@) THEN maximum ELSE @,
                  !.interactions = [o \in {o \in DOMAIN @ : Live(@[o])} |-> maximum]]

\* A shorter lease applies at once, a longer one from the next input on.
Reconfigured(m, cfg) ==
    LET maximum == now + cfg.lease
    IN  [m EXCEPT
            !.config = cfg,
            !.stage  = IF m.capacity = None THEN @
                       ELSE BatteryStageFor(m.capacity, @, cfg.thresholds),
            !.lease  = IF Live(@) THEN Sooner(@, maximum) ELSE @,
            !.interactions = [o \in {o \in DOMAIN @ : Live(@[o])} |-> Sooner(@[o], maximum)]]

UpdateConfig(cfg) ==
    /\ Recompute(Reconfigured(manager, cfg))
    /\ UNCHANGED <<order, granted>>

\* An owner that holds a lease already drops the old one after it has the new one.
BeginInteraction(o, duration) ==
    LET others   == [p \in DOMAIN manager.interactions \ {o} |-> manager.interactions[p]]
        deadline == now + Sooner(duration, manager.config.lease)
    IN  /\ Recompute([manager EXCEPT !.interactions =
               IF manager.mapped
                 THEN [p \in DOMAIN others \cup {o} |->
                          IF p = o THEN deadline ELSE others[p]]
                 ELSE others])
        /\ granted' = IF manager.mapped THEN [at |-> now, input |-> TRUE] ELSE granted
        /\ UNCHANGED order

DropInteraction(o) ==
    /\ Recompute([manager EXCEPT !.interactions =
           [p \in DOMAIN manager.interactions \ {o} |-> manager.interactions[p]]])
    /\ UNCHANGED <<order, granted>>

\* A second start of a task that is running and asks for nothing changes nothing.
AgentStarted ==
    /\ manager.agent # [NoAgent EXCEPT !.active = TRUE]
    /\ Recompute([manager EXCEPT !.agent = [NoAgent EXCEPT !.active = TRUE]])
    /\ UNCHANGED <<order, granted>>

\* Nothing looked up.
SeenNever(event) == FALSE

Seen(event) == Contains(order, event)

\* Only the newest events are remembered.
Remembered(event) ==
    LET longer == Append(order, event)
    IN  IF Len(longer) > MaxSeen THEN Tail(longer) ELSE longer

\* An event that is remembered is refused; one that waits leaves the agent active.
AgentEvent(event, waiting) ==
    /\ ~Seen(event)
    /\ order' = Remembered(event)
    /\ Recompute([manager EXCEPT !.agent =
           [event |-> event, until |-> now + manager.config.attention, active |-> waiting]])
    /\ UNCHANGED granted

ClearAgent ==
    /\ Recompute([manager EXCEPT !.agent = NoAgent])
    /\ UNCHANGED <<order, granted>>

\* A reload takes the visible page out of the stack and selects it again; the stack
\* notifies both, which the window reports as a page switch of the user.
RebuildPages ==
    /\ Recompute(Active(manager))
    /\ granted' = IF manager.mapped THEN [at |-> now, input |-> FALSE] ELSE granted
    /\ UNCHANGED order

DeadlineReached ==
    /\ manager.timer # None /\ manager.timer <= now
    /\ Recompute([manager EXCEPT !.timer = None])
    /\ UNCHANGED <<order, granted>>

\* A timer is at most one second late.
Tick ==
    /\ manager.timer = None \/ manager.timer >= now
    /\ now' = now + 1
    /\ UNCHANGED <<midnight, manager, order, channel, held, inhibitors, down, granted>>

-----------------------------------------------------------------------------
(* Consumers.                                                              *)

Subscribe(c) ==
    /\ channel[c] = Closed
    /\ channel' = [channel EXCEPT ![c] = Opened]
    /\ UNCHANGED <<now, midnight, manager, order, held, inhibitors, down, granted>>

\* The page of a plugin is removed; the desktop consumer stays until the end.
Unsubscribe(c) ==
    /\ c # Desktop /\ channel[c].open
    /\ channel' = [channel EXCEPT ![c] = Closed]
    /\ UNCHANGED <<now, midnight, manager, order, held, inhibitors, down, granted>>

Taken(c) ==
    [channel EXCEPT ![c] = [open |-> @.open, pending |-> <<>>, last |-> @.pending]]

Receive(c) ==
    /\ c # Desktop /\ channel[c].pending # <<>>
    /\ channel' = Taken(c)
    /\ UNCHANGED <<now, midnight, manager, order, held, inhibitors, down, granted>>

\* The old request not withdrawn.
WithdrawnNever(flags) == inhibitors

\* The requests that are left before new flags are asked for.
Withdrawn(flags) == IF held = {} THEN inhibitors ELSE inhibitors - 1

\* The inhibitor follows the snapshot; the session may refuse it.
FollowSnapshot ==
    /\ channel[Desktop].pending # <<>>
    /\ channel' = Taken(Desktop)
    /\ LET flags == channel[Desktop].pending[1].inhibited
       IN  IF flags = held THEN UNCHANGED <<held, inhibitors>>
           ELSE \/ /\ flags # {}
                   /\ held' = flags /\ inhibitors' = Withdrawn(flags) + 1
                \/ held' = {} /\ inhibitors' = Withdrawn(flags)
    /\ UNCHANGED <<now, midnight, manager, order, down, granted>>

\* The window goes: channels are closed and the timer is removed.  A consumer takes
\* what is left in its channel before it ends.
Shutdown ==
    /\ down' = TRUE
    /\ manager' = [manager EXCEPT !.timer = None]
    /\ channel' = [c \in Consumers |-> [channel[c] EXCEPT !.open = FALSE]]
    /\ UNCHANGED <<now, midnight, order, held, inhibitors, granted>>

DesktopEnds ==
    /\ down /\ channel[Desktop].pending = <<>>
    /\ held # {}
    /\ held' = {} /\ inhibitors' = Withdrawn({})
    /\ UNCHANGED <<now, midnight, manager, order, channel, down, granted>>

-----------------------------------------------------------------------------
User ==
    \/ ReportActivity \/ SetMapped \/ SetActive
    \/ \E o \in Owners : \/ DropInteraction(o)
                         \/ \E duration \in Desired : BeginInteraction(o, duration)
    \/ \E cfg \in Configs : UpdateConfig(cfg)
    \/ RebuildPages

Signals ==
    \/ \E thermal \in Temperatures : SetThermal(thermal)
    \/ SetPowerSource
    \/ \E capacity \in Capacities : SetBatteryCapacity(capacity)
    \/ AgentStarted \/ ClearAgent
    \/ \E event \in Events, waiting \in BOOLEAN : AgentEvent(event, waiting)

Next ==
    \/ ~down /\ (User \/ Signals \/ DeadlineReached \/ Tick \/ Shutdown)
    \/ ~down /\ \E c \in Consumers : Subscribe(c) \/ Unsubscribe(c)
    \/ FollowSnapshot \/ DesktopEnds
    \/ \E c \in Consumers : Receive(c)

Spec == Init /\ [][Next]_vars

-----------------------------------------------------------------------------
(* Properties.                                                             *)

Snapshots ==
    [visibility : Visibilities, idle : BOOLEAN, level : DOMAIN Strength,
     visual : {"stopped", "frozen", "full"}, inhibited : SUBSET {"screen", "suspend"},
     paused : BOOLEAN, quiet : BOOLEAN, leased : BOOLEAN, graceOver : BOOLEAN,
     agent : Events \cup {"none", "active"}, stage : Stages, thermal : Thermals]

Instants == Nat \cup {None}

\* Every cell keeps its type; no event is remembered twice, and no more than MaxSeen.
TypeOK ==
    /\ now \in Nat /\ midnight \in 0 .. DaySeconds - 1
    /\ manager.config \in Configs /\ manager.snapshot \in Snapshots
    /\ \A at \in {manager.timer, manager.lease, manager.idleCandidate,
                  manager.inactiveSince, manager.agent.until} : at \in Instants
    /\ manager.stage \in Stages /\ manager.thermal \in Thermals
    /\ DOMAIN manager.interactions \subseteq Owners
    /\ order \in Seq(Events) /\ IsInjective(order) /\ Len(order) <= MaxSeen
    /\ held \subseteq {"screen", "suspend"} /\ inhibitors \in Nat

Due == manager.timer # None /\ manager.timer <= now

\* The snapshot of a visible window is what its facts give now, or the timer is due:
\* no fact changes with time without the timer having been armed for it, whichever
\* handlers ran since.
TimerCovers ==
    manager.mapped /\ ~down => manager.snapshot = Evaluate(Facts(manager), manager.config) \/ Due

Longest == CHOOSE n \in {cfg.lease : cfg \in Configs} : \A cfg \in Configs : cfg.lease <= n

\* Nobody is taken to watch for longer than a lease after it was granted ("observation
\* leases expire after at most five minutes", docs/RUNTIME_POWER.md), whatever
\* reconfigurations, dialogs and hidden windows came in between; in quiet hours
\* unattended work then stops.
LeaseBounded ==
    (/\ manager.mapped /\ ~down
     /\ granted.at = None \/ granted.at + Longest <= now)
    => \/ Due
       \/ ~manager.snapshot.leased /\ (manager.snapshot.quiet => manager.snapshot.paused)

\* A hidden window grants nothing, and what was granted before is not there when it is
\* shown again.
HiddenGrantsNothing ==
    /\ ~manager.mapped =>
          /\ manager.snapshot.level = "suspended" /\ manager.snapshot.inhibited = {}
          /\ ~manager.snapshot.leased /\ ~InteractionActive(manager)
          /\ manager.timer = None
    /\ ~down /\ manager.snapshot.leased => InteractionActive(manager) \/ Due

\* A subscriber has received the last snapshot or finds it in its channel.
Delivered ==
    \A c \in Consumers : channel[c].open =>
        (IF channel[c].pending = <<>> THEN channel[c].last ELSE channel[c].pending)
            = <<manager.snapshot>>

\* The session keeps one request exactly while the desktop consumer holds flags; once
\* it has read its channel these are the flags of the snapshot, or none if they were
\* refused.
InhibitorFollows ==
    /\ inhibitors = (IF held = {} THEN 0 ELSE 1)
    /\ channel[Desktop].open /\ channel[Desktop].pending = <<>>
         => held \in {{}, manager.snapshot.inhibited}

\* "only real input can extend the observation window" (docs/RUNTIME_POWER.md).
OnlyInputExtends ==
    [][manager'.lease > manager.lease => granted'.input]_vars
=============================================================================
