------------------------------ MODULE ForgePage ------------------------------
(***************************************************************************)
(* The ScrcpyForge page: the switch that starts and stops the daemon, the  *)
(* loop that asks for its health, the loop that asks for snapshots and the *)
(* task that decodes and renders them.  All of it runs on the GTK thread,  *)
(* one callback or one stretch between two awaits at a time; requests,     *)
(* decoding and the stopping of a daemon run elsewhere.                    *)
(* A loop rests until a timer, a snapshot of the runtime, a change of the  *)
(* mapping or (the snapshot loop) a change of the service wakes it; as a   *)
(* timer is always among them, a rest may end at any time.                 *)
(***************************************************************************)
EXTENDS Integers, FiniteSets

CONSTANTS
    None,
    Levels,        \* work levels of the runtime that occur
    MaxStarts,     \* bound: daemons started
    MaxStops       \* bound: stop tasks at one time

ForgePageAssumption == None \notin Nat /\ MaxStarts \in Nat /\ MaxStops \in Nat

Modes == {"full", "reduced", "metadata", "stopped"}

\* preview_mode.
PreviewMode(level, paused) ==
    IF paused THEN "stopped"
    ELSE CASE level = "full"    -> "full"
           [] level = "reduced" -> "reduced"
           [] level = "minimal" -> "metadata"
           [] OTHER             -> "stopped"

VARIABLES
    started,     \* daemons spawned so far, numbered
    alive,       \* ... those whose process lives
    child,       \* DaemonController.child
    stops,       \* stop tasks: the daemon each took (0: none), and its step
    stopDone,    \* messages of stop_done, a channel of capacity one
    switch,      \* the toggle
    changing,
    available,   \* service_available
    health,      \* the health loop: its step, and the answer it waits for
    refused,     \* whether the user wants it off: "yes", "no", or "asked" while the health
                 \* was asked for before he said so and has yet to be answered (history)
    busy,        \* the gate of snapshot requests
    pipe,        \* where the snapshot under way is
    mapped, mode

vars == <<started, alive, child, stops, stopDone, switch, changing, available, health,
          refused, busy, pipe, mapped, mode>>

daemon == <<started, alive, child, stops, stopDone>>
page == <<busy, pipe, mapped, mode>>

Init ==
    /\ started = 0 /\ alive = {} /\ child = None
    /\ stops = [task \in {} |-> "shutdown"] /\ stopDone = 0
    /\ switch = FALSE /\ changing = FALSE /\ available = FALSE
    /\ health = [step |-> "due", answer |-> None] /\ refused = "yes"
    /\ busy = FALSE /\ pipe = "idle"
    /\ mapped = FALSE
    /\ mode \in {PreviewMode(level, FALSE) : level \in Levels}

-----------------------------------------------------------------------------
\* running(): a child that has exited is dropped from its slot.
Running == child # None /\ child \in alive

\* DaemonController.start: spawned unless one is running.  Spawning may fail.
Spawn ==
    /\ started < MaxStarts
    /\ started' = started + 1
    /\ alive' = alive \cup {started + 1}
    /\ child' = started + 1
    /\ switch' = TRUE

SpawnFails ==
    /\ child' = None
    /\ switch' = FALSE
    /\ UNCHANGED <<started, alive>>

StillRunning == switch' = TRUE /\ UNCHANGED <<started, alive, child>>

\* connect_active_notify, the user turns the switch on.
SwitchOn ==
    /\ ~switch
    /\ IF changing THEN switch' = TRUE /\ UNCHANGED <<started, alive, child>>
       ELSE IF Running THEN StillRunning
       ELSE Spawn \/ SpawnFails
    /\ refused' = "no"
    /\ UNCHANGED <<stops, stopDone, changing, available, health, page>>

\* The user turns it off: the child is taken and a task stops it, outside this thread.
StopTask == CHOOSE task \in 1 .. Cardinality(DOMAIN stops) + 1 : task \notin DOMAIN stops

SwitchOff ==
    /\ switch
    /\ switch' = FALSE
    /\ refused' = IF health.step \in {"asking", "answered"} THEN "asked" ELSE "yes"
    /\ IF changing THEN UNCHANGED <<child, stops, changing, available>>
       ELSE /\ Cardinality(DOMAIN stops) < MaxStops
            /\ changing' = TRUE
            /\ available' = FALSE
            /\ stops' = [task \in DOMAIN stops \cup {StopTask} |->
                           IF task = StopTask
                           THEN [step |-> "shutdown", child |-> child] ELSE stops[task]]
            /\ child' = None
    /\ UNCHANGED <<started, alive, stopDone, health, page>>

\* Client.shutdown is answered, or fails, or the application is closing.
ShutdownAnswered ==
    /\ \E task \in DOMAIN stops :
         /\ stops[task].step = "shutdown"
         /\ stops' = [stops EXCEPT ![task].step = "reap"]
    /\ UNCHANGED <<started, alive, child, stopDone, switch, changing, available, health, refused, page>>

\* stop_child_blocking: it exits by itself, or is terminated, or killed; then the task
\* says so, unless the channel is full.
Reap ==
    /\ \E task \in DOMAIN stops :
         /\ stops[task].step = "reap"
         /\ alive' = alive \ {stops[task].child}
         /\ stops' = [other \in DOMAIN stops \ {task} |-> stops[other]]
    /\ stopDone' = 1
    /\ UNCHANGED <<started, child, switch, changing, available, health, refused, page>>

StopDone ==
    /\ stopDone = 1
    /\ stopDone' = 0
    /\ changing' = FALSE
    /\ UNCHANGED <<started, alive, child, stops, switch, available, health, refused, page>>

\* A daemon ends on its own, or after the shutdown request.
DaemonExits ==
    /\ \E d \in alive : alive' = alive \ {d}
    /\ UNCHANGED <<started, child, stops, stopDone, switch, changing, available, health, refused, page>>

-----------------------------------------------------------------------------
\* The health is asked for though the switch is off: somebody else may run the service.
HealthTurnAnyway ==
    /\ health.step = "due"
    /\ health' = [health EXCEPT !.step = IF ~changing /\ mapped /\ mode # "stopped"
                                         THEN "asking" ELSE "resting"]
    /\ available' = (available /\ (changing \/ switch))
    /\ UNCHANGED <<daemon, switch, changing, refused, page>>

\* The health loop, up to its first await.
HealthTurn ==
    /\ health.step = "due"
    /\ IF changing
       THEN health' = [health EXCEPT !.step = "resting"] /\ UNCHANGED available
       ELSE IF ~switch
       THEN health' = [health EXCEPT !.step = "resting"] /\ available' = FALSE
       ELSE /\ health' = [health EXCEPT !.step = IF mapped /\ mode # "stopped"
                                                THEN "asking" ELSE "resting"]
            /\ UNCHANGED available
    /\ UNCHANGED <<daemon, switch, changing, refused, page>>

\* The service answers, or does not: it may be slow to start, or started elsewhere.
HealthAnswers ==
    /\ health.step = "asking"
    /\ health' \in {[step |-> "answered", answer |-> healthy] : healthy \in BOOLEAN}
    /\ UNCHANGED <<daemon, switch, changing, available, refused, page>>

\* The rest of the turn: the switch follows the answer, with its handler disarmed.
HealthApplied ==
    /\ health.step = "answered"
    /\ available' = health.answer
    /\ switch' = health.answer
    /\ changing' = FALSE
    /\ health' = [step |-> "resting", answer |-> None]
    /\ refused' = IF refused # "asked" THEN refused ELSE IF health.answer THEN "no" ELSE "yes"
    /\ UNCHANGED <<daemon, page>>

HealthWakes ==
    /\ health.step = "resting"
    /\ health' = [health EXCEPT !.step = "due"]
    /\ UNCHANGED <<daemon, switch, changing, available, refused, page>>

-----------------------------------------------------------------------------
\* The snapshot loop: a turn asks for a snapshot unless one is under way.
MayAsk == mapped /\ available /\ mode # "stopped"

AskSnapshot ==
    /\ MayAsk /\ ~busy
    /\ busy' = TRUE
    /\ pipe' = "fetching"
    /\ UNCHANGED <<daemon, switch, changing, available, health, refused, mapped, mode>>

\* Client.snapshot returns; its result waits in the channel of capacity one.
SnapshotAnswers ==
    /\ pipe = "fetching"
    /\ pipe' \in {"snapshot", "error"}
    /\ UNCHANGED <<daemon, switch, changing, available, health, refused, busy, mapped, mode>>

\* A snapshot that comes too late is dropped with the gate closed.
ReceiveSnapshotHeld ==
    /\ pipe \in {"snapshot", "error"}
    /\ IF mode = "stopped" \/ ~available \/ pipe = "error"
       THEN pipe' = "idle" /\ busy' = (pipe # "error")
       ELSE pipe' = "decoding" /\ UNCHANGED busy
    /\ UNCHANGED <<daemon, switch, changing, available, health, refused, mapped, mode>>

\* The receiving task: dropped when the page has stopped, or decoded, or counted as failed.
ReceiveSnapshot ==
    /\ pipe \in {"snapshot", "error"}
    /\ IF mode = "stopped" \/ ~available \/ pipe = "error"
       THEN busy' = FALSE /\ pipe' = "idle"
       ELSE pipe' = "decoding" /\ UNCHANGED busy
    /\ UNCHANGED <<daemon, switch, changing, available, health, refused, mapped, mode>>

\* decode_snapshot is back, with textures or without: rendered, and the gate opens.
Rendered ==
    /\ pipe = "decoding"
    /\ busy' = FALSE /\ pipe' = "idle"
    /\ UNCHANGED <<daemon, switch, changing, available, health, refused, mapped, mode>>

PageChanges ==
    /\ \/ mapped' = ~mapped /\ UNCHANGED mode
       \/ UNCHANGED mapped
          /\ mode' \in {PreviewMode(level, paused) : level \in Levels, paused \in BOOLEAN} \ {mode}
    /\ UNCHANGED <<daemon, switch, changing, available, health, refused, busy, pipe>>

Next ==
    \/ SwitchOn \/ SwitchOff \/ ShutdownAnswered \/ Reap \/ StopDone \/ DaemonExits
    \/ HealthTurn \/ HealthAnswers \/ HealthApplied \/ HealthWakes
    \/ AskSnapshot \/ SnapshotAnswers \/ ReceiveSnapshot \/ Rendered
    \/ PageChanges

\* The requests of a stop have time-outs, its worker returns and main-loop tasks run.
Fairness == WF_vars(ShutdownAnswered) /\ WF_vars(Reap) /\ WF_vars(StopDone)

Spec == Init /\ [][Next]_vars
FairSpec == Spec /\ Fairness

-----------------------------------------------------------------------------
TypeOK ==
    /\ started \in 0 .. MaxStarts /\ alive \subseteq 1 .. started
    /\ child \in {None} \cup 1 .. started
    /\ stopDone \in {0, 1}
    /\ {switch, changing, available, busy, mapped} \subseteq BOOLEAN
    /\ mode \in Modes /\ refused \in {"no", "asked", "yes"}

\* One late answer may overrule the user who turns the switch off, and no later one: unless
\* the health was asked for before that and is answered well after it, the switch stays off
\* and no snapshot is asked for until he turns it on.  A daemon that was started is never
\* forgotten: the next stop takes it, or a stop task is at it.
ServiceFollowsSwitch ==
    /\ refused # "no" => ~switch /\ ~available
    /\ \A d \in alive : child = d \/ \E task \in DOMAIN stops : stops[task].child = d

\* The gate is closed exactly while a snapshot is asked for, waits or is decoded: two
\* never overlap, and no path of the receiver leaves it closed for good.
GateOpens == busy <=> pipe # "idle"

SwitchFollowed == TypeOK /\ ServiceFollowsSwitch /\ GateOpens

\* Stopping ends: the switch, which ignores the user meanwhile, answers again.
StoppingEnds == []<>~changing
=============================================================================
