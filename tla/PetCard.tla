------------------------------- MODULE PetCard -------------------------------
(***************************************************************************)
(* The pet card: it follows the state file an agent writes, shows the      *)
(* animation of that state and asks its page for the size it is shown at.  *)
(* Every action is one callback of the GTK thread, except Read (the worker *)
(* that reads the file) and those of the environment.  The timers have no  *)
(* durations: the configuration allows them in any order, and a state file *)
(* may be almost stale when it is read.                                    *)
(***************************************************************************)
EXTENDS PetFrames

CONSTANTS
    Contents,        \* what the state file may hold, of AllContents
    Snapshots,       \* of the runtime, of AllSnapshots
    Presentations,   \* sizes the user may ask for
    Animations,      \* the configured animations: state (or "default") -> animation
    None,
    MaxWrites        \* bound: writes of the state file

ActiveStates == {"thinking", "working", "coding", "waiting", "confirm"}
ImportantStates == {"done", "error", "cancelled", "waiting", "confirm", "aborted"}
NamedStates == {"ready"} \cup ActiveStates \cup ImportantStates

\* A file may be absent, no valid event, or an event of a state, known or not.
AllContents == {"absent", "invalid", "unheard-of", "offline"} \cup NamedStates

AllSnapshots ==
    [policy : {"full", "capped", "frozen", "stopped"}, visible : BOOLEAN, hot : BOOLEAN,
     paused : BOOLEAN]

VARIABLES
    file,        \* the state file: its version and its content
    edges,       \* events of the directory monitor not handled yet
    load,        \* state_load_running, whether its generation is old, what it read
    seen,        \* history: the version of the last load that counted
    card,        \* the controller: see TypeOK
    mapped,      \* the widget is mapped
    snapshot,    \* the newest snapshot of the runtime
    unseen,      \* ... waits in the subscription of the card
    agent,       \* the runtime believes an agent is at work
    applied      \* the size the page has given the card

vars == <<file, edges, load, seen, card, mapped, snapshot, unseen, agent, applied>>

NotLoading == [running |-> FALSE, overtaken |-> FALSE, read |-> None]

NormalizeState(state) == IF state \in NamedStates THEN state ELSE "offline"

NextPresentation(presentation) ==
    CASE presentation = "normal"   -> "quad"
      [] presentation = "quad"     -> "expanded"
      [] presentation = "expanded" -> "fullscreen"
      [] OTHER                     -> "normal"

-----------------------------------------------------------------------------
\* The animation of a state, or the default one, or none.
HasAnimation(state) == {state, "default"} \cap DOMAIN Animations # {}

AnimationOf(state) ==
    IF state \in DOMAIN Animations THEN Animations[state] ELSE Animations["default"]

\* pet_visual_policy.
PetVisualPolicy(now, state, loops) ==
    CASE ~now.visible                              -> "stopped"
      [] now.visible /\ now.hot                    -> "frozen"
      [] now.visible /\ ~now.hot /\ now.paused /\ loops -> "frozen"
      [] OTHER ->
           IF now.policy \in {"full", "capped"}
           THEN IF state \in ActiveStates THEN "full"
                ELSE IF loops THEN "lowest" ELSE now.policy
           ELSE now.policy

PolicyOf(state, now) ==
    IF HasAnimation(state)
    THEN PetVisualPolicy(now, state, AnimationOf(state).loop)
    ELSE now.policy

Moving(policy) == policy \in {"full", "capped", "lowest"}

StopAnimation(c) == [c EXCEPT !.animation = None]

\* apply_runtime_snapshot: the animation is restarted only when its policy changed or
\* it should run and does not.
ApplySnapshot(c, now, isMapped) ==
    LET policy        == PolicyOf(c.shown, now)
        shouldAnimate == isMapped /\ Len(c.frames) > 1 /\ Moving(policy)
        unchanged     == c.policy = policy /\ (shouldAnimate => c.animation # None)
        runs          == shouldAnimate /\ HasAnimation(c.shown)
    IN  IF unchanged THEN c
        ELSE [c EXCEPT !.policy = policy,
                       !.animation = IF runs THEN [of |-> c.shown, policy |-> policy] ELSE None]

ApplyFrames(c, frames, now, isMapped) ==
    LET given == [c EXCEPT !.frames = frames]
    IN  IF Len(frames) > 1 THEN ApplySnapshot(given, now, isMapped) ELSE given

\* load_frames_async: one load of a state at a time; with no file left to try the
\* state has no frames.
StartFrameLoad(c, state) ==
    IF state \in c.loading THEN c
    ELSE IF Untried(AnimationOf(state).paths, c.failed) = <<>>
    THEN [c EXCEPT !.cache = Kept(@, state, <<>>)]
    ELSE [c EXCEPT !.loading = @ \cup {state}]

-----------------------------------------------------------------------------
\* request_presentation: the pending request is replaced by the newer one.
Request(c, presentation) ==
    IF c.presentation = presentation THEN c
    ELSE [c EXCEPT !.presentation = presentation, !.request = presentation]

\* The frames of a state that is entered: from the cache, or loaded.
EnterFrames(c, state, now, isMapped) ==
    IF Holds(c.cache, state)
    THEN ApplyFrames([c EXCEPT !.cache = Used(@, state)], c.cache.held[state], now, isMapped)
    ELSE LET empty == ApplyFrames(c, <<>>, now, isMapped)
         IN  IF HasAnimation(state) THEN StartFrameLoad(empty, state) ELSE empty

\* set_state, for the widget; Agent(...) below is what it tells the runtime.
SetState(c, state, now, isMapped) ==
    IF c.shown = state THEN c
    ELSE LET entered == [c EXCEPT !.shown = state]
             sized   == IF state = "offline"
                        THEN [entered EXCEPT !.reset = TRUE]
                        ELSE Request([entered EXCEPT !.reset = FALSE], c.preferred)
         IN  EnterFrames(StopAnimation(sized), state, now, isMapped)

\* What an event makes the runtime believe of its agent.  An important event that was
\* seen before changes nothing.  A state nobody knows is shown as offline and leaves
\* the agent alone: clear_agent_on_offline is for an event that says offline, a stale
\* or absent file and the offline timer.
AgentAfter(event) ==
    CASE event = "offline"          -> {FALSE}
      [] event \in ImportantStates  -> {agent, (event \in ActiveStates)}
      [] event \in ActiveStates \ ImportantStates -> {TRUE}
      [] OTHER                      -> {agent}

\* apply_state_event of a fresh event: the ready timer stops, the state is shown, a
\* done event arms the ready timer again, and the offline timer is armed anew.
ApplyEvent(c, event) ==
    LET shown == SetState([c EXCEPT !.ready = FALSE], NormalizeState(event), snapshot, mapped)
    IN  [shown EXCEPT !.ready = (event = "done"), !.offline = TRUE]

-----------------------------------------------------------------------------
Blank ==
    [shown |-> "", frames |-> <<>>, cache |-> NoCache, loading |-> {}, failed |-> {},
     animation |-> None, policy |-> "stopped", offline |-> FALSE, ready |-> FALSE,
     reset |-> FALSE, preferred |-> "normal", presentation |-> "normal", request |-> None,
     alive |-> TRUE]

\* build: offline is shown, and the file is read for the first time.
Init ==
    /\ file \in [version : {0}, content : Contents]
    /\ edges = 0
    /\ load = [NotLoading EXCEPT !.running = TRUE]
    /\ seen = None
    /\ mapped = FALSE
    /\ snapshot \in Snapshots
    /\ unseen = TRUE
    /\ agent = FALSE
    /\ applied = "normal"
    /\ \E preferred \in Presentations :
           card = SetState([Blank EXCEPT !.preferred = preferred], "offline", snapshot, FALSE)

Live(c) == card.alive /\ card' = c

\* The agent's hooks write, replace or remove the file.
Write ==
    /\ file.version < MaxWrites
    /\ \E content \in Contents : file' = [version |-> file.version + 1, content |-> content]
    /\ edges' = edges + 1
    /\ UNCHANGED <<load, seen, card, mapped, snapshot, unseen, agent, applied>>

\* load_state: one worker at a time; one more event makes its generation old.
LoadState ==
    /\ edges > 0 /\ card.alive
    /\ edges' = edges - 1
    /\ load' = IF load.running
               THEN [load EXCEPT !.overtaken = TRUE]
               ELSE [NotLoading EXCEPT !.running = TRUE]
    /\ UNCHANGED <<file, seen, card, mapped, snapshot, unseen, agent, applied>>

\* read_state_file and validate_state_event, on a blocking worker.
Read ==
    /\ load.running /\ load.read = None
    /\ load' = [load EXCEPT !.read = file]
    /\ UNCHANGED <<file, edges, seen, card, mapped, snapshot, unseen, agent, applied>>

\* What was read is taken in, overtaken or not.
LoadedAnyway ==
    /\ load.read # None /\ card.alive
    /\ load' = NotLoading
    /\ seen' = load.read.version
    /\ \/ /\ load.read.content = "invalid"
          /\ UNCHANGED <<card, agent>>
       \/ /\ load.read.content # "invalid"
          /\ card' = SetState(card, "offline", snapshot, mapped)
          /\ agent' = FALSE
    /\ UNCHANGED <<file, edges, mapped, snapshot, unseen, applied>>

\* Back on the main loop: an old generation reads again, another is applied.  The age
\* of an event is what the clock makes of its timestamp: stale or not.
Loaded ==
    /\ load.read # None /\ card.alive
    /\ IF load.overtaken
       THEN /\ load' = [NotLoading EXCEPT !.running = TRUE]
            /\ UNCHANGED <<seen, card, agent>>
       ELSE /\ load' = NotLoading
            /\ seen' = load.read.version
            /\ \/ /\ load.read.content = "invalid"
                  /\ UNCHANGED <<card, agent>>
               \/ /\ load.read.content # "invalid"
                  /\ card' = SetState(card, "offline", snapshot, mapped)
                  /\ agent' = FALSE
               \/ /\ load.read.content \notin {"invalid", "absent"}
                  /\ card' = ApplyEvent(card, load.read.content)
                  /\ agent' \in AgentAfter(load.read.content)
    /\ UNCHANGED <<file, edges, mapped, snapshot, unseen, applied>>

\* schedule_ready's timer.
BecomeReady ==
    /\ card.ready
    /\ Live([SetState(card, "ready", snapshot, mapped) EXCEPT !.ready = FALSE])
    /\ UNCHANGED <<file, edges, load, seen, mapped, snapshot, unseen, agent, applied>>

\* schedule_offline's timer.
GoOffline ==
    /\ card.offline
    /\ Live([SetState(card, "offline", snapshot, mapped) EXCEPT !.offline = FALSE])
    /\ agent' = FALSE
    /\ UNCHANGED <<file, edges, load, seen, mapped, snapshot, unseen, applied>>

\* schedule_presentation_reset's timer.
ResetSize ==
    /\ card.reset
    /\ Live([Request(card, "normal") EXCEPT !.reset = FALSE])
    /\ UNCHANGED <<file, edges, load, seen, mapped, snapshot, unseen, agent, applied>>

-----------------------------------------------------------------------------
\* The worker of a frame load answers.  The answer belongs to the load of its state,
\* is cached whatever is shown now, and shown when its state still is.
FramesLoaded ==
    /\ \E state \in card.loading :
         LET loaded == LoadFrames(Untried(AnimationOf(state).paths, card.failed))
             done   == [card EXCEPT !.loading = @ \ {state},
                                    !.failed = @ \cup loaded.failures,
                                    !.cache = Kept(@, state, loaded.frames)]
         IN  Live(IF card.shown = state
                  THEN ApplyFrames(done, loaded.frames, snapshot, mapped) ELSE done)
    /\ UNCHANGED <<file, edges, load, seen, mapped, snapshot, unseen, agent, applied>>

\* The last frame of an animation that does not loop.
AnimationEnds ==
    /\ card.animation # None
    /\ ~AnimationOf(card.animation.of).loop
    /\ Live(StopAnimation(card))
    /\ UNCHANGED <<file, edges, load, seen, mapped, snapshot, unseen, agent, applied>>

Map ==
    /\ ~mapped
    /\ mapped' = TRUE
    /\ Live(ApplySnapshot(card, snapshot, TRUE))
    /\ UNCHANGED <<file, edges, load, seen, snapshot, unseen, agent, applied>>

Unmap ==
    /\ mapped
    /\ mapped' = FALSE
    /\ Live(StopAnimation(card))
    /\ UNCHANGED <<file, edges, load, seen, snapshot, unseen, agent, applied>>

\* The runtime publishes a snapshot; the subscription keeps the newest.
RuntimeChanges ==
    /\ snapshot' \in Snapshots \ {snapshot}
    /\ unseen' = TRUE
    /\ UNCHANGED <<file, edges, load, seen, card, mapped, agent, applied>>

\* watch_visual_policy.
DeliverSnapshot ==
    /\ unseen
    /\ unseen' = FALSE
    /\ Live(ApplySnapshot(card, snapshot, mapped))
    /\ UNCHANGED <<file, edges, load, seen, mapped, snapshot, agent, applied>>

\* select_presentation, of the menu or of a double click.
Select(presentation) ==
    LET asked == Request([card EXCEPT !.preferred = presentation], presentation)
    IN  /\ Live([asked EXCEPT !.reset = @ \/ card.shown = "offline"])
        /\ UNCHANGED <<file, edges, load, seen, mapped, snapshot, unseen, agent, applied>>

Choose ==
    \/ \E presentation \in Presentations : Select(presentation)
    \/ /\ NextPresentation(card.presentation) \in Presentations
       /\ Select(NextPresentation(card.presentation))

\* The page's task takes the request.
Present ==
    /\ card.request # None
    /\ applied' = card.request
    /\ card' = [card EXCEPT !.request = None]
    /\ UNCHANGED <<file, edges, load, seen, mapped, snapshot, unseen, agent>>

\* stop_timers, and the controller is dropped: whatever is under way finds it gone.
Destroy ==
    /\ Live([card EXCEPT !.loading = {}, !.animation = None, !.offline = FALSE,
                         !.ready = FALSE, !.reset = FALSE, !.frames = <<>>,
                         !.cache = NoCache, !.alive = FALSE])
    /\ edges' = 0 /\ unseen' = FALSE
    /\ UNCHANGED <<file, load, seen, mapped, snapshot, agent, applied>>

Next ==
    \/ Write \/ LoadState \/ Read \/ Loaded
    \/ BecomeReady \/ GoOffline \/ ResetSize
    \/ FramesLoaded \/ AnimationEnds \/ Map \/ Unmap
    \/ RuntimeChanges \/ DeliverSnapshot
    \/ Choose \/ Present \/ Destroy

Spec == Init /\ [][Next]_vars

-----------------------------------------------------------------------------
TypeOK ==
    /\ file.content \in Contents /\ file.version \in 0 .. MaxWrites
    /\ edges \in 0 .. MaxWrites
    /\ load.running \in BOOLEAN /\ load.overtaken \in BOOLEAN
    /\ card.shown \in NamedStates \cup {"offline"}
    /\ card.preferred \in Presentations /\ applied \in Presentations
    /\ snapshot \in Snapshots /\ {mapped, unseen, agent} \subseteq BOOLEAN

\* However the events of the monitor overlap the reading of the file, once they are
\* handled and nothing is read the card has taken in the newest content: a load that
\* was overtaken is repeated, and its old content is not shown over the new one.
FileFollowed ==
    (card.alive /\ edges = 0 /\ ~load.running) => seen = file.version

\* Frames move exactly when they should: never for another state than the one shown,
\* never on an unmapped widget or under a policy that was withdrawn, and a loop that
\* may move does, whichever of mapping, state, frames and policy came last.
AnimationFollows ==
    LET animation == card.animation
        policy    == PolicyOf(card.shown, snapshot)
    IN  /\ animation # None =>
             /\ mapped /\ Len(card.frames) > 1
             /\ animation.of = card.shown
             /\ ~unseen => animation.policy = policy
        /\ (/\ card.alive /\ ~unseen /\ mapped /\ Len(card.frames) > 1
            /\ HasAnimation(card.shown) /\ Moving(policy) /\ AnimationOf(card.shown).loop)
             => animation # None

\* The frames shown are those of the state shown, or none while they load; and the
\* cache is consistent and within its limits.
FramesFollow ==
    /\ CacheConsistent(card.cache)
    /\ card.alive /\ HasAnimation(card.shown) =>
         LET frames == LoadFrames(AnimationOf(card.shown).paths).frames
         IN  \/ card.frames = frames
             \/ card.frames = <<>> /\ card.shown \in card.loading

\* The size the user chose is the size of a pet that is at work, and an idle pet gives
\* its room back: while it is not offline it has the preferred size (or asks for it)
\* and no timer will take it away.
PresentationFollows ==
    /\ card.request = None => applied = card.presentation
    /\ card.request # None => card.request = card.presentation
    /\ card.alive /\ card.shown # "offline" =>
         card.presentation = card.preferred /\ ~card.reset
    /\ card.alive /\ card.shown = "offline" /\ ~card.reset => card.presentation = "normal"

\* The runtime does not believe in an agent for ever: while it does, the timer that
\* ends it is armed.
AgentForgotten == card.alive /\ agent => card.offline

\* "Stale state automatically returns to offline after `offline_after_seconds`"
\* (docs/PET_CARD.md:140): a card that shows a state has the timer that ends it.
StaleReturns == card.alive /\ card.shown # "offline" => card.offline
=============================================================================
