------------------------------ MODULE Controller ------------------------------
(***************************************************************************)
(* The window's main loop around the scheduler (window.rs): the polling    *)
(* loop asleep between a timer and the wake channel, the workers and the   *)
(* bounded channel their completions come back by, and the actions, whose  *)
(* end refreshes the cards linked to them.  The scheduler is reduced to    *)
(* when a card is due; all times count down from now.                      *)
(***************************************************************************)
EXTENDS Integers, Sequences, FiniteSets, SequencesExt

CONSTANTS
  Cards,       \* collected cards
  Misfits,     \* cards whose schedule does not evaluate: published by the loop itself
  Actions,     \* configured actions
  Linked,      \* Linked[a]: the enabled cards whose click_action is a
  Period,      \* of every card, and the longest sleep
  Capacity,    \* of the completion channels
  MaxClicks,
  Nobody

\* The module's assumption, of which the modules that instantiate it assume their instance.
ControllerAssumption ==
  /\ Period \in Nat /\ Capacity \in Nat
  /\ Linked \in [Actions -> SUBSET Cards]

VARIABLES
  due,        \* time until a card is due, for the cards that wait
  collected,  \* the cards a worker collects
  again,      \* running cards to collect again once they are done
  pc,         \* the loop: "top", "asleep", "ready", "publish", "ended"
  timer,      \* what is left of the timer it sleeps on
  wake,       \* a message in the wake channel, whose capacity is one
  ready,      \* the polled cards it has still to start
  sending,    \* the card whose completion the loop itself is sending
  done,       \* the completion channel
  closed,     \* the window is gone: channels closed, shutdown set
  runs,       \* the runs under way: id, control, whether it ended, whether it has the lease
  leases,     \* ACTIVE_ACTIONS
  results,    \* the action completion channel: action, control
  busy,       \* the controls that show a spinner
  clicks

vars == <<due, collected, again, pc, timer, wake, ready, sending, done, closed,
          runs, leases, results, busy, clicks>>

loop    == <<pc, timer, ready, sending>>
actions == <<runs, leases, results, busy, clicks>>

\* an action card of its own, or one of the cards linked to the action
Controls(a) == {<<a, Nobody>>} \cup {<<a, c>> : c \in Linked[a]}

Running == -1
Waiting == {c \in Cards : due[c] # Running}
SoonestOf(times) == CHOOSE t \in times : \A u \in times : t <= u

Init ==
  /\ due = [c \in Cards |-> 0]
  /\ collected = {} /\ again = {}
  /\ pc = "top" /\ timer = 0 /\ wake = FALSE /\ ready = {} /\ sending = Nobody
  /\ done = <<>> /\ closed = FALSE
  /\ runs = {} /\ leases = {} /\ results = <<>> /\ busy = {} /\ clicks = 0

-----------------------------------------------------------------------------
(* The scheduler as the loop sees it *)

\* a running card keeps the request for a follow-up
Requests(cards) ==
  /\ due' = [c \in Cards |-> IF c \in cards \cap Waiting THEN 0 ELSE due[c]]
  /\ again' = again \cup (cards \ Waiting)

MarkedDone(c) ==
  /\ due' = [due EXCEPT ![c] = IF c \in again THEN 0 ELSE Period]
  /\ again' = again \ {c}

Tick ==
  /\ timer > 0 \/ \E c \in Waiting : due[c] > 0
  /\ due' = [c \in Cards |-> IF due[c] > 0 THEN due[c] - 1 ELSE due[c]]
  /\ timer' = IF timer > 0 THEN timer - 1 ELSE 0
  /\ UNCHANGED <<collected, again, pc, wake, ready, sending, done, closed, actions>>

\* The loop is left to find out by itself.
RequestSilent(c) ==
  /\ ~closed
  /\ Requests({c})
  /\ UNCHANGED <<collected, wake, loop, done, closed, actions>>

\* a click, an event of a source, a reload: each changes the scheduler, then wakes the loop
Request(c) ==
  /\ ~closed
  /\ Requests({c}) /\ wake' = TRUE
  /\ UNCHANGED <<collected, loop, done, closed, actions>>

-----------------------------------------------------------------------------
(* The polling loop *)

\* The end of the window noticed only while asleep.
SleepBlind ==
  /\ pc = "top" /\ pc' = "asleep"
  /\ timer' = SoonestOf({due[c] : c \in Waiting} \cup {Period})
  /\ UNCHANGED <<due, collected, again, wake, ready, sending, done, closed, actions>>

Sleep ==
  /\ pc = "top"
  /\ IF closed THEN pc' = "ended" /\ UNCHANGED timer
     ELSE /\ pc' = "asleep"
          /\ timer' = SoonestOf({due[c] : c \in Waiting} \cup {Period})
  /\ UNCHANGED <<due, collected, again, wake, ready, sending, done, closed, actions>>

\* select prefers the timer, and then leaves the message in the channel
Awake ==
  /\ pc = "asleep"
  /\ \/ /\ timer = 0 /\ UNCHANGED wake
     \/ /\ timer # 0 /\ wake /\ wake' = FALSE
  /\ pc' = "ready"
  /\ ready' = {c \in Waiting : due[c] = 0}
  /\ due' = [c \in Cards |-> IF due[c] = 0 THEN Running ELSE due[c]]
  /\ UNCHANGED <<collected, again, timer, sending, done, closed, actions>>

AwakeClosed ==
  /\ pc = "asleep" /\ timer # 0 /\ ~wake /\ closed
  /\ pc' = "ended"
  /\ UNCHANGED <<due, collected, again, timer, wake, ready, sending, done, closed, actions>>

StartCard(c) ==
  /\ pc = "ready" /\ c \in ready /\ ~closed
  /\ ready' = ready \ {c}
  /\ IF c \in Misfits
     THEN pc' = "publish" /\ sending' = c /\ UNCHANGED collected
     ELSE collected' = collected \cup {c} /\ UNCHANGED <<pc, sending>>
  /\ UNCHANGED <<due, again, timer, wake, done, closed, actions>>

\* a card the configuration no longer enables is done at once
SkipCard(c) ==
  /\ pc = "ready" /\ c \in ready /\ ~closed
  /\ ready' = ready \ {c}
  /\ MarkedDone(c)
  /\ UNCHANGED <<collected, pc, timer, wake, sending, done, closed, actions>>

\* The loop waits for nothing: a completion that finds no room is dropped.
PublishTry ==
  /\ pc = "publish"
  /\ done' = IF closed \/ Len(done) = Capacity THEN done ELSE Append(done, sending)
  /\ pc' = "ready" /\ sending' = Nobody
  /\ UNCHANGED <<due, collected, again, timer, wake, ready, closed, actions>>

\* the loop itself waits for room in the channel
Publish ==
  /\ pc = "publish"
  /\ Len(done) < Capacity \/ closed
  /\ done' = IF closed THEN done ELSE Append(done, sending)
  /\ pc' = "ready" /\ sending' = Nobody
  /\ UNCHANGED <<due, collected, again, timer, wake, ready, closed, actions>>

Turn ==
  /\ pc = "ready" /\ (ready = {} \/ closed)
  /\ pc' = "top" /\ ready' = {}
  /\ UNCHANGED <<due, collected, again, timer, wake, sending, done, closed, actions>>

-----------------------------------------------------------------------------
(* The workers and the receiver of their completions *)

Collected(c) ==
  /\ c \in collected
  /\ Len(done) < Capacity \/ closed
  /\ collected' = collected \ {c}
  /\ done' = IF closed THEN done ELSE Append(done, c)
  /\ UNCHANGED <<due, again, loop, wake, closed, actions>>

Receive ==
  /\ done # <<>>
  /\ done' = Tail(done)
  /\ MarkedDone(Head(done)) /\ wake' = TRUE
  /\ UNCHANGED <<collected, loop, closed, actions>>

-----------------------------------------------------------------------------
(* Actions: one run at a time, whatever control starts it *)

NewRun(control, empty) ==
  [id |-> clicks, control |-> control, sent |-> empty, leased |-> ~empty]

Released(run) == IF run.leased THEN leases \ {run.control[1]} ELSE leases

Invoke(a, control) ==
  /\ ~closed /\ clicks < MaxClicks /\ clicks' = clicks + 1
  /\ IF a \in leases THEN UNCHANGED <<runs, leases, busy>>
     ELSE /\ leases' = leases \cup {a}
          /\ runs' = runs \cup {NewRun(control, FALSE)}
          /\ busy' = busy \cup {control}
  /\ UNCHANGED <<due, collected, again, loop, wake, done, closed, results>>

\* an action without a command reports at once and lets the lease go first
InvokeEmpty(a, control) ==
  /\ ~closed /\ clicks < MaxClicks /\ clicks' = clicks + 1
  /\ a \notin leases
  /\ runs' = runs \cup {NewRun(control, TRUE)}
  /\ busy' = busy \cup {control}
  /\ UNCHANGED <<due, collected, again, loop, wake, done, closed, leases, results>>

CommandEnds(run) ==
  /\ run \in runs /\ ~run.sent
  /\ runs' = IF closed THEN runs \ {run} ELSE (runs \ {run}) \cup {[run EXCEPT !.sent = TRUE]}
  /\ leases' = IF closed THEN Released(run) ELSE leases
  /\ UNCHANGED <<due, collected, again, loop, wake, done, closed, results, busy, clicks>>

\* the lease ends with the task, once the completion is in the channel
PublishAction(run) ==
  /\ run \in runs /\ run.sent
  /\ Len(results) < Capacity \/ closed
  /\ runs' = runs \ {run}
  /\ leases' = Released(run)
  /\ results' = IF closed THEN results ELSE Append(results, run.control)
  /\ UNCHANGED <<due, collected, again, loop, wake, done, closed, busy, clicks>>

\* the sources of the linked cards have changed, and every control leaves its busy state
ReceiveAction ==
  LET control == Head(results)
      a       == control[1]
  IN  /\ results # <<>>
      /\ results' = Tail(results)
      /\ Requests(Linked[a]) /\ wake' = TRUE
      /\ busy' = busy \ {control, <<a, Nobody>>}
      /\ UNCHANGED <<collected, loop, done, closed, runs, leases, clicks>>

Close ==
  /\ ~closed /\ closed' = TRUE
  /\ UNCHANGED <<due, collected, again, loop, wake, done, actions>>

-----------------------------------------------------------------------------
LoopStep ==
  \/ Sleep \/ Awake \/ AwakeClosed \/ Publish \/ Turn
  \/ \E c \in Cards : StartCard(c) \/ SkipCard(c)

Next ==
  \/ Tick
  \/ \E c \in Cards : Request(c)
  \/ LoopStep
  \/ \E c \in Cards : Collected(c)
  \/ Receive
  \/ \E a \in Actions : \E control \in Controls(a) : Invoke(a, control) \/ InvokeEmpty(a, control)
  \/ \E run \in runs : CommandEnds(run) \/ PublishAction(run)
  \/ ReceiveAction
  \/ Close

Spec == Init /\ [][Next]_vars

\* the main context runs its sources, time passes and workers end (each has a timeout);
\* those that wait for room in the completion channel are served in turn
Fairness ==
  /\ WF_vars(Tick)
  /\ WF_vars(LoopStep)
  /\ WF_vars(Receive)
  /\ WF_vars(ReceiveAction)
  /\ SF_vars(Publish)
  /\ \A c \in Cards : SF_vars(Collected(c))

FairSpec == Spec /\ Fairness

-----------------------------------------------------------------------------
TypeOK ==
  /\ due \in [Cards -> Running..Period] /\ timer \in 0..Period
  /\ collected \subseteq Cards /\ again \subseteq Cards /\ ready \subseteq Cards
  /\ pc \in {"top", "asleep", "ready", "publish", "ended"}
  /\ Len(done) <= Capacity /\ Len(results) <= Capacity
  /\ leases \subseteq Actions

\* The loop never sleeps past a card that is due: whatever changed the scheduler since it
\* set its timer has left a message in the wake channel (start_scheduler_polling).
NoOversleep ==
  (pc = "asleep" /\ ~wake /\ ~closed) => \A c \in Waiting : timer <= due[c]

\* An action runs once at a time, and a control that shows a spinner has a run whose end
\* will clear it (acquire_action, start_action_receiver).
SpinnersEnd ==
  /\ \A r, s \in runs : (r.control[1] = s.control[1] /\ ~r.sent /\ ~s.sent) => r = s
  /\ \A control \in busy :
       closed \/ control \in ToSet(results)
       \/ \E run \in runs : run.control = control

\* The polling loop never sleeps past a card that is due, and an action never leaves a
\* control waiting (start_scheduler_polling, start_action_receiver).
LoopWakes == TypeOK /\ NoOversleep /\ SpinnersEnd

\* Every card is collected again and again, and every collection ends, until the window is
\* gone; also while the loop itself waits for room in the completion channel.
Started(c) == due[c] = Running \/ closed
Freed(c)   == due[c] # Running \/ closed

CardsServed == \A c \in Cards : []<>Started(c) /\ []<>Freed(c)

\* Every loop ends with the window.
LoopEnds == []<>(closed => pc = "ended")
=============================================================================
