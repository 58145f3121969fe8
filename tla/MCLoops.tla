------------------------------ MODULE MCLoops -------------------------------
(***************************************************************************)
(* What must go on, one in each behaviour: the collections (Collection),   *)
(* the polling loop with its workers and actions (Controller), the page of *)
(* ScrcpyForge (ForgePage), and a command (Subprocess).  The variables of  *)
(* the others rest.                                                        *)
(***************************************************************************)
EXTENDS MCCollection

CONSTANTS
    None,
    Misfits, Actions, Linked, Period, Capacity, MaxClicks,      \* Controller
    WorkLevels, MaxStarts, MaxStops,                            \* ForgePage
    Helpers, Limit, PipeSize, MaxWrites                         \* Subprocess

VARIABLES
    machine,          \* which of them this behaviour is of
    due, collected, again, pc, timer, wake, ready, sending, done, closed,
    runs, leases, results, busy, clicks,                            \* Controller
    started, alive, child, stops, stopDone, switch, changing, available,
    health, refused, gate, pipe, mapped, mode,                      \* ForgePage
    call, outcome, patient, processes, group, born, pipes, ended,
    reaped                                                          \* Subprocess

Ctl == INSTANCE Controller WITH Nobody <- None
Pg  == INSTANCE ForgePage WITH busy <- gate, Levels <- WorkLevels
Cmd == INSTANCE Subprocess WITH step <- call, result <- outcome, alive <- processes, pipe <- pipes

\* An action is linked to the first card.
LinkedToFirst == [act |-> {1}]

ASSUME LoopsAssumption ==
    Ctl!ControllerAssumption /\ Pg!ForgePageAssumption /\ Cmd!SubprocessAssumption

controller == <<due, collected, again, pc, timer, wake, ready, sending, done, closed,
                runs, leases, results, busy, clicks>>
page == <<started, alive, child, stops, stopDone, switch, changing, available,
          health, refused, gate, pipe, mapped, mode>>
command == <<call, outcome, patient, processes, group, born, pipes, ended, reaped>>
all  == <<machine, vars, controller, page, command>>

InitAll ==
    /\ machine \in {"collection", "controller", "page", "command"}
    /\ Init /\ Ctl!Init /\ Pg!Init /\ Cmd!Init
    /\ machine # "collection" => budget = 1
    /\ machine # "command" => patient

OfCollection(A) == machine = "collection" /\ A /\ UNCHANGED <<machine, controller, page, command>>
OfController(A) == machine = "controller" /\ A /\ UNCHANGED <<machine, vars, page, command>>
OfPage(A)       == machine = "page" /\ A /\ UNCHANGED <<machine, vars, controller, command>>
OfCommand(A)    == machine = "command" /\ A /\ UNCHANGED <<machine, vars, controller, page>>

NextAll ==
    OfCollection(Next) \/ OfController(Ctl!Next) \/ OfPage(Pg!Next) \/ OfCommand(Cmd!Next)

\* The fairness of each module.
FairAll ==
    /\ \A w \in Workers : WF_all(OfCollection(Publish(w))) /\ WF_all(OfCollection(Send(w)))
    /\ WF_all(OfCollection(Receive))
    /\ WF_all(OfController(Ctl!Tick))
    /\ WF_all(OfController(Ctl!LoopStep))
    /\ WF_all(OfController(Ctl!Receive))
    /\ WF_all(OfController(Ctl!ReceiveAction))
    /\ SF_all(OfController(Ctl!Publish))
    /\ \A c \in Cards : SF_all(OfController(Ctl!Collected(c)))
    /\ WF_all(OfPage(Pg!ShutdownAnswered)) /\ WF_all(OfPage(Pg!Reap)) /\ WF_all(OfPage(Pg!StopDone))
    /\ WF_all(OfCommand(Cmd!CallStep)) /\ WF_all(OfCommand(Cmd!TimesOut))

SpecAll == InitAll /\ [][NextAll]_all /\ FairAll

-----------------------------------------------------------------------------
\* The polling loop never sleeps past a card that is due, and an action never leaves a
\* control waiting (start_scheduler_polling, start_action_receiver).
LoopWakes == Ctl!LoopWakes

\* Every card is served again and again, also while the loop itself waits for room in the
\* channel of completions.
CardsServed ==
    \A c \in Cards : /\ []<>(machine = "controller" => Ctl!Started(c))
                     /\ []<>(machine = "controller" => Ctl!Freed(c))

\* What ends, ends: the polling loop with the window, the switch's neglect of the user with
\* the daemon that stops, a command with its processes or its timeout.
LoopsEnd == Ctl!LoopEnds /\ Pg!StoppingEnds /\ Cmd!CommandReturns

\* The daemon and the page follow the switch: once off it stays off but for the user and for
\* one answer of the health that was asked for before, no daemon is forgotten, and the gate of
\* snapshots is closed only while one is on its way.
SwitchFollowed == Pg!SwitchFollowed

\* A command that was given up leaves nobody of its group behind, and one that completed
\* has all of its output up to the limit.
CommandContained == Cmd!CommandContained
=============================================================================
