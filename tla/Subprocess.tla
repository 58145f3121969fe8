------------------------------ MODULE Subprocess ------------------------------
(***************************************************************************)
(* One command of a card or an action (execution/subprocess.rs): the two   *)
(* pipes read to their end, the wait for the child, and the select between *)
(* them, the timeout and the end of the application.  The processes are    *)
(* external: they fork, write, redirect, ignore SIGTERM and exit at will,  *)
(* and are followed until the call returns.  Dead ones hold no pipe.  The  *)
(* application may end, and cancel the call, at any time.                  *)
(***************************************************************************)
EXTENDS Integers, FiniteSets

CONSTANTS
    Helpers,    \* what the command may fork
    Limit,      \* output kept of each pipe
    PipeSize,
    MaxWrites   \* bound: writes to each pipe

SubprocessAssumption == Limit \in Nat /\ PipeSize \in Nat \ {0}

Child == "child"
Pipes == {"stdout", "stderr"}

VARIABLES
    step,        \* "idle", "running", "terminating", "killed", "done"
    result,
    patient,     \* the timeout is longer than all that happens
    alive,
    group,       \* the process group of the child
    born,
    pipe,        \* what each holds, what was kept of it, what was written, who may write
    ended,       \* pipes read to their end
    reaped       \* child.wait() has returned

vars == <<step, result, patient, alive, group, born, pipe, ended, reaped>>

processes == <<alive, group, born>>

NoPipes == [p \in Pipes |-> [fill |-> 0, kept |-> 0, written |-> 0, writers |-> {}]]

Init ==
    /\ step = "idle" /\ result = "none" /\ patient \in BOOLEAN
    /\ alive = {} /\ group = {} /\ born = {}
    /\ pipe = NoPipes
    /\ ended = {} /\ reaped = FALSE

-----------------------------------------------------------------------------
(* The processes *)

\* in the group of its parent or in one of its own, with its pipes or without
Fork(parent, helper) ==
    /\ step # "done" /\ parent \in alive /\ helper \in Helpers \ born
    /\ alive' = alive \cup {helper} /\ born' = born \cup {helper}
    /\ group' \in {group, IF parent \in group THEN group \cup {helper} ELSE group}
    /\ \E inherited \in SUBSET {p \in Pipes : parent \in pipe[p].writers} :
         pipe' = [p \in Pipes |-> IF p \in inherited
                                  THEN [pipe[p] EXCEPT !.writers = @ \cup {helper}] ELSE pipe[p]]
    /\ UNCHANGED <<step, result, patient, ended, reaped>>

Write(q, p) ==
    /\ q \in alive /\ q \in pipe[p].writers
    /\ pipe[p].fill < PipeSize /\ pipe[p].written < MaxWrites
    /\ pipe' = [pipe EXCEPT ![p].fill = @ + 1, ![p].written = @ + 1]
    /\ UNCHANGED <<step, result, patient, processes, ended, reaped>>

Exit(q) ==
    /\ step # "done" /\ q \in alive /\ alive' = alive \ {q}
    /\ UNCHANGED <<step, result, patient, group, born, pipe, ended, reaped>>

-----------------------------------------------------------------------------
(* run_command_with_cancellation *)

Refuse(why) ==
    /\ step' = "done" /\ result' = why
    /\ UNCHANGED <<processes, pipe>>

\* the child leads a process group of its own
Spawn ==
    /\ step' = "running" /\ UNCHANGED result
    /\ alive' = {Child} /\ group' = {Child} /\ born' = {Child}
    /\ pipe' = [p \in Pipes |-> [pipe[p] EXCEPT !.writers = {Child}]]

Begin ==
    /\ step = "idle"
    /\ Refuse("cancelled") \/ Refuse("unstarted") \/ Spawn
    /\ UNCHANGED <<patient, ended, reaped>>

\* Nothing more is read than is kept.
ReadableBelow(p) == pipe[p].fill > 0 /\ pipe[p].kept < Limit

\* what is beyond the limit is read all the same
Readable(p) == pipe[p].fill > 0

Read(p) ==
    /\ step = "running" /\ Readable(p)
    /\ pipe' = [pipe EXCEPT ![p].fill = @ - 1,
                            ![p].kept = IF @ < Limit THEN @ + 1 ELSE @]
    /\ UNCHANGED <<step, result, patient, processes, ended, reaped>>

ReadEnds(p) ==
    /\ step = "running" /\ p \notin ended
    /\ pipe[p].fill = 0 /\ pipe[p].writers \cap alive = {}
    /\ ended' = ended \cup {p}
    /\ UNCHANGED <<step, result, patient, processes, pipe, reaped>>

ChildEnds ==
    /\ step = "running" /\ ~reaped /\ Child \notin alive
    /\ reaped' = TRUE
    /\ UNCHANGED <<step, result, patient, processes, pipe, ended>>

Completes ==
    /\ step = "running" /\ reaped /\ ended = Pipes
    /\ step' = "done" /\ result' = "completed"
    /\ UNCHANGED <<patient, processes, pipe, ended, reaped>>

\* The group by the id of a child that is there.
ReachedById == IF reaped THEN {} ELSE alive \cap group

\* its id is kept from the start, for the child may be gone and the group not
Reached == alive \cap group

\* SIGTERM may be ignored; the pipes are closed with what was kept of them
Terminate(why) ==
    /\ step = "running" /\ step' = "terminating" /\ result' = why
    /\ \E obeying \in SUBSET Reached : alive' = alive \ obeying
    /\ pipe' = NoPipes /\ ended' = {}
    /\ UNCHANGED <<patient, group, born, reaped>>

TimesOut == ~patient /\ Terminate("timeout")

\* the select, which prefers none of its branches, or a pipe that fails
GivesUp == Terminate("cancelled") \/ Terminate("error")

\* 250 ms later, or once the child has gone
Kill ==
    /\ step = "terminating" /\ step' = "killed"
    /\ alive' = alive \ Reached
    /\ UNCHANGED <<result, patient, group, born, pipe, ended, reaped>>

Reap ==
    /\ step = "killed" /\ Child \notin alive
    /\ reaped' = TRUE /\ step' = "done"
    /\ UNCHANGED <<result, patient, processes, pipe, ended>>

-----------------------------------------------------------------------------
CallStep ==
    \/ \E p \in Pipes : Read(p) \/ ReadEnds(p)
    \/ ChildEnds \/ Completes \/ Kill \/ Reap

Next ==
    \/ \E parent \in alive, helper \in Helpers : Fork(parent, helper)
    \/ \E q \in alive, p \in Pipes : Write(q, p)
    \/ \E q \in alive : Exit(q)
    \/ Begin
    \/ CallStep
    \/ TimesOut
    \/ GivesUp

\* The executor polls what is ready, in any order, and a timeout that may come does.
Fairness == WF_vars(CallStep) /\ WF_vars(TimesOut)

Spec == Init /\ [][Next]_vars
FairSpec == Spec /\ Fairness

-----------------------------------------------------------------------------
TypeOK ==
    /\ step \in {"idle", "running", "terminating", "killed", "done"}
    /\ alive \subseteq born /\ group \subseteq born /\ born \subseteq {Child} \cup Helpers
    /\ ended \subseteq Pipes /\ {patient, reaped} \subseteq BOOLEAN

\* A command that was given up leaves nobody of its group behind, also when the child was
\* gone long before and a descendant held the pipes; and no child stays a zombie
\* (terminate_child).
NoneLeftBehind ==
    step = "done" =>
        /\ result # "completed" => alive \cap group = {}
        /\ born # {} => reaped

\* What a completed command wrote is all there, by every process that held its pipes, up to
\* the limit (read_limited).
OutputWhole ==
    result = "completed" =>
        \A p \in Pipes : pipe[p].kept = IF pipe[p].written < Limit THEN pipe[p].written ELSE Limit

CommandContained == TypeOK /\ NoneLeftBehind /\ OutputWhole

\* A call returns once its timeout is over, or its processes are gone, whatever they do with
\* signals and pipes; until then none of them waits for room in a pipe for ever, whatever
\* they write beyond the limit.
CommandReturns ==
    []<>(\/ step \in {"idle", "done"}
         \/ /\ patient /\ step = "running" /\ alive # {}
            /\ \A p \in Pipes : pipe[p].fill < PipeSize)
=============================================================================
