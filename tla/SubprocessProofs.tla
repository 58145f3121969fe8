-------------------------- MODULE SubprocessProofs --------------------------
(***************************************************************************)
(* A command is contained, for any number of processes it may fork and any *)
(* size of its pipes, and whatever limit is set to its output.             *)
(***************************************************************************)
EXTENDS Subprocess, TLAPS

Fits(x) == IF x < Limit THEN x ELSE Limit

\* What was read of a pipe is kept up to the limit; at the end of a pipe nothing is left
\* and nobody writes.
Pumped ==
    /\ \A p \in Pipes : pipe[p].kept = Fits(pipe[p].written - pipe[p].fill)
    /\ \A p \in ended : pipe[p].fill = 0 /\ pipe[p].writers \cap alive = {}

PipesOK == pipe \in [Pipes -> [fill : Nat, kept : Nat, written : Nat, writers : SUBSET born]]

Stages ==
    /\ step \in {"idle", "running"} => result = "none"
    /\ step = "idle" => born = {} /\ ended = {}
    /\ step \in {"terminating", "killed"} => result \in {"timeout", "cancelled", "error"}
    /\ result = "completed" => step = "done" /\ ended = Pipes

\* The kill leaves nobody of the group, and whom the others fork are not of it.
Reaching ==
    /\ step = "killed" => alive \cap group = {}
    /\ NoneLeftBehind

\* The output of a command that completed changes no more: its writers are gone.
Output == step \in {"idle", "running"} \/ result = "completed" => Pumped

IInv == TypeOK /\ PipesOK /\ Stages /\ Reaching /\ Output

-----------------------------------------------------------------------------
LEMMA InitInv ==
    ASSUME SubprocessAssumption, Init
    PROVE  IInv
<1>1. PipesOK
  BY DEF Init, NoPipes, PipesOK
<1>2. Pumped
  BY DEF SubprocessAssumption, Init, NoPipes, Pumped, Fits
<1> QED
  BY <1>1, <1>2 DEF Init, IInv, TypeOK, Stages, Reaching, NoneLeftBehind, Output

LEMMA ForkStep ==
    ASSUME IInv, NEW parent \in alive, NEW helper \in Helpers, Fork(parent, helper)
    PROVE  IInv'
<1>1. /\ step # "done" /\ helper \notin born /\ parent \in alive
      /\ alive' = alive \cup {helper} /\ born' = born \cup {helper}
      /\ group' = group \/ (parent \in group /\ group' = group \cup {helper})
      /\ UNCHANGED <<step, result, patient, ended, reaped>>
  BY DEF Fork
<1>2. PICK inherited \in SUBSET {p \in Pipes : parent \in pipe[p].writers} :
        pipe' = [p \in Pipes |-> IF p \in inherited
                                 THEN [pipe[p] EXCEPT !.writers = pipe[p].writers \cup {helper}]
                                 ELSE pipe[p]]
  BY DEF Fork
<1>3. \A p \in Pipes :
        /\ pipe'[p] \in [fill : Nat, kept : Nat, written : Nat, writers : SUBSET born']
        /\ pipe'[p].fill = pipe[p].fill /\ pipe'[p].kept = pipe[p].kept
        /\ pipe'[p].written = pipe[p].written
        /\ pipe'[p].writers = IF p \in inherited THEN pipe[p].writers \cup {helper}
                              ELSE pipe[p].writers
  <2> TAKE p \in Pipes
  <2>1. pipe[p] \in [fill : Nat, kept : Nat, written : Nat, writers : SUBSET born]
    BY DEF IInv, PipesOK
  <2>2. pipe[p].writers \subseteq born' /\ pipe[p].writers \cup {helper} \subseteq born'
    BY <1>1, <2>1
  <2> QED
    BY <1>2, <2>1, <2>2
<1>4. PipesOK'
  BY <1>2, <1>3 DEF PipesOK
<1>5. TypeOK'
  BY <1>1 DEF IInv, TypeOK
<1>6. Stages'
  BY <1>1 DEF IInv, Stages, TypeOK
<1>7. Reaching'
  BY <1>1 DEF IInv, TypeOK, Reaching, NoneLeftBehind
<1>8. Output'
  <2> SUFFICES ASSUME Pumped PROVE Pumped'
    BY <1>1 DEF IInv, Stages, Output
  <2>1. ASSUME NEW p \in ended
        PROVE  pipe'[p].fill = 0 /\ pipe'[p].writers \cap alive' = {}
    <3>1. p \in Pipes /\ pipe[p].fill = 0 /\ pipe[p].writers \cap alive = {}
      BY <2>1 DEF Pumped, IInv, TypeOK
    <3>2. p \notin inherited /\ helper \notin pipe[p].writers
      BY <1>1, <3>1 DEF IInv, PipesOK
    <3> QED
      BY <1>1, <1>3, <3>1, <3>2
  <2> QED
    BY <1>1, <1>3, <2>1 DEF Pumped
<1> QED
  BY <1>4, <1>5, <1>6, <1>7, <1>8 DEF IInv

LEMMA WriteStep ==
    ASSUME IInv, NEW q \in alive, NEW p \in Pipes, Write(q, p)
    PROVE  IInv'
<1>1. /\ q \in pipe[p].writers
      /\ pipe' = [pipe EXCEPT ![p].fill = @ + 1, ![p].written = @ + 1]
      /\ UNCHANGED <<step, result, patient, alive, group, born, ended, reaped>>
  BY DEF Write, processes
<1>2. \A r \in Pipes :
        /\ pipe[r] \in [fill : Nat, kept : Nat, written : Nat, writers : SUBSET born]
        /\ pipe'[r] \in [fill : Nat, kept : Nat, written : Nat, writers : SUBSET born]
        /\ pipe'[r].kept = pipe[r].kept /\ pipe'[r].writers = pipe[r].writers
        /\ pipe'[r].written - pipe'[r].fill = pipe[r].written - pipe[r].fill
        /\ r # p => pipe'[r] = pipe[r]
  BY <1>1 DEF IInv, PipesOK
<1>3. PipesOK'
  BY <1>1, <1>2 DEF IInv, PipesOK
<1>4. Output'
  <2> SUFFICES ASSUME Pumped PROVE Pumped'
    BY <1>1 DEF IInv, Output
  <2>1. p \notin ended
    BY <1>1 DEF Pumped
  <2>2. \A r \in ended : r \in Pipes
    BY DEF IInv, TypeOK
  <2> QED
    BY <1>1, <1>2, <2>1, <2>2 DEF Pumped
<1> QED
  BY <1>1, <1>3, <1>4 DEF IInv, TypeOK, Stages, Reaching, NoneLeftBehind

LEMMA ExitStep ==
    ASSUME IInv, NEW q \in alive, Exit(q)
    PROVE  IInv'
<1>1. /\ step # "done" /\ alive' = alive \ {q}
      /\ UNCHANGED <<step, result, patient, group, born, pipe, ended, reaped>>
  BY DEF Exit
<1>2. Output'
  BY <1>1 DEF IInv, Output, Pumped
<1> QED
  BY <1>1, <1>2 DEF IInv, TypeOK, PipesOK, Stages, Reaching, NoneLeftBehind

LEMMA BeginStep ==
    ASSUME SubprocessAssumption, IInv, Begin
    PROVE  IInv'
<1>1. /\ step = "idle" /\ result = "none" /\ born = {} /\ alive = {} /\ group = {} /\ ended = {}
      /\ UNCHANGED <<patient, ended, reaped>>
  BY DEF Begin, IInv, TypeOK, Stages
<1>2. ASSUME NEW why \in {"cancelled", "unstarted"}, Refuse(why)
      PROVE  IInv'
  BY <1>1, <1>2 DEF Refuse, processes, IInv, TypeOK, PipesOK, Stages, Reaching, NoneLeftBehind, Output
<1>3. CASE Spawn
  <2>1. \A p \in Pipes :
          /\ pipe'[p] \in [fill : Nat, kept : Nat, written : Nat, writers : SUBSET {Child}]
          /\ pipe'[p].fill = pipe[p].fill /\ pipe'[p].kept = pipe[p].kept
          /\ pipe'[p].written = pipe[p].written
    BY <1>3 DEF Spawn, IInv, PipesOK
  <2>2. PipesOK'
    BY <1>3, <2>1 DEF Spawn, PipesOK
  <2>3. Pumped
    BY <1>1 DEF IInv, Output
  <2>4. Pumped'
    BY <1>1, <2>1, <2>3 DEF Pumped
  <2> QED
    BY <1>1, <1>3, <2>2, <2>4 DEF Spawn, IInv, TypeOK, Stages, Reaching, NoneLeftBehind, Output
<1> QED
  BY <1>2, <1>3 DEF Begin

LEMMA ReadStep ==
    ASSUME SubprocessAssumption, IInv, NEW p \in Pipes, Read(p)
    PROVE  IInv'
<1>1. /\ step = "running" /\ pipe[p].fill > 0
      /\ pipe' = [pipe EXCEPT ![p].fill = @ - 1, ![p].kept = IF @ < Limit THEN @ + 1 ELSE @]
      /\ UNCHANGED <<step, result, patient, alive, group, born, ended, reaped>>
  BY DEF Read, Readable, processes
<1>2. \A r \in Pipes :
        /\ pipe[r] \in [fill : Nat, kept : Nat, written : Nat, writers : SUBSET born]
        /\ pipe'[r] \in [fill : Nat, kept : Nat, written : Nat, writers : SUBSET born]
        /\ pipe'[r].writers = pipe[r].writers /\ pipe'[r].written = pipe[r].written
        /\ r # p => pipe'[r] = pipe[r]
  <2>1. \A r \in Pipes : pipe[r] \in [fill : Nat, kept : Nat, written : Nat, writers : SUBSET born]
    BY DEF IInv, PipesOK
  <2> DEFINE less == pipe[p].fill - 1
             more == IF pipe[p].kept < Limit THEN pipe[p].kept + 1 ELSE pipe[p].kept
  <2>2. less \in Nat /\ more \in Nat
    BY <1>1, <2>1
  <2>3. \A r \in Pipes \ {p} : pipe'[r] = pipe[r]
    BY <1>1 DEF IInv, PipesOK
  <2>4. pipe'[p] = [pipe[p] EXCEPT !.fill = less, !.kept = more]
    BY <1>1 DEF IInv, PipesOK
  <2> HIDE DEF less, more
  <2>5. /\ pipe'[p] \in [fill : Nat, kept : Nat, written : Nat, writers : SUBSET born]
        /\ pipe'[p].writers = pipe[p].writers /\ pipe'[p].written = pipe[p].written
    BY <2>1, <2>2, <2>4
  <2> QED
    BY <2>1, <2>3, <2>5
<1>3. /\ pipe'[p].fill = pipe[p].fill - 1
      /\ pipe'[p].kept = IF pipe[p].kept < Limit THEN pipe[p].kept + 1 ELSE pipe[p].kept
  BY <1>1, <1>2 DEF IInv, PipesOK
<1>4. PipesOK'
  BY <1>1, <1>2 DEF IInv, PipesOK
<1>5. Pumped'
  <2>1. Pumped
    BY <1>1 DEF IInv, Output
  <2>2. pipe'[p].kept = Fits(pipe'[p].written - pipe'[p].fill)
    <3> DEFINE f == pipe[p].fill
               k == pipe[p].kept
               n == pipe[p].written
    <3>1. f \in Nat /\ k \in Nat /\ n \in Nat /\ k = Fits(n - f) /\ Limit \in Nat
      BY <1>2, <2>1 DEF Pumped, SubprocessAssumption
    <3>2. pipe'[p].fill = f - 1 /\ pipe'[p].written = n
          /\ pipe'[p].kept = IF k < Limit THEN k + 1 ELSE k
      BY <1>2, <1>3
    <3> HIDE DEF f, k, n
    <3> QED
      BY <3>1, <3>2 DEF Fits
  <2>3. p \notin ended
    BY <1>1, <1>2, <2>1 DEF Pumped
  <2>4. \A r \in ended : r \in Pipes
    BY DEF IInv, TypeOK
  <2> QED
    BY <1>1, <1>2, <2>1, <2>2, <2>3, <2>4 DEF Pumped
<1> QED
  BY <1>1, <1>4, <1>5 DEF IInv, TypeOK, Stages, Reaching, NoneLeftBehind, Output

LEMMA ReadEndsStep ==
    ASSUME IInv, NEW p \in Pipes, ReadEnds(p)
    PROVE  IInv'
<1>1. /\ step = "running" /\ pipe[p].fill = 0 /\ pipe[p].writers \cap alive = {}
      /\ ended' = ended \cup {p}
      /\ UNCHANGED <<step, result, patient, alive, group, born, pipe, reaped>>
  BY DEF ReadEnds, processes
<1>2. Pumped'
  BY <1>1 DEF IInv, Output, Pumped
<1> QED
  BY <1>1, <1>2 DEF IInv, TypeOK, PipesOK, Stages, Reaching, NoneLeftBehind, Output

LEMMA EndStep ==
    ASSUME IInv, ChildEnds \/ Completes
    PROVE  IInv'
<1>1. step = "running" /\ UNCHANGED <<patient, alive, group, born, pipe, ended>>
  BY DEF ChildEnds, Completes, processes
<1>2. Pumped'
  BY <1>1 DEF IInv, Output, Pumped
<1>3. CASE ChildEnds
  BY <1>1, <1>2, <1>3 DEF ChildEnds, IInv, TypeOK, PipesOK, Stages, Reaching, NoneLeftBehind, Output
<1>4. CASE Completes
  BY <1>1, <1>2, <1>4 DEF Completes, IInv, TypeOK, PipesOK, Stages, Reaching, NoneLeftBehind, Output
<1> QED
  BY <1>3, <1>4

LEMMA TerminateStep ==
    ASSUME IInv, NEW why \in {"timeout", "cancelled", "error"}, Terminate(why)
    PROVE  IInv'
<1>1. /\ step = "running" /\ step' = "terminating" /\ result' = why /\ alive' \subseteq alive
      /\ pipe' = NoPipes /\ ended' = {} /\ UNCHANGED <<patient, group, born, reaped>>
  BY DEF Terminate
<1>2. PipesOK'
  BY <1>1 DEF NoPipes, PipesOK
<1> QED
  BY <1>1, <1>2 DEF IInv, TypeOK, Stages, Reaching, NoneLeftBehind, Output

LEMMA KillStep ==
    ASSUME IInv, Kill
    PROVE  IInv'
<1>1. /\ step = "terminating" /\ step' = "killed" /\ alive' = alive \ (alive \cap group)
      /\ UNCHANGED <<result, patient, group, born, pipe, ended, reaped>>
  BY DEF Kill, Reached
<1> QED
  BY <1>1 DEF IInv, TypeOK, PipesOK, Stages, Reaching, NoneLeftBehind, Output

LEMMA ReapStep ==
    ASSUME IInv, Reap
    PROVE  IInv'
<1>1. /\ step = "killed" /\ step' = "done" /\ reaped' = TRUE
      /\ UNCHANGED <<result, patient, alive, group, born, pipe, ended>>
  BY DEF Reap, processes
<1> QED
  BY <1>1 DEF IInv, TypeOK, PipesOK, Stages, Reaching, NoneLeftBehind, Output

LEMMA NextInv ==
    ASSUME SubprocessAssumption, IInv, [Next]_vars
    PROVE  IInv'
<1>1. CASE CallStep
  BY <1>1, ReadStep, ReadEndsStep, EndStep, KillStep, ReapStep DEF CallStep
<1>2. CASE TimesOut \/ GivesUp
  BY <1>2, TerminateStep DEF TimesOut, GivesUp
<1>3. CASE Begin
  BY <1>3, BeginStep
<1>4. CASE UNCHANGED vars
  BY <1>4 DEF vars, IInv, TypeOK, PipesOK, Stages, Reaching, NoneLeftBehind, Output, Pumped
<1>5. CASE \/ \E parent \in alive, helper \in Helpers : Fork(parent, helper)
           \/ \E q \in alive, p \in Pipes : Write(q, p)
           \/ \E q \in alive : Exit(q)
  BY <1>5, ForkStep, WriteStep, ExitStep
<1> QED
  BY <1>1, <1>2, <1>3, <1>4, <1>5 DEF Next

LEMMA InvContained == IInv => CommandContained
<1> SUFFICES ASSUME IInv PROVE CommandContained
  OBVIOUS
<1>1. OutputWhole
  <2> SUFFICES ASSUME result = "completed", NEW p \in Pipes
               PROVE  pipe[p].kept = Fits(pipe[p].written)
    BY DEF OutputWhole, Fits
  <2>1. pipe[p].kept = Fits(pipe[p].written - pipe[p].fill) /\ pipe[p].fill = 0
    BY DEF IInv, Stages, Output, Pumped
  <2>2. pipe[p].written \in Nat
    BY DEF IInv, PipesOK
  <2> QED
    BY <2>1, <2>2
<1> QED
  BY <1>1 DEF IInv, Reaching, CommandContained

\* A command that is given up leaves nobody of its process group behind and no zombie, and
\* one that completes has all that was written to its pipes, up to the limit, by whichever
\* process: for any number of processes it forks, whatever they redirect, ignore or write,
\* and in whatever order the call reads, waits and is cancelled (run_command_with_cancellation,
\* terminate_child, read_limited).
THEOREM CommandAlwaysContained ==
    ASSUME SubprocessAssumption
    PROVE  Spec => []CommandContained
<1>1. Init => IInv
  BY InitInv
<1>2. IInv /\ [Next]_vars => IInv'
  BY NextInv
<1>3. IInv => CommandContained
  BY InvContained
<1> QED
  BY <1>1, <1>2, <1>3, PTL DEF Spec
=============================================================================
