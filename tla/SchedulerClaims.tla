-------------------------- MODULE SchedulerClaims ---------------------------
(***************************************************************************)
(* What comments and docs of the repository say of the scheduler and the   *)
(* code does not do.  Each claim has a run of its own, and a counterexample*)
(* described in README.md.                                                 *)
(***************************************************************************)
EXTENDS MCScheduler

\* "The scheduler still preserves ... manual/event `run_once' requests"
\* (docs/RUNTIME_POWER.md): outside Suspended, which requeues on its way out, a
\* queued request has a current entry, whatever page is shown.
RequestsStayQueued ==
    \A c \in Registered :
        tasks[c].runOnce /\ level # "suspended"
            => Entry(c, tasks[c]) \in heap \cup deferred
=============================================================================
