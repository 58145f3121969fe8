---------------------------- MODULE MCScheduler -----------------------------
(***************************************************************************)
(* Small instances of Scheduler for TLC.                                   *)
(***************************************************************************)
EXTENDS Scheduler, FiniteSetsExt

CONSTANTS
    Horizon,          \* the clock stops here
    MaxGenerations,   \* the generations of all cards add up to this at most
    MaxHeap,          \* the heap holds no more entries than this
    MaxFailures,      \* no card fails more often in a row
    MaxSeed           \* no more registrations than this

Policy(base, workload) ==
    [base |-> base, workload |-> workload, scheduled |-> FALSE,
     inactive |-> "inherit", idle |-> "inherit",
     inactiveInterval |-> NoInterval, idleInterval |-> NoInterval, minimum |-> 0]

Normal    == Policy(2, "normal")
Event     == Policy(2, "event")
Remote    == Policy(1, "expensive")
Daily     == [Policy(2, "normal") EXCEPT !.scheduled = TRUE]

MCCoalesce == [l \in Levels |-> CASE l = "suspended" -> 0 [] l = "full" -> 1 [] OTHER -> 2]

\* One card that a reload may make event-driven, give a fixed schedule or another page.
ReloadCards == [c \in {1} |-> {[page |-> "a", policy |-> Normal], [page |-> "a", policy |-> Event],
                               [page |-> "b", policy |-> Daily]}]

RemoteDaily == [Remote EXCEPT !.scheduled = TRUE]

\* A remote or a light card, next to a remote one with a fixed schedule.
PairedCards == [c \in {1, 2} |-> {[page |-> "a", policy |-> p] :
    p \in IF c = 1 THEN {Remote, Normal} ELSE {RemoteDaily}}]

MixedPermits == {<<"full", "active">>, <<"suspended", "active">>}
ThreePermits == MixedPermits \cup {<<"minimal", "active">>}

Bounded ==
    /\ now <= Horizon
    /\ seed <= MaxSeed
    /\ Cardinality(heap) <= MaxHeap
    /\ \A c \in Registered : tasks[c].failures <= MaxFailures
    /\ MapThenSumSet(LAMBDA c : tasks[c].generation, Registered) <= MaxGenerations

MCNext == Next /\ Bounded'

MCSpec == Init /\ [][MCNext]_vars
=============================================================================
