------------------------------ MODULE MCCache ------------------------------
(***************************************************************************)
(* Small instances of Cache for TLC.                                       *)
(***************************************************************************)
EXTENDS Cache, TLC

CONSTANTS
    MaxEvents,        \* events of the source
    MaxSeed,          \* generations other sources draw from the seed stay below this
    MaxNodes          \* one more than the removals of the source

Symmetry == Permutations(Workers)

Bounded ==
    /\ world <= MaxEvents
    /\ Len(nodes) <= MaxNodes

\* Only other sources leave the state alone when they draw from the seed.
MCNext ==
    /\ Next
    /\ Bounded'
    /\ seed' # seed /\ state' = state => seed' <= MaxSeed

MCSpec == Init /\ [][MCNext]_vars

MCFairSpec ==
    MCSpec /\ WF_vars(InvalidateCache) /\ \A x \in Workers : SF_vars(Work(x))
=============================================================================
