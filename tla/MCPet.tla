-------------------------------- MODULE MCPet ---------------------------------
(***************************************************************************)
(* A pet card without animations, in a window that is seen.                *)
(***************************************************************************)
EXTENDS PetCard

Seen == {[policy |-> "full", visible |-> TRUE, hot |-> FALSE, paused |-> FALSE]}

NoAnimations == [state \in {} |-> None]
===============================================================================
