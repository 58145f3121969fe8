----------------------------- MODULE MCRuntime ------------------------------
(***************************************************************************)
(* Small instances of Runtime for TLC.  Nothing depends on an instant but  *)
(* by its distance from now, nor on a distance that is longer than every   *)
(* duration of the configuration: states are compared by these distances,  *)
(* and the clock needs no bound.                                           *)
(***************************************************************************)
EXTENDS Runtime, FiniteSetsExt

Config(lease, idleTimeout, quietEnabled, screen) ==
    [lease |-> lease, idleTimeout |-> idleTimeout, idleStability |-> 1, grace |-> 1, attention |-> 1,
     quietEnabled |-> quietEnabled, quietStart |-> 1, quietEnd |-> 0,
     thresholds |-> [criticalEnter |-> 1, criticalExit |-> 2, lowEnter |-> 2, lowExit |-> 3],
     inhibit |-> [screen |-> screen, suspend |-> "never"]]

\* One is idle while its lease lasts, the other not before it is over.
QuietAndNot == {Config(1, 2, TRUE, "while-active"), Config(2, 1, FALSE, "while-mapped")}

LongestTimeout   == Max({cfg.idleTimeout : cfg \in Configs})
LongestStability == Max({cfg.idleStability : cfg \in Configs})
LongestGrace     == Max({cfg.grace : cfg \in Configs})

\* The distance of an instant, at least -past.
Away(at, past) ==
    IF at = None THEN <<>> ELSE IF at < now - past THEN <<-past>> ELSE <<at - now>>

\* Of a lease or an attention that is over nothing is left.
Left(deadline) == IF Live(deadline) THEN deadline - now ELSE 0

Distances ==
    [manager EXCEPT
        !.lastActivity  = Away(@, LongestTimeout),
        !.idleCandidate = Away(@, LongestStability),
        !.inactiveSince = Away(@, LongestGrace),
        !.lease         = Left(@),
        !.interactions  = [o \in {o \in DOMAIN @ : Live(@[o])} |-> @[o] - now],
        !.agent         = <<IF Live(@.until) THEN @.event ELSE "none", Left(@.until), @.active>>,
        !.timer         = Away(@, 1)]

\* Once the window is gone nothing depends on the manager any more.
View ==
    <<IF down THEN <<>> ELSE <<LocalSecond, Distances, order, Away(granted.at, Longest)>>,
      channel, held, inhibitors>>
=============================================================================
