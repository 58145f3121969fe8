----------------------------- MODULE PowerMetric -----------------------------
(***************************************************************************)
(* The average of the power metric (metrics/power.rs): a window of samples *)
(* that a change of status, a missing value or a long pause starts anew.   *)
(* Instants are ages.                                                      *)
(***************************************************************************)
EXTENDS Integers, Sequences

CONSTANTS
    Window,             \* window_secs
    SuspendGap,         \* SUSPEND_GAP_SECS
    MaxSamples,         \* MAX_WINDOW_SIZE
    None

Statuses == {"charging", "discharging", "neither"}

VARIABLES
    samples,            \* the deque, each with its age and the status it was read under
    since,              \* the age of last_anchor_secs, None before the first
    status,             \* prev_status
    result

vars == <<samples, since, status, result>>

Init == samples = <<>> /\ since = None /\ status = None /\ result = "none"

\* a read that ends the stretch
Restart(now, shown) ==
    /\ samples' = <<>> /\ status' = now /\ since' = 0 /\ result' = shown

Unavailable(now) == Restart(now, "unavailable")

\* neither charging nor discharging
Rest(now) == now = "neither" /\ Restart(now, "zero")

\* a value beyond 500 W, or none at all: what there is stays
Implausible ==
    /\ result' = IF Len(samples) >= 2 THEN "cached" ELSE "unavailable"
    /\ UNCHANGED <<samples, since, status>>

\* A change of status goes into the average.
KeptOverStatus(now) == IF since # None /\ since > SuspendGap THEN <<>> ELSE samples

Kept(now) ==
    IF (status # None /\ status # now) \/ (since # None /\ since > SuspendGap)
    THEN <<>> ELSE samples

\* The front goes while there are too many, and then, but for the last one, while it is
\* older than the window.
Trimmed(s) ==
    LET fits == {n \in DOMAIN s : /\ Len(s) - n < MaxSamples
                                  /\ n = Len(s) \/ s[n].age <= Window}
        front == CHOOSE n \in fits : \A m \in fits : n <= m
    IN  SubSeq(s, front, Len(s))

Sample(now) ==
    /\ now # "neither"
    /\ samples' = Trimmed(Append(Kept(now), [age |-> 0, status |-> now]))
    /\ status' = now /\ since' = 0
    /\ result' = IF Len(samples') < 2 THEN "sampling" ELSE "average"

\* the battery cannot be read
Unread == result' = "error" /\ UNCHANGED <<samples, since, status>>

Collect == \E now \in Statuses : Unavailable(now) \/ Implausible \/ Rest(now) \/ Sample(now)

Older(age) == IF age > Window + SuspendGap THEN age ELSE age + 1

Tick ==
    /\ samples' = [i \in DOMAIN samples |-> [samples[i] EXCEPT !.age = Older(@)]]
    /\ since' = IF since = None THEN None ELSE Older(since)
    /\ UNCHANGED <<status, result>>

Next == Collect \/ Unread \/ Tick

Spec == Init /\ [][Next]_vars

-----------------------------------------------------------------------------
TypeOK ==
    /\ Len(samples) <= MaxSamples
    /\ status \in Statuses \cup {None}
    /\ result \in {"none", "error", "unavailable", "zero", "cached", "sampling", "average"}

\* What is averaged is one stretch of one status, without a pause in it, and no older than
\* the window when it was last added to (PowerMetric::collect).
OneStretch ==
    /\ \A i \in DOMAIN samples : samples[i].status = status
    /\ \A i \in 1..Len(samples) - 1 : samples[i].age - samples[i + 1].age <= SuspendGap
    /\ Len(samples) > 1 => samples[1].age - samples[Len(samples)].age <= Window
=============================================================================
