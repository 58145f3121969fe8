----------------------------- MODULE NetworkWatch ----------------------------
(***************************************************************************)
(* The signals of the network (setup_network_monitor of window.rs) and the *)
(* source its cards share (sources/network.rs).  Signals may be lost, the  *)
(* bus may go and come back.  A value is the number of changes when it was *)
(* read, or Fallback when only sysfs could tell.                           *)
(***************************************************************************)
EXTENDS Integers

CONSTANTS
    Debounce,           \* 100 ms
    Deadline,           \* fallback_deadline, 30 s
    Watchdog,           \* NETWORK_SIGNAL_FALLBACK_SECONDS
    MaxChanges,         \* bound: changes of the network
    None

Fallback == -1

VARIABLES
    network,            \* changes so far, and whether the bus answers
    queued, watchdog,   \* what is left of the two timers
    connection,
    source,             \* the snapshot with its age, and invalidated
    published,          \* changes at the last event the cards were told of
    behind, awaited     \* how long a change and a signal wait for that event

vars == <<network, queued, watchdog, connection, source, published, behind, awaited>>

Init ==
    /\ network \in [changes : {0}, bus : BOOLEAN]
    /\ queued = None /\ watchdog = Watchdog
    /\ connection = network.bus
    /\ source = [snapshot |-> None, age |-> 0, invalidated |-> TRUE]
    /\ published = 0 /\ behind = 0 /\ awaited = None

Change ==
    /\ network.changes < MaxChanges
    /\ \E bus \in BOOLEAN : network' = [changes |-> network.changes + 1, bus |-> bus]
    /\ UNCHANGED <<queued, watchdog, connection, source, published, behind, awaited>>

\* queue_network_event: an event that waits stands for those after it
Queue ==
    /\ queued' = IF queued = None THEN Debounce ELSE queued
    /\ awaited' = IF queued = None THEN 0 ELSE awaited

\* a change of gio's monitor, or any signal of NetworkManager
Signal ==
    /\ Queue
    /\ UNCHANGED <<network, watchdog, connection, source, published, behind>>

WatchdogFires ==
    /\ watchdog = 0
    /\ watchdog' = Watchdog
    /\ Queue
    /\ UNCHANGED <<network, connection, source, published, behind>>

\* the source first, the event then
Publish ==
    /\ queued = 0
    /\ queued' = None /\ awaited' = None
    /\ source' = [source EXCEPT !.invalidated = TRUE]
    /\ published' = network.changes /\ behind' = 0
    /\ UNCHANGED <<network, watchdog, connection>>

Current == ~source.invalidated /\ source.snapshot # None /\ source.age < Deadline

\* A connection that no longer answers is given up, and asked for at the next read.
Snapshot ==
    /\ ~Current
    /\ connection' = network.bus
    /\ source' = [snapshot |-> IF network.bus THEN network.changes ELSE Fallback,
                  age |-> 0, invalidated |-> FALSE]
    /\ UNCHANGED <<network, queued, watchdog, published, behind, awaited>>

\* A timer that has come is served before time passes.
Tick ==
    /\ 0 \notin {queued, watchdog}
    /\ queued' = IF queued = None THEN None ELSE queued - 1
    /\ watchdog' = watchdog - 1
    /\ source' = IF source.age < Deadline THEN [source EXCEPT !.age = @ + 1] ELSE source
    /\ behind' = IF published = network.changes THEN 0 ELSE behind + 1
    /\ awaited' = IF awaited = None THEN None ELSE awaited + 1
    /\ UNCHANGED <<network, connection, published>>

Next == Change \/ Signal \/ WatchdogFires \/ Publish \/ Snapshot \/ Tick

Spec == Init /\ [][Next]_vars

-----------------------------------------------------------------------------
TypeOK ==
    /\ watchdog \in 0..Watchdog /\ queued \in 0..Debounce \cup {None}
    /\ source.age \in 0..Deadline /\ source.snapshot \in {None, Fallback} \cup 0..MaxChanges

\* The cards are asked again after the debounce of a signal, and after the watchdog when the
\* signal was lost (setup_network_monitor).
CardsAsked ==
    /\ awaited # None => awaited <= Debounce
    /\ behind <= Watchdog + Debounce

\* What they read then is not from before the event (NetworkSource::snapshot).
NoStaleSnapshot ==
    Current => source.snapshot = Fallback \/ source.snapshot >= published
=============================================================================
