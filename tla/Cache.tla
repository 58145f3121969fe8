------------------------------- MODULE Cache -------------------------------
(***************************************************************************)
(* The collections of one source: its node (src/window.rs, SourceNode), its*)
(* cache entry (src/core/cache.rs), the workers that start_scheduler_polling*)
(* spawns for the cards bound to it, and the receiver that accepts or      *)
(* rejects what they report (start_metric_receiver).                       *)
(*                                                                         *)
(* Source events arrive on the GTK main loop while workers run on the tokio*)
(* pool, so the steps of a worker are those between two lock operations.   *)
(* A value is the number of events since the start of the process that its *)
(* collection is known to have seen.                                       *)
(***************************************************************************)
EXTENDS Integers, Sequences, FiniteSets

CONSTANTS
    Workers,          \* collections that may be in flight at once
    Nobody,           \* no holder of a lock
    Outcomes,         \* how a collection may end: "healthy", "oversized", "failed"
    Upsets,           \* what may also happen: "forget", "restart", "chmod"
    IoPermits,        \* CACHE_IO_PERMITS
    CollectPermits    \* BLOCKING_COLLECTION_PERMITS

ASSUME CacheAssumption ==
    /\ Nobody \notin Workers
    /\ Outcomes \subseteq {"healthy", "oversized", "failed"}
    /\ Upsets \subseteq {"forget", "restart", "chmod"}
    /\ IoPermits \in Nat \ {0} /\ CollectPermits \in Nat \ {0}

VARIABLES
    world,            \* events of the source
    edges,            \* ... of which the cache has been told
    seed,             \* INVALIDATION_GENERATION_SEED
    state,            \* InvalidationState of the source
    memory, disk,     \* its entry in the memory cache and in the file
    nodes,            \* the source nodes created so far; the last is registered
    writeLock,        \* CACHE_WRITE_LOCK
    commitLock,       \* INVALIDATIONS, where it is held over several steps
    worker

vars == <<world, edges, seed, state, memory, disk, nodes, writeLock, commitLock, worker>>

-----------------------------------------------------------------------------
Absent == -1                  \* Option::None of an entry, a result, a read
Failed == -2                  \* a result that is not Normal
Entries == Nat \cup {Absent}
Results == Entries \cup {Failed}

Empty == [value |-> Absent, flushed |-> FALSE]

Unknown == 0                  \* no invalidation state: generations start at 1

Resting == {"idle", "shown", "rejected"}
Reading == {"memory", "file", "fill", "check"}
Storing == {"store", "compare", "confirm", "write", "commit", "insert"}
InIo    == Reading \cup Storing
Gated   == Reading \cup {"lookup", "collect", "sampling"}
Stages  == Resting \cup InIo \cup {"gate", "lookup", "collect", "sampling", "sampled", "deliver"}
Kinds   == {"none", "hit", "fresh", "lastgood"}

\* The locals of a worker: its node, the token it captured, what it has read of
\* the cache and for which of the two loads, and its result.
Worker == [at : Stages, node : Nat, token : Nat, seen : Nat, purpose : {"load", "fallback"},
           read : Entries, value : Results, kind : Kinds]

Rest(at) == [at |-> at, node |-> 0, token |-> Unknown, seen |-> 0, purpose |-> "load",
             read |-> Absent, value |-> Absent, kind |-> "none"]

NewNode == [generation |-> 0, lastGeneration |-> 0, last |-> Absent, gate |-> Nobody]

Init ==
    /\ world = 0 /\ edges = 0
    /\ seed = 1 /\ state = [generation |-> Unknown, dirty |-> FALSE]
    /\ memory = Empty /\ disk \in {Absent, 0}
    /\ nodes = <<NewNode>>
    /\ writeLock = Nobody /\ commitLock = Nobody
    /\ worker = [x \in Workers |-> Rest("idle")]

At(x, stage) == worker[x].at = stage
Goes(x, stage) == worker' = [worker EXCEPT ![x].at = stage]

Known       == state.generation # Unknown
Publishing  == world # edges          \* the main loop is inside publish_source_event
Unlocked    == commitLock = Nobody
FreeIo      == Cardinality({y \in Workers : worker[y].at \in InIo}) < IoPermits

\* A permit that its holder waits for once more.
FreeCollectTwice ==
    Cardinality({y \in Workers : worker[y].at \in {"collect", "sampling"}}) < CollectPermits

FreeCollect == Cardinality({y \in Workers : At(y, "sampling")}) < CollectPermits

-----------------------------------------------------------------------------
(* Source events: publish_source_event, invalidate_source then invalidate. *)

InvalidateSource ==
    /\ ~Publishing
    /\ world' = world + 1
    /\ nodes' = [nodes EXCEPT ![Len(nodes)].generation = @ + 1]
    /\ UNCHANGED <<edges, seed, state, memory, disk, writeLock, commitLock, worker>>

Invalidated(s, fresh) ==
    [generation |-> (IF s.generation = Unknown THEN fresh ELSE s.generation) + 1, dirty |-> TRUE]

InvalidateCache ==
    /\ Publishing /\ Unlocked
    /\ edges' = world
    /\ state' = Invalidated(state, seed)
    /\ seed' = IF Known THEN seed ELSE seed + 1
    /\ UNCHANGED <<world, memory, disk, nodes, writeLock, commitLock, worker>>

-----------------------------------------------------------------------------
(* A worker is spawned, takes the gate of its node and looks for a fresh   *)
(* entry: load_with_budget.                                                *)

\* invalidation_token creates the state of a source it does not know.
Begin(x) ==
    LET generation == IF Known THEN state.generation ELSE seed
    IN  /\ worker[x].at \in Resting
        /\ ~Publishing /\ Unlocked
        /\ state' = [state EXCEPT !.generation = generation]
        /\ seed' = IF Known THEN seed ELSE seed + 1
        /\ worker' = [worker EXCEPT ![x] =
               [Rest("gate") EXCEPT !.node = Len(nodes), !.token = generation]]
        /\ UNCHANGED <<world, edges, memory, disk, nodes, writeLock, commitLock>>

TakeGate(x) ==
    /\ At(x, "gate")
    /\ nodes[worker[x].node].gate = Nobody
    /\ nodes' = [nodes EXCEPT ![worker[x].node].gate = x]
    /\ Goes(x, "lookup")
    /\ UNCHANGED <<world, edges, seed, state, memory, disk, writeLock, commitLock>>

\* No lookup without a time to live or a period.
SkipLoad(x) ==
    /\ At(x, "lookup")
    /\ Goes(x, "collect")
    /\ UNCHANGED <<world, edges, seed, state, memory, disk, nodes, writeLock, commitLock>>

LoadBegin(x) ==
    /\ At(x, "lookup") /\ FreeIo /\ Unlocked
    /\ worker' = [worker EXCEPT
           ![x].at = IF state.dirty THEN "collect" ELSE "memory",
           ![x].seen = IF state.dirty THEN 0 ELSE state.generation]
    /\ UNCHANGED <<world, edges, seed, state, memory, disk, nodes, writeLock, commitLock>>

\* read_entry: the memory entry, else the file, which then enters the memory.
ReadMemory(x) ==
    /\ At(x, "memory")
    /\ worker' = [worker EXCEPT ![x].at = IF memory = Empty THEN "file" ELSE "check",
                                ![x].read = memory.value]
    /\ UNCHANGED <<world, edges, seed, state, memory, disk, nodes, writeLock, commitLock>>

ReadFile(x) ==
    /\ At(x, "file")
    /\ \E found \in {disk, Absent} :      \* the file may be damaged or too large
           worker' = [worker EXCEPT ![x].at = IF found = Absent THEN "check" ELSE "fill",
                                    ![x].read = found]
    /\ UNCHANGED <<world, edges, seed, state, memory, disk, nodes, writeLock, commitLock>>

\* The entry of a file taken as just written.
FilledFlushed(x) == [value |-> worker[x].read, flushed |-> TRUE]

Filled(x) == [value |-> worker[x].read, flushed |-> FALSE]

FillMemory(x) ==
    /\ At(x, "fill")
    /\ memory' = Filled(x)
    /\ Goes(x, "check")
    /\ UNCHANGED <<world, edges, seed, state, disk, nodes, writeLock, commitLock>>

StillCurrent(x) == Known => ~state.dirty /\ state.generation = worker[x].seen

\* The gate kept on a cache hit.
ReleasedNever(x) == nodes

Released(x) == [nodes EXCEPT ![worker[x].node].gate = Nobody]

\* The end of load_with_budget; an entry may be too old or of another period.
LoadHit(x) ==
    /\ At(x, "check") /\ worker[x].purpose = "load" /\ Unlocked
    /\ worker[x].read # Absent /\ StillCurrent(x)
    /\ worker' = [worker EXCEPT ![x].at = "deliver", ![x].value = worker[x].read,
                                ![x].kind = "hit", ![x].read = Absent, ![x].seen = 0]
    /\ nodes' = Released(x)
    /\ UNCHANGED <<world, edges, seed, state, memory, disk, writeLock, commitLock>>

LoadMiss(x) ==
    /\ At(x, "check") /\ worker[x].purpose = "load" /\ Unlocked
    /\ worker' = [worker EXCEPT ![x].at = "collect", ![x].read = Absent, ![x].seen = 0]
    /\ UNCHANGED <<world, edges, seed, state, memory, disk, nodes, writeLock, commitLock>>

-----------------------------------------------------------------------------
(* The collection: SourceNode::collect and collect_async.                  *)

Kind(value) == IF value = Failed THEN "none" ELSE "fresh"

\* Within the coalescing window, or if it ended after this worker was spawned,
\* the last result serves again.
Coalesce(x) ==
    LET node == nodes[worker[x].node]
    IN  /\ At(x, "collect") /\ FreeCollect
        /\ node.last # Absent /\ node.lastGeneration = node.generation
        /\ worker' = [worker EXCEPT ![x].at = "sampled", ![x].value = node.last,
                                    ![x].kind = Kind(node.last)]
        /\ nodes' = Released(x)
        /\ UNCHANGED <<world, edges, seed, state, memory, disk, writeLock, commitLock>>

\* The generation is that before the sample, whatever happens during it; the
\* sample sees at least the events so far.
CollectBegin(x) ==
    /\ At(x, "collect") /\ FreeCollect
    /\ worker' = [worker EXCEPT ![x].at = "sampling", ![x].value = world,
                                ![x].seen = nodes[worker[x].node].generation]
    /\ UNCHANGED <<world, edges, seed, state, memory, disk, nodes, writeLock, commitLock>>

\* The generation read after the sample.
RememberedLate(x, value) ==
    [nodes[worker[x].node] EXCEPT !.last = value,
        !.lastGeneration = nodes[worker[x].node].generation, !.gate = Nobody]

\* What the node keeps; the gate is released after it.
Remembered(x, value) ==
    [nodes[worker[x].node] EXCEPT !.last = value, !.lastGeneration = worker[x].seen,
                                  !.gate = Nobody]

CollectEnd(x, outcome) ==
    LET value == IF outcome = "failed" THEN Failed ELSE worker[x].value
    IN  /\ At(x, "sampling")
        /\ nodes' = [nodes EXCEPT ![worker[x].node] = Remembered(x, value)]
        /\ worker' = [worker EXCEPT ![x].at = "sampled", ![x].value = value,
                                    ![x].kind = Kind(value), ![x].seen = 0]
        /\ UNCHANGED <<world, edges, seed, state, memory, disk, writeLock, commitLock>>

-----------------------------------------------------------------------------
(* A healthy result is stored: store_if_current.  One that failed or is    *)
(* over the output budget is replaced by the last good value:              *)
(* load_last_good_with_max_age_and_budget.                                 *)

Oversized(x) == "oversized" \in Outcomes /\ worker[x].value # Failed

SkipStore(x) ==
    /\ At(x, "sampled")
    /\ Goes(x, "deliver")
    /\ UNCHANGED <<world, edges, seed, state, memory, disk, nodes, writeLock, commitLock>>

FallbackBegin(x) ==
    /\ At(x, "sampled") /\ FreeIo
    /\ worker[x].value = Failed \/ Oversized(x)
    /\ worker' = [worker EXCEPT ![x].at = "memory", ![x].purpose = "fallback"]
    /\ UNCHANGED <<world, edges, seed, state, memory, disk, nodes, writeLock, commitLock>>

Fallback(x) ==
    /\ At(x, "check") /\ worker[x].purpose = "fallback"
    /\ \/ /\ worker[x].read # Absent
          /\ worker' = [worker EXCEPT ![x].at = "deliver", ![x].value = worker[x].read,
                                      ![x].kind = "lastgood", ![x].read = Absent]
       \/ worker' = [worker EXCEPT ![x].at = "deliver", ![x].read = Absent]
    /\ UNCHANGED <<world, edges, seed, state, memory, disk, nodes, writeLock, commitLock>>

StoreBegin(x) ==
    /\ At(x, "sampled") /\ worker[x].value # Failed /\ FreeIo
    /\ writeLock = Nobody
    /\ writeLock' = x
    /\ Goes(x, "store")
    /\ UNCHANGED <<world, edges, seed, state, memory, disk, nodes, commitLock>>

IsCurrent(x) == Known /\ state.generation = worker[x].token

\* Every way out of store_if_current leaves the write lock.
StoreEnds(x) == Goes(x, "deliver") /\ writeLock' = Nobody

StoreCheck(x) ==
    /\ At(x, "store") /\ Unlocked
    /\ \/ IsCurrent(x) /\ Goes(x, "compare") /\ UNCHANGED writeLock
       \/ StoreEnds(x)                        \* stale, or no cache directory
    /\ UNCHANGED <<world, edges, seed, state, memory, disk, nodes, commitLock>>

\* An unchanged value is written again only if the memory entry is that of a file, or
\* of a store more than five minutes ago.
StoreCompare(x) ==
    /\ At(x, "compare")
    /\ \/ Goes(x, "write")
       \/ /\ memory = [value |-> worker[x].value, flushed |-> TRUE]
          /\ Goes(x, "confirm")
    /\ UNCHANGED <<world, edges, seed, state, memory, disk, nodes, writeLock, commitLock>>

StoreConfirm(x) ==
    /\ At(x, "confirm") /\ Unlocked
    /\ StoreEnds(x)
    /\ state' = IF IsCurrent(x) THEN [state EXCEPT !.dirty = FALSE] ELSE state
    /\ UNCHANGED <<world, edges, seed, memory, disk, nodes, commitLock>>

\* The temporary file, which may fail.
StoreWrite(x) ==
    /\ At(x, "write")
    /\ \/ Goes(x, "commit") /\ UNCHANGED writeLock
       \/ StoreEnds(x)
    /\ UNCHANGED <<world, edges, seed, state, memory, disk, nodes, commitLock>>

\* The token not compared again after the write.
CommitsUnchecked(x) == Known

Commits(x) == IsCurrent(x)

\* From the last check to the end of the commit the invalidation state is locked;
\* the renamed file is visible to readers before the memory entry is.
StoreCommit(x) ==
    /\ At(x, "commit") /\ Unlocked
    /\ \/ /\ Commits(x)
          /\ disk' = worker[x].value
          /\ \/ Goes(x, "insert") /\ commitLock' = x /\ UNCHANGED writeLock
             \/ /\ "chmod" \in Upsets                       \* set_permissions failed
                /\ StoreEnds(x) /\ UNCHANGED commitLock
       \/ /\ StoreEnds(x)                                  \* stale, or rename failed
          /\ UNCHANGED <<disk, commitLock>>
    /\ UNCHANGED <<world, edges, seed, state, memory, nodes>>

StoreInsert(x) ==
    /\ At(x, "insert")
    /\ memory' = [value |-> worker[x].value, flushed |-> TRUE]
    /\ state' = [state EXCEPT !.dirty = FALSE]
    /\ StoreEnds(x)
    /\ commitLock' = Nobody
    /\ UNCHANGED <<world, edges, seed, disk, nodes>>

-----------------------------------------------------------------------------
(* The receiver.                                                           *)

Accepts(x) == Known /\ state.generation = worker[x].token

\* A rejected completion frees the slot of its card and shows nothing; so does one
\* whose card was removed or rebound, or that was collected under another budget.
Deliver(x) ==
    /\ At(x, "deliver")
    /\ ~Publishing /\ Unlocked
    /\ \/ Accepts(x) /\ worker' = [worker EXCEPT ![x] = Rest("shown")]
       \/ worker' = [worker EXCEPT ![x] = Rest("rejected")]
    /\ UNCHANGED <<world, edges, seed, state, memory, disk, nodes, writeLock, commitLock>>

-----------------------------------------------------------------------------
(* Other sources push the entry out of the memory; the janitor or a reader *)
(* that finds it damaged removes the file; other sources draw generations. *)

Evict ==
    /\ memory # Empty
    /\ memory' = Empty
    /\ UNCHANGED <<world, edges, seed, state, disk, nodes, writeLock, commitLock, worker>>

RemoveFile ==
    /\ disk # Absent
    /\ disk' = Absent
    /\ UNCHANGED <<world, edges, seed, state, memory, nodes, writeLock, commitLock, worker>>

OtherSource ==
    /\ ~Publishing
    /\ seed' = seed + 1
    /\ UNCHANGED <<world, edges, state, memory, disk, nodes, writeLock, commitLock, worker>>

\* The last card of the source is removed: prune_source_nodes and forget.  A later
\* run, of a card added again, builds a node of its own.
Forget ==
    /\ "forget" \in Upsets
    /\ ~Publishing /\ Unlocked
    /\ state' = [generation |-> Unknown, dirty |-> FALSE]
    /\ memory' = Empty
    /\ nodes' = Append(nodes, NewNode)
    /\ UNCHANGED <<world, edges, seed, disk, writeLock, commitLock, worker>>

\* The process ends at any point and is started again.  Only the file remains, and no
\* process knows of the events before it: they count from its start.
Restart ==
    /\ "restart" \in Upsets
    /\ world' = 0 /\ edges' = 0
    /\ seed' = 1 /\ state' = [generation |-> Unknown, dirty |-> FALSE]
    /\ memory' = Empty
    /\ disk' = IF disk = Absent THEN Absent ELSE 0
    /\ nodes' = <<NewNode>>
    /\ writeLock' = Nobody /\ commitLock' = Nobody
    /\ worker' = [x \in Workers |-> Rest("idle")]

-----------------------------------------------------------------------------
Publish == InvalidateSource \/ InvalidateCache

Load(x) ==
    \/ SkipLoad(x) \/ LoadBegin(x) \/ ReadMemory(x) \/ ReadFile(x) \/ FillMemory(x)
    \/ LoadHit(x) \/ LoadMiss(x)

Collect(x) ==
    \/ Coalesce(x) \/ CollectBegin(x)
    \/ \E outcome \in Outcomes : CollectEnd(x, outcome)

Store(x) ==
    \/ StoreBegin(x) \/ StoreCheck(x) \/ StoreCompare(x) \/ StoreConfirm(x)
    \/ StoreWrite(x) \/ StoreCommit(x) \/ StoreInsert(x)

Finish(x) == SkipStore(x) \/ FallbackBegin(x) \/ Fallback(x) \/ Deliver(x)

Work(x) == TakeGate(x) \/ Load(x) \/ Collect(x) \/ Store(x) \/ Finish(x)

Environment == Evict \/ RemoveFile \/ OtherSource \/ Forget \/ Restart

Next == Publish \/ Environment \/ \E x \in Workers : Begin(x) \/ Work(x)

Spec == Init /\ [][Next]_vars

\* The gate and the permits of tokio are handed over in the order of the requests,
\* the main loop ends an event before it takes the next.
FairSpec == Spec /\ WF_vars(InvalidateCache) /\ \A x \in Workers : SF_vars(Work(x))

-----------------------------------------------------------------------------
(* Properties.                                                             *)

Node == [generation : Nat, lastGeneration : Nat, last : Results, gate : Workers \cup {Nobody}]

Typed ==
    /\ world \in Nat /\ edges \in Nat /\ seed \in Nat \ {0}
    /\ state \in [generation : Nat, dirty : BOOLEAN]
    /\ memory \in [value : Entries, flushed : BOOLEAN] /\ disk \in Entries
    /\ nodes \in Seq(Node)
    /\ writeLock \in Workers \cup {Nobody} /\ commitLock \in Workers \cup {Nobody}
    /\ worker \in [Workers -> Worker]

HoldsGate(x) == worker[x].at \in Gated /\ worker[x].purpose = "load"

LocksHeld ==
    \A x \in Workers :
        /\ worker[x].at \in Resting \/ worker[x].node \in DOMAIN nodes
        /\ \A n \in DOMAIN nodes : nodes[n].gate = x <=> HoldsGate(x) /\ worker[x].node = n
        /\ writeLock = x <=> worker[x].at \in Storing
        /\ commitLock = x <=> At(x, "insert")

\* Every variable keeps its type, and the gate of a node, the write lock and the
\* invalidation lock are each held by exactly the worker inside their section: no way
\* out of a collection or a store keeps one, and none is entered without it.
TypeOK == Typed /\ LocksHeld

\* A file that is written holds no value older than the last event the cache was
\* told of, however long its worker was overtaken (store_if_current checks the token
\* before and after the write).
CommitCurrent ==
    [][disk' # disk /\ disk' # Absent => disk' >= edges']_vars

\* While the source is not marked dirty its file, which a fresh load may replay, is
\* no older than the last event, also while another worker is between the rename and
\* the memory entry.
DiskClean ==
    Known /\ ~state.dirty => disk = Absent \/ disk >= edges

\* A card never shows as fresh a value that its source has overtaken: neither a
\* cache hit, nor a sample, nor the result of another worker that was shared.
ShownCurrent ==
    [][\A x \in Workers :
          At(x, "deliver") /\ worker'[x].at = "shown" /\ worker[x].kind \in {"hit", "fresh"}
              => worker[x].value >= edges]_vars

\* Every worker that waits for its source's gate delivers in the end: no way through
\* the cache, the collection or a failure keeps the gate, a permit or a lock.
EveryRunEnds ==
    \A x \in Workers : At(x, "gate") ~> worker[x].at \in Resting

\* What cache.rs says of a fresh load: an event is never followed by a cache hit on
\* the value before it.
NoReplay ==
    [][\A x \in Workers :
          At(x, "deliver") /\ worker'[x].at = "shown" /\ worker[x].kind = "hit"
              => worker[x].value >= edges]_vars
=============================================================================
