---------------------------- MODULE CacheProofs ----------------------------
(***************************************************************************)
(* Proofs about Cache.  The locks and types hold for any workers, permits, *)
(* outcomes and upsets.  As long as the source is not removed, no stale    *)
(* value is committed or left in the file as current; as long as every     *)
(* collection is healthy too, none is shown.                               *)
(***************************************************************************)
EXTENDS Cache, SequenceTheorems, TLAPS

-----------------------------------------------------------------------------
(* Steps of a worker: its record before and after. *)

Workings == [Workers -> Worker]

\* The effect of a step on the worker that takes it.
Becomes(x, w) ==
    /\ w \in Worker
    /\ worker' \in Workings
    /\ worker'[x] = w
    /\ \A y \in Workers : y # x => worker'[y] = worker[y]

LEMMA Effect ==
  ASSUME worker \in Workings, NEW x \in Workers, NEW w \in Worker,
         worker' = [worker EXCEPT ![x] = w]
  PROVE  Becomes(x, w)
  BY DEF Becomes, Workings

\* The record of a worker that only goes on to its next stage.
To(x, stage) == [worker[x] EXCEPT !.at = stage]

LEMMA GoesEffect ==
  ASSUME worker \in Workings, NEW x \in Workers, NEW stage \in Stages, Goes(x, stage)
  PROVE  Becomes(x, To(x, stage))
<1>1. worker[x] \in Worker
  BY DEF Workings
<1>2. To(x, stage) \in Worker
  BY <1>1 DEF Worker, To
<1>3. worker' = [worker EXCEPT ![x] = To(x, stage)]
  BY DEF Goes, To
<1> QED BY <1>2, <1>3, Effect

-----------------------------------------------------------------------------
(* Types and locks. *)

\* What the stages of a worker say of its locals.
Stage(w) ==
    /\ w.at \in {"gate", "lookup", "collect", "sampling", "sampled"} \cup Storing
           => w.purpose = "load"
    /\ w.at \in {"sampling"} \cup Storing => w.value \in Nat
    /\ w.at = "sampled" => w.value # Absent
    /\ w.at = "fill" => w.read # Absent

Staged == \A x \in Workers : Stage(worker[x])

\* The types of what the workers share.
Shared ==
    /\ world \in Nat /\ edges \in Nat /\ seed \in Nat \ {0}
    /\ state \in [generation : Nat, dirty : BOOLEAN]
    /\ memory \in [value : Entries, flushed : BOOLEAN] /\ disk \in Entries
    /\ nodes \in Seq(Node) /\ nodes # <<>>
    /\ writeLock \in Workers \cup {Nobody} /\ commitLock \in Workers \cup {Nobody}

TypeInv == Shared /\ worker \in Workings /\ LocksHeld /\ Staged

LEMMA StagedKept ==
  ASSUME Staged, NEW x \in Workers, NEW w, Becomes(x, w), Stage(w)
  PROVE  Staged'
  BY DEF Staged, Becomes

\* One node of the sequence replaced.
LEMMA NodeChanged ==
  ASSUME nodes \in Seq(Node), NEW n \in DOMAIN nodes, NEW m \in Node,
         nodes' = [nodes EXCEPT ![n] = m]
  PROVE  /\ nodes' \in Seq(Node) /\ Len(nodes') = Len(nodes) /\ DOMAIN nodes' = DOMAIN nodes
         /\ \A i \in DOMAIN nodes : nodes'[i] = IF i = n THEN m ELSE nodes[i]
<1>1. n \in 1..Len(nodes) /\ DOMAIN nodes = 1..Len(nodes)
  OBVIOUS
<1>2. nodes' \in Seq(Node) /\ Len(nodes') = Len(nodes)
  BY <1>1, ExceptSeq
<1> QED BY <1>1, <1>2

\* A step within a section neither takes nor gives back what the section holds.
LEMMA LocksKept ==
  ASSUME TypeInv, NEW x \in Workers, NEW w, Becomes(x, w),
         nodes' = nodes, writeLock' = writeLock, commitLock' = commitLock,
         w.node = worker[x].node, worker[x].at \notin Resting,
         w.at \in Gated /\ w.purpose = "load" <=> HoldsGate(x),
         w.at \in Storing <=> worker[x].at \in Storing,
         w.at = "insert" <=> At(x, "insert")
  PROVE  LocksHeld'
  BY DEF TypeInv, LocksHeld, Becomes, HoldsGate, At

\* The worker's record, its node and the ownership of its gate, as facts of their own.
LEMMA WorkerHere ==
  ASSUME TypeInv, NEW x \in Workers
  PROVE  /\ worker \in Workings /\ worker[x] \in Worker /\ Stage(worker[x])
         /\ worker[x].at \notin Resting =>
              /\ worker[x].node \in DOMAIN nodes
              /\ nodes[worker[x].node] \in Node
              /\ nodes[worker[x].node].gate = x <=> HoldsGate(x)
<1>1. worker \in Workings /\ worker[x] \in Worker /\ nodes \in Seq(Node)
  BY DEF TypeInv, Shared, Workings
<1>2. ASSUME worker[x].at \notin Resting
      PROVE  worker[x].node \in DOMAIN nodes /\ (nodes[worker[x].node].gate = x <=> HoldsGate(x))
  BY <1>2 DEF TypeInv, LocksHeld
<1> QED BY <1>1, <1>2 DEF TypeInv, Staged

LEMMA TakeGateTypeInv ==
  ASSUME CacheAssumption, TypeInv, NEW x \in Workers, TakeGate(x) PROVE TypeInv'
<1> DEFINE n == worker[x].node
           w == To(x, "lookup")
           m == [nodes[n] EXCEPT !.gate = x]
<1>1. worker \in Workings /\ worker[x] \in Worker /\ n \in DOMAIN nodes /\ nodes[n] \in Node
  BY WorkerHere DEF TakeGate, At, Resting
<1>2. Becomes(x, w)
  BY <1>1, GoesEffect DEF TakeGate, Stages
<1>3. m \in Node /\ nodes' = [nodes EXCEPT ![n] = m]
  BY <1>1 DEF TakeGate, Node
<1>4. /\ nodes' \in Seq(Node) /\ nodes' # <<>> /\ DOMAIN nodes' = DOMAIN nodes
      /\ \A i \in DOMAIN nodes : nodes'[i] = IF i = n THEN m ELSE nodes[i]
  <2>1. nodes \in Seq(Node)
    BY DEF TypeInv, Shared
  <2> HIDE DEF m, n
  <2> QED BY <1>1, <1>3, <2>1, NodeChanged
<1>5. Shared' /\ worker' \in Workings
  BY <1>2, <1>4 DEF TypeInv, Shared, TakeGate, Becomes
<1>6. LocksHeld'
  <2>1. w.at = "lookup" /\ w.node = n /\ w.purpose = "load"
    BY <1>1, WorkerHere DEF To, Worker, Stage, TakeGate, At
  <2>2. m.gate = x /\ nodes[n].gate = Nobody
    BY <1>1 DEF Node, TakeGate
  <2> HIDE DEF w, m
  <2> QED BY <1>1, <1>2, <1>4, <2>1, <2>2 DEF CacheAssumption, TypeInv, LocksHeld, TakeGate, HoldsGate, Becomes, At, Resting, Storing, Gated, Reading
<1>7. Staged'
  BY <1>1, <1>2, StagedKept, WorkerHere DEF TypeInv, Stage, TakeGate, To, At, Storing, Worker
<1> QED BY <1>5, <1>6, <1>7 DEF TypeInv


\* The gate of a node handed back with what else changes in it.
LEMMA GateReleased ==
  ASSUME CacheAssumption, TypeInv, NEW x \in Workers, NEW w, Becomes(x, w), NEW m \in Node,
         HoldsGate(x), m.gate = Nobody, w.node = worker[x].node,
         w.at \in {"sampled", "deliver"},
         nodes' = [nodes EXCEPT ![worker[x].node] = m],
         writeLock' = writeLock, commitLock' = commitLock
  PROVE  nodes' \in Seq(Node) /\ nodes' # <<>> /\ LocksHeld'
<1> DEFINE n == worker[x].node
<1>1. worker[x] \in Worker /\ n \in DOMAIN nodes /\ nodes \in Seq(Node)
  BY WorkerHere DEF HoldsGate, Gated, Resting, Reading, TypeInv, Shared
<1>2. /\ nodes' \in Seq(Node) /\ nodes' # <<>> /\ DOMAIN nodes' = DOMAIN nodes
      /\ \A i \in DOMAIN nodes : nodes'[i] = IF i = n THEN m ELSE nodes[i]
  BY <1>1, NodeChanged
<1>3. nodes[n].gate = x
  BY <1>1 DEF TypeInv, LocksHeld
<1>4. x # Nobody /\ worker[x].at \notin Storing /\ worker[x].at # "insert"
  BY DEF CacheAssumption, HoldsGate, Gated, Storing, Reading
<1>5. LocksHeld'
  BY <1>1, <1>2, <1>3, <1>4 DEF CacheAssumption, TypeInv, LocksHeld, HoldsGate, Becomes, At, Resting, Storing, Gated, Reading
<1> QED BY <1>2, <1>5

\* A step of a worker within its section, that takes and leaves no lock.
LEMMA Within ==
  ASSUME TypeInv, NEW x \in Workers, NEW w \in Worker, worker' = [worker EXCEPT ![x] = w],
         Shared', UNCHANGED <<nodes, writeLock, commitLock>>,
         Stage(w), w.node = worker[x].node, worker[x].at \notin Resting,
         w.at \in Gated /\ w.purpose = "load" <=> HoldsGate(x),
         w.at \in Storing <=> worker[x].at \in Storing,
         w.at = "insert" <=> At(x, "insert")
  PROVE  TypeInv'
<1>1. Becomes(x, w)
  BY Effect, WorkerHere
<1>2. LocksHeld' /\ Staged'
  BY <1>1, LocksKept, StagedKept DEF TypeInv
<1> QED BY <1>1, <1>2 DEF TypeInv, Shared, Becomes

LEMMA LoadTypeInv ==
  ASSUME CacheAssumption, TypeInv, NEW x \in Workers,
         SkipLoad(x) \/ LoadBegin(x) \/ ReadMemory(x) \/ ReadFile(x) \/ FillMemory(x) \/ LoadMiss(x)
  PROVE TypeInv'
<1> DEFINE r == worker[x]
<1>1. worker \in Workings /\ r \in Worker /\ Stage(r) /\ Shared
  BY WorkerHere DEF TypeInv
<1> USE DEF Worker, Stage, At, Resting, Stages, Storing, InIo, Reading, Gated, HoldsGate
<1>2. CASE SkipLoad(x)
  <2> DEFINE w == To(x, "collect")
  <2>1. w \in Worker /\ worker' = [worker EXCEPT ![x] = w]
    BY <1>1, <1>2 DEF SkipLoad, Goes, To
  <2>2. /\ Stage(w) /\ w.node = r.node /\ r.at \notin Resting /\ w.at \notin Storing
        /\ r.at \notin Storing /\ (w.at \in Gated /\ w.purpose = "load" <=> HoldsGate(x))
    BY <1>1, <1>2 DEF SkipLoad, To
  <2>3. Shared' /\ UNCHANGED <<nodes, writeLock, commitLock>>
    BY <1>1, <1>2 DEF SkipLoad, Shared
  <2> QED BY <2>1, <2>2, <2>3, Within
<1>3. CASE LoadBegin(x)
  <2> DEFINE w == [r EXCEPT !.at = IF state.dirty THEN "collect" ELSE "memory",
                            !.seen = IF state.dirty THEN 0 ELSE state.generation]
  <2>1. w \in Worker /\ worker' = [worker EXCEPT ![x] = w]
    BY <1>1, <1>3 DEF LoadBegin, Shared
  <2>2. /\ Stage(w) /\ w.node = r.node /\ r.at \notin Resting /\ w.at \notin Storing
        /\ r.at \notin Storing /\ (w.at \in Gated /\ w.purpose = "load" <=> HoldsGate(x))
    BY <1>1, <1>3 DEF LoadBegin
  <2>3. Shared' /\ UNCHANGED <<nodes, writeLock, commitLock>>
    BY <1>1, <1>3 DEF LoadBegin, Shared
  <2> QED BY <2>1, <2>2, <2>3, Within
<1>4. CASE ReadMemory(x)
  <2> DEFINE w == [r EXCEPT !.at = IF memory = Empty THEN "file" ELSE "check", !.read = memory.value]
  <2>1. w \in Worker /\ worker' = [worker EXCEPT ![x] = w]
    <3>1. memory.value \in Entries
      BY <1>1 DEF Shared
    <3> QED BY <1>1, <1>4, <3>1 DEF ReadMemory
  <2>2. /\ Stage(w) /\ w.node = r.node /\ r.at \notin Resting /\ w.at \notin Storing
        /\ r.at \notin Storing /\ (w.at \in Gated /\ w.purpose = "load" <=> HoldsGate(x))
    BY <1>1, <1>4 DEF ReadMemory
  <2>3. UNCHANGED <<world, edges, seed, state, memory, disk, nodes, writeLock, commitLock>>
    BY <1>4 DEF ReadMemory
  <2>4. Shared' /\ UNCHANGED <<nodes, writeLock, commitLock>>
    BY <1>1, <2>3 DEF Shared
  <2> HIDE DEF w
  <2> QED BY <2>1, <2>2, <2>4, Within
<1>5. CASE ReadFile(x)
  <2>1. PICK found \in {disk, Absent} :
           worker' = [worker EXCEPT ![x].at = IF found = Absent THEN "check" ELSE "fill",
                                    ![x].read = found]
    BY <1>5 DEF ReadFile
  <2> DEFINE w == [r EXCEPT !.at = IF found = Absent THEN "check" ELSE "fill", !.read = found]
  <2>2. w \in Worker /\ worker' = [worker EXCEPT ![x] = w]
    <3>1. found \in Entries
      BY <1>1 DEF Shared, Entries
    <3> QED BY <1>1, <2>1, <3>1
  <2>3. /\ Stage(w) /\ w.node = r.node /\ r.at \notin Resting /\ w.at \notin Storing
        /\ r.at \notin Storing /\ (w.at \in Gated /\ w.purpose = "load" <=> HoldsGate(x))
    BY <1>1, <1>5 DEF ReadFile
  <2>4. Shared' /\ UNCHANGED <<nodes, writeLock, commitLock>>
    BY <1>1, <1>5 DEF ReadFile, Shared
  <2> QED BY <2>2, <2>3, <2>4, Within
<1>6. CASE FillMemory(x)
  <2> DEFINE w == To(x, "check")
  <2>1. w \in Worker /\ worker' = [worker EXCEPT ![x] = w]
    BY <1>1, <1>6 DEF FillMemory, Goes, To
  <2>2. /\ Stage(w) /\ w.node = r.node /\ r.at \notin Resting /\ w.at \notin Storing
        /\ r.at \notin Storing /\ (w.at \in Gated /\ w.purpose = "load" <=> HoldsGate(x))
    BY <1>1, <1>6 DEF FillMemory, To
  <2>3. Shared' /\ UNCHANGED <<nodes, writeLock, commitLock>>
    BY <1>1, <1>6 DEF FillMemory, Filled, Shared
  <2> QED BY <2>1, <2>2, <2>3, Within
<1>7. CASE LoadMiss(x)
  <2> DEFINE w == [r EXCEPT !.at = "collect", !.read = Absent, !.seen = 0]
  <2>1. w \in Worker /\ worker' = [worker EXCEPT ![x] = w]
    BY <1>1, <1>7 DEF LoadMiss, Entries
  <2>2. /\ Stage(w) /\ w.node = r.node /\ r.at \notin Resting /\ w.at \notin Storing
        /\ r.at \notin Storing /\ (w.at \in Gated /\ w.purpose = "load" <=> HoldsGate(x))
    BY <1>1, <1>7 DEF LoadMiss
  <2>3. Shared' /\ UNCHANGED <<nodes, writeLock, commitLock>>
    BY <1>1, <1>7 DEF LoadMiss, Shared
  <2> QED BY <2>1, <2>2, <2>3, Within
<1> QED BY <1>2, <1>3, <1>4, <1>5, <1>6, <1>7

LEMMA CollectTypeInv ==
  ASSUME CacheAssumption, TypeInv, NEW x \in Workers,
         LoadHit(x) \/ Collect(x)
  PROVE TypeInv'
<1> DEFINE r == worker[x]
           n == worker[x].node
<1>1. worker \in Workings /\ r \in Worker /\ Stage(r) /\ Shared
  BY WorkerHere DEF TypeInv
<1> USE DEF Worker, Stage, At, Stages, Storing, InIo, Reading, Gated
<1>2. CASE LoadHit(x)
  <2> DEFINE w == [r EXCEPT !.at = "deliver", !.value = r.read, !.kind = "hit",
                            !.read = Absent, !.seen = 0]
             m == [nodes[n] EXCEPT !.gate = Nobody]
  <2>1. w \in Worker /\ worker' = [worker EXCEPT ![x] = w]
    BY <1>1, <1>2 DEF LoadHit, Entries, Results, Kinds
  <2>2. HoldsGate(x) /\ nodes[n] \in Node
    BY <1>1, <1>2, WorkerHere DEF LoadHit, HoldsGate, Resting
  <2>3. m \in Node /\ m.gate = Nobody /\ nodes' = [nodes EXCEPT ![n] = m]
    BY <1>2, <2>2 DEF LoadHit, Released, Node
  <2>4. Stage(w) /\ w.node = n /\ w.at = "deliver"
    BY <1>1 
  <2>5. UNCHANGED <<world, edges, seed, state, memory, disk, writeLock, commitLock>>
    BY <1>2 DEF LoadHit
  <2> HIDE DEF w, m
  <2>6. Becomes(x, w)
    BY <1>1, <2>1, Effect
  <2>7. nodes' \in Seq(Node) /\ nodes' # <<>> /\ LocksHeld' /\ Staged'
    BY <2>2, <2>3, <2>4, <2>5, <2>6, GateReleased, StagedKept DEF TypeInv
  <2> QED BY <1>1, <2>5, <2>6, <2>7 DEF TypeInv, Shared, Becomes
<1>3. CASE Coalesce(x)
  <2> DEFINE node == nodes[n]
             w == [r EXCEPT !.at = "sampled", !.value = node.last, !.kind = Kind(node.last)]
             m == [nodes[n] EXCEPT !.gate = Nobody]
  <2>1. HoldsGate(x) /\ node \in Node
    BY <1>1, <1>3, WorkerHere DEF Coalesce, HoldsGate, Resting
  <2>2. node.last \in Results /\ node.last # Absent /\ Kind(node.last) \in Kinds
    BY <1>3, <2>1 DEF Node, Coalesce, Kind, Kinds
  <2>3. w \in Worker /\ worker' = [worker EXCEPT ![x] = w]
    BY <1>1, <1>3, <2>2 DEF Coalesce
  <2>4. m \in Node /\ m.gate = Nobody /\ nodes' = [nodes EXCEPT ![n] = m]
    BY <1>3, <2>1 DEF Coalesce, Released, Node
  <2>5. Stage(w) /\ w.node = n /\ w.at = "sampled"
    BY <1>1, <1>3, <2>2 DEF Coalesce
  <2>6. UNCHANGED <<world, edges, seed, state, memory, disk, writeLock, commitLock>>
    BY <1>3 DEF Coalesce
  <2> HIDE DEF w, m
  <2>7. Becomes(x, w)
    BY <1>1, <2>3, Effect
  <2>8. nodes' \in Seq(Node) /\ nodes' # <<>> /\ LocksHeld' /\ Staged'
    BY <2>1, <2>4, <2>5, <2>6, <2>7, GateReleased, StagedKept DEF TypeInv
  <2> QED BY <1>1, <2>6, <2>7, <2>8 DEF TypeInv, Shared, Becomes
<1>4. CASE CollectBegin(x)
  <2> DEFINE w == [r EXCEPT !.at = "sampling", !.value = world, !.seen = nodes[n].generation]
  <2>1. HoldsGate(x) /\ nodes[n] \in Node
    BY <1>1, <1>4, WorkerHere DEF CollectBegin, HoldsGate, Resting
  <2>2. world \in Results /\ world \in Nat /\ nodes[n].generation \in Nat
    BY <1>1, <2>1 DEF Shared, Node, Results, Entries
  <2>3. w \in Worker /\ worker' = [worker EXCEPT ![x] = w]
    BY <1>1, <1>4, <2>2 DEF CollectBegin
  <2>4. /\ Stage(w) /\ w.node = r.node /\ r.at \notin Resting /\ w.at \notin Storing
        /\ r.at \notin Storing /\ (w.at \in Gated /\ w.purpose = "load" <=> HoldsGate(x))
    BY <1>1, <1>4, <2>2 DEF CollectBegin, HoldsGate, Resting
  <2>5. UNCHANGED <<world, edges, seed, state, memory, disk, nodes, writeLock, commitLock>>
    BY <1>4 DEF CollectBegin
  <2>6. Shared'
    BY <1>1, <2>5 DEF Shared
  <2> QED BY <2>3, <2>4, <2>5, <2>6, Within
<1>5. ASSUME NEW outcome \in Outcomes, CollectEnd(x, outcome) PROVE TypeInv'
  <2> DEFINE value == IF outcome = "failed" THEN Failed ELSE r.value
             w == [r EXCEPT !.at = "sampled", !.value = value, !.kind = Kind(value), !.seen = 0]
             m == Remembered(x, value)
  <2>1. HoldsGate(x) /\ nodes[n] \in Node
    BY <1>1, <1>5, WorkerHere DEF CollectEnd, HoldsGate, Resting
  <2>2. value \in Results /\ value # Absent /\ Kind(value) \in Kinds
    BY <1>1, <1>5 DEF CollectEnd, Kind, Kinds, Results, Failed, Absent
  <2>3. w \in Worker /\ worker' = [worker EXCEPT ![x] = w]
    <3> HIDE DEF value
    <3>1. w \in Worker
      BY <1>1, <2>2
    <3>2. worker' = [worker EXCEPT ![x] = w]
      BY <1>5 DEF CollectEnd, value
    <3> QED BY <3>1, <3>2
  <2>4. m \in Node /\ m.gate = Nobody /\ nodes' = [nodes EXCEPT ![n] = m]
    <3>1. nodes' = [nodes EXCEPT ![n] = m]
      BY <1>5 DEF CollectEnd
    <3> HIDE DEF value
    <3>2. m \in Node /\ m.gate = Nobody
      BY <1>1, <2>1, <2>2 DEF Remembered, Node
    <3> QED BY <3>1, <3>2
  <2>5. Stage(w) /\ w.node = n /\ w.at = "sampled"
    <3> HIDE DEF value
    <3> QED BY <1>1, <1>5, <2>2 DEF CollectEnd
  <2>6. UNCHANGED <<world, edges, seed, state, memory, disk, writeLock, commitLock>>
    BY <1>5 DEF CollectEnd
  <2> HIDE DEF w, m
  <2>7. Becomes(x, w)
    BY <1>1, <2>3, Effect
  <2>8. nodes' \in Seq(Node) /\ nodes' # <<>> /\ LocksHeld' /\ Staged'
    BY <2>1, <2>4, <2>5, <2>6, <2>7, GateReleased, StagedKept DEF TypeInv
  <2> QED BY <1>1, <2>6, <2>7, <2>8 DEF TypeInv, Shared, Becomes
<1> QED BY <1>2, <1>3, <1>4, <1>5 DEF Collect

LEMMA BeginTypeInv ==
  ASSUME CacheAssumption, TypeInv, NEW x \in Workers, Begin(x) PROVE TypeInv'
<1> DEFINE generation == IF Known THEN state.generation ELSE seed
           w == [Rest("gate") EXCEPT !.node = Len(nodes), !.token = generation]
<1>1. worker \in Workings /\ worker[x] \in Worker /\ Shared
  BY WorkerHere DEF TypeInv
<1>2. /\ state' = [state EXCEPT !.generation = generation]
      /\ seed' = IF Known THEN seed ELSE seed + 1
      /\ worker' = [worker EXCEPT ![x] = w]
      /\ worker[x].at \in Resting
      /\ UNCHANGED <<world, edges, memory, disk, nodes, writeLock, commitLock>>
  BY DEF Begin
<1>3. generation \in Nat /\ Len(nodes) \in DOMAIN nodes
  BY <1>1 DEF Shared
<1> HIDE DEF generation
<1>4. Shared'
  <2>1. state' \in [generation : Nat, dirty : BOOLEAN]
    BY <1>1, <1>2, <1>3 DEF Shared
  <2>2. seed' \in Nat \ {0}
    BY <1>1, <1>2 DEF Shared
  <2> QED BY <1>1, <1>2, <2>1, <2>2 DEF Shared
<1>5. w \in Worker /\ w.at = "gate" /\ w.node = Len(nodes) /\ w.purpose = "load"
  <2>1. Len(nodes) \in Nat
    BY <1>1 DEF Shared
  <2> QED BY <1>3, <2>1 DEF Worker, Rest, Unknown, Absent, Entries, Results, Kinds, Stages
<1> HIDE DEF w
<1>6. Becomes(x, w)
  BY <1>1, <1>2, <1>5, Effect
<1>7. LocksHeld'
  BY <1>1, <1>2, <1>3, <1>5, <1>6
     DEF TypeInv, LocksHeld, Becomes, HoldsGate, At, Resting, Gated, Reading, Storing
<1>8. Staged'
  BY <1>5, <1>6, StagedKept DEF TypeInv, Stage, Storing
<1> QED BY <1>4, <1>6, <1>7, <1>8 DEF TypeInv, Becomes

LEMMA FinishTypeInv ==
  ASSUME CacheAssumption, TypeInv, NEW x \in Workers, Finish(x) PROVE TypeInv'
<1> DEFINE r == worker[x]
<1>1. worker \in Workings /\ r \in Worker /\ Stage(r) /\ Shared
  BY WorkerHere DEF TypeInv
<1> USE DEF Worker, Stage, At, Stages, Storing, InIo, Reading, Gated, Resting
<1>2. ASSUME NEW w \in Worker, worker' = [worker EXCEPT ![x] = w], Stage(w), w.node = r.node,
             w.at \in Gated => w.purpose = "fallback", r.at \notin Resting, ~HoldsGate(x),
             r.at \notin Storing, w.at \notin Storing,
             UNCHANGED <<world, edges, seed, state, memory, disk, nodes, writeLock, commitLock>>
      PROVE  TypeInv'
  BY <1>1, <1>2, Within DEF Shared
<1>3. CASE SkipStore(x)
  <2> DEFINE w == To(x, "deliver")
  <2>1. w \in Worker /\ worker' = [worker EXCEPT ![x] = w]
    BY <1>1, <1>3 DEF SkipStore, Goes, To
  <2>2. /\ Stage(w) /\ w.node = r.node /\ (w.at \in Gated => w.purpose = "fallback")
        /\ r.at \notin Resting /\ ~HoldsGate(x) /\ r.at \notin Storing /\ w.at \notin Storing
        /\ UNCHANGED <<world, edges, seed, state, memory, disk, nodes, writeLock, commitLock>>
    BY <1>1, <1>3 DEF SkipStore, To, HoldsGate
  <2> QED BY <1>2, <2>1, <2>2
<1>4. CASE FallbackBegin(x)
  <2> DEFINE w == [r EXCEPT !.at = "memory", !.purpose = "fallback"]
  <2>1. w \in Worker /\ worker' = [worker EXCEPT ![x] = w]
    BY <1>1, <1>4 DEF FallbackBegin
  <2>2. /\ Stage(w) /\ w.node = r.node /\ (w.at \in Gated => w.purpose = "fallback")
        /\ r.at \notin Resting /\ ~HoldsGate(x) /\ r.at \notin Storing /\ w.at \notin Storing
        /\ UNCHANGED <<world, edges, seed, state, memory, disk, nodes, writeLock, commitLock>>
    BY <1>1, <1>4 DEF FallbackBegin, HoldsGate
  <2> QED BY <1>2, <2>1, <2>2
<1>5. CASE Fallback(x)
  <2>1. PICK value \in Results, kind \in Kinds :
            worker' = [worker EXCEPT ![x].at = "deliver", ![x].value = value,
                                     ![x].kind = kind, ![x].read = Absent]
    <3>1. worker[x].value \in Results /\ worker[x].read \in Results /\ worker[x].kind \in Kinds
      BY <1>1 DEF Results
    <3>2. CASE worker' = [worker EXCEPT ![x].at = "deliver", ![x].value = worker[x].read,
                                        ![x].kind = "lastgood", ![x].read = Absent]
      BY <3>1, <3>2 DEF Kinds
    <3>3. CASE worker' = [worker EXCEPT ![x].at = "deliver", ![x].read = Absent]
      <4>1. worker' = [worker EXCEPT ![x].at = "deliver", ![x].value = worker[x].value,
                                     ![x].kind = worker[x].kind, ![x].read = Absent]
        BY <1>1, <3>3 DEF Workings
      <4> QED BY <3>1, <4>1
    <3> QED BY <1>5, <3>2, <3>3 DEF Fallback
  <2> DEFINE w == [r EXCEPT !.at = "deliver", !.value = value, !.kind = kind, !.read = Absent]
  <2>2. w \in Worker /\ worker' = [worker EXCEPT ![x] = w]
    BY <1>1, <2>1 DEF Entries
  <2>3. /\ Stage(w) /\ w.node = r.node /\ (w.at \in Gated => w.purpose = "fallback")
        /\ r.at \notin Resting /\ ~HoldsGate(x) /\ r.at \notin Storing /\ w.at \notin Storing
        /\ UNCHANGED <<world, edges, seed, state, memory, disk, nodes, writeLock, commitLock>>
    BY <1>1, <1>5 DEF Fallback, HoldsGate
  <2> QED BY <1>2, <2>2, <2>3
<1>6. CASE Deliver(x)
  <2>1. PICK at \in {"shown", "rejected"} : worker' = [worker EXCEPT ![x] = Rest(at)]
    BY <1>6 DEF Deliver
  <2>2. Rest(at) \in Worker /\ Rest(at).at = at
    BY DEF Rest, Unknown, Absent, Entries, Results, Kinds
  <2>3. Becomes(x, Rest(at))
    BY <1>1, <2>1, <2>2, Effect
  <2>4. /\ r.at = "deliver"
        /\ UNCHANGED <<world, edges, seed, state, memory, disk, nodes, writeLock, commitLock>>
    BY <1>6 DEF Deliver
  <2>5. Shared' /\ worker' \in Workings
    BY <1>1, <2>3, <2>4 DEF Shared, Becomes
  <2>6. LocksHeld'
    BY <2>2, <2>3, <2>4 DEF TypeInv, LocksHeld, Becomes, HoldsGate
  <2>7. Staged'
    BY <2>2, <2>3, StagedKept DEF TypeInv
  <2> QED BY <2>5, <2>6, <2>7 DEF TypeInv
<1> QED BY <1>3, <1>4, <1>5, <1>6 DEF Finish

\* The write lock, taken, kept to the end of the store, handed back by every way out.
LEMMA StoreLocks ==
  ASSUME CacheAssumption, TypeInv, NEW x \in Workers, NEW w \in Worker,
         worker' = [worker EXCEPT ![x] = w], Shared', nodes' = nodes,
         Stage(w), w.node = worker[x].node,
         worker[x].at \in Storing \cup {"sampled"}, w.at \in Storing \cup {"deliver"},
         worker[x].at = "sampled" => writeLock = Nobody,
         writeLock' = IF w.at \in Storing THEN x ELSE Nobody,
         commitLock = Nobody \/ worker[x].at = "insert",
         commitLock' = IF w.at = "insert" THEN x ELSE Nobody
  PROVE  TypeInv'
<1>1. Becomes(x, w)
  BY Effect DEF TypeInv
<1>2. Staged'
  BY <1>1, StagedKept DEF TypeInv
<1>3. /\ worker[x].at \notin Resting /\ worker[x].at \notin Gated
      /\ w.at \notin Resting /\ w.at \notin Gated
      /\ "insert" \in Storing
  BY DEF Storing, Resting, Gated, Reading
<1>4. \A y \in Workers : y # x => worker[y].at \notin Storing /\ worker[y].at # "insert"
  BY <1>3 DEF CacheAssumption, TypeInv, LocksHeld, At
<1>5. LocksHeld'
  BY <1>1, <1>3, <1>4 DEF CacheAssumption, TypeInv, LocksHeld, Becomes, HoldsGate, At
<1> QED BY <1>1, <1>2, <1>5 DEF TypeInv, Becomes

LEMMA StoreTypeInv ==
  ASSUME CacheAssumption, TypeInv, NEW x \in Workers, Store(x) PROVE TypeInv'
<1> DEFINE r == worker[x]
           commit(w) == IF w.at = "insert" THEN x ELSE Nobody
           write(w) == IF w.at \in Storing THEN x ELSE Nobody
<1>1. worker \in Workings /\ r \in Worker /\ Stage(r) /\ Shared
  BY WorkerHere DEF TypeInv
<1>2. r.at \in Storing => writeLock = x
  BY DEF TypeInv, LocksHeld
<1>3. \A stage \in Storing \cup {"deliver"} :
        To(x, stage) \in Worker /\ To(x, stage).at = stage /\ To(x, stage).node = r.node
        /\ To(x, stage).purpose = r.purpose /\ To(x, stage).value = r.value
  BY <1>1 DEF To, Worker, Stages, InIo
<1>4. ASSUME NEW stage \in Storing \cup {"deliver"}, Goes(x, stage), Shared', nodes' = nodes,
             r.at \in Storing \cup {"sampled"},
             r.at = "sampled" => r.value # Failed /\ writeLock = Nobody,
             writeLock' = IF stage \in Storing THEN x ELSE Nobody,
             commitLock = Nobody \/ r.at = "insert",
             commitLock' = IF stage = "insert" THEN x ELSE Nobody
      PROVE  TypeInv'
  <2> DEFINE w == To(x, stage)
  <2>1. w \in Worker /\ w.at = stage /\ w.node = r.node /\ w.purpose = r.purpose /\ w.value = r.value
    BY <1>3
  <2>2. worker' = [worker EXCEPT ![x] = w]
    BY <1>1, <1>4 DEF Goes, To
  <2>3. r.value \in Nat /\ r.purpose = "load"
    BY <1>1, <1>4 DEF Stage, Worker, Results, Entries, Storing
  <2> HIDE DEF w
  <2>4. Stage(w)
    BY <1>4, <2>1, <2>3 DEF Stage, Storing
  <2> QED BY <1>4, <2>1, <2>2, <2>4, StoreLocks
<1>5. r.at # "insert" /\ writeLock \in {x, Nobody} => commitLock = Nobody
  BY <1>1 DEF CacheAssumption, TypeInv, Shared, LocksHeld, At, Storing
<1>6. CASE StoreBegin(x)
  <2>1. /\ r.at = "sampled" /\ r.value # Failed /\ writeLock = Nobody /\ writeLock' = x
        /\ Goes(x, "store")
        /\ UNCHANGED <<world, edges, seed, state, memory, disk, nodes, commitLock>>
    BY <1>6 DEF StoreBegin, At
  <2>2. Shared'
    BY <1>1, <2>1 DEF Shared
  <2> QED BY <1>4, <1>5, <2>1, <2>2 DEF Storing
<1>7. ASSUME NEW stage \in Storing \cup {"deliver"}, Goes(x, stage), stage # "insert",
             r.at \in Storing \ {"insert"}, Shared', nodes' = nodes, commitLock' = commitLock,
             writeLock' = IF stage \in Storing THEN x ELSE Nobody
      PROVE  TypeInv'
  BY <1>2, <1>4, <1>5, <1>7 DEF Storing
<1>8. CASE StoreCheck(x)
  <2>1. /\ r.at = "store"
        /\ UNCHANGED <<world, edges, seed, state, memory, disk, nodes, commitLock>>
        /\ \/ Goes(x, "compare") /\ writeLock' = writeLock
           \/ Goes(x, "deliver") /\ writeLock' = Nobody
    BY <1>8 DEF StoreCheck, StoreEnds, At
  <2>2. Shared'
    BY <1>1, <1>2, <2>1 DEF Shared, Storing
  <2> QED BY <1>2, <1>7, <2>1, <2>2 DEF Storing
<1>9. CASE StoreCompare(x)
  <2>1. /\ r.at = "compare"
        /\ UNCHANGED <<world, edges, seed, state, memory, disk, nodes, writeLock, commitLock>>
        /\ Goes(x, "write") \/ Goes(x, "confirm")
    BY <1>9 DEF StoreCompare, At
  <2>2. Shared'
    BY <1>1, <2>1 DEF Shared
  <2> QED BY <1>2, <1>7, <2>1, <2>2 DEF Storing
<1>10. CASE StoreConfirm(x)
  <2>1. /\ r.at = "confirm" /\ Goes(x, "deliver") /\ writeLock' = Nobody
        /\ state' = IF IsCurrent(x) THEN [state EXCEPT !.dirty = FALSE] ELSE state
        /\ UNCHANGED <<world, edges, seed, memory, disk, nodes, commitLock>>
    BY <1>10 DEF StoreConfirm, StoreEnds, At
  <2>2. state' \in [generation : Nat, dirty : BOOLEAN]
    BY <1>1, <2>1 DEF Shared
  <2>3. Shared'
    BY <1>1, <2>1, <2>2 DEF Shared
  <2> QED BY <1>7, <2>1, <2>3 DEF Storing
<1>11. CASE StoreWrite(x)
  <2>1. /\ r.at = "write"
        /\ UNCHANGED <<world, edges, seed, state, memory, disk, nodes, commitLock>>
        /\ \/ Goes(x, "commit") /\ writeLock' = writeLock
           \/ Goes(x, "deliver") /\ writeLock' = Nobody
    BY <1>11 DEF StoreWrite, StoreEnds, At
  <2>2. Shared'
    BY <1>1, <1>2, <2>1 DEF Shared, Storing
  <2> QED BY <1>2, <1>7, <2>1, <2>2 DEF Storing
<1>12. CASE StoreCommit(x)
  <2>1. /\ r.at = "commit" /\ commitLock = Nobody
        /\ UNCHANGED <<world, edges, seed, state, memory, nodes>>
        /\ disk' = disk \/ disk' = r.value
        /\ \/ Goes(x, "insert") /\ commitLock' = x /\ writeLock' = writeLock
           \/ Goes(x, "deliver") /\ writeLock' = Nobody /\ commitLock' = commitLock
    BY <1>12 DEF StoreCommit, StoreEnds, At, Unlocked
  <2>2. r.value \in Entries
    BY <1>1, <2>1 DEF Stage, Storing, Entries
  <2>3. Shared'
    BY <1>1, <1>2, <2>1, <2>2 DEF Shared, Storing
  <2> QED BY <1>2, <1>4, <2>1, <2>3 DEF Storing
<1>13. CASE StoreInsert(x)
  <2>1. /\ r.at = "insert" /\ Goes(x, "deliver") /\ writeLock' = Nobody /\ commitLock' = Nobody
        /\ memory' = [value |-> r.value, flushed |-> TRUE]
        /\ state' = [state EXCEPT !.dirty = FALSE]
        /\ UNCHANGED <<world, edges, seed, disk, nodes>>
    BY <1>13 DEF StoreInsert, StoreEnds, At
  <2>2. r.value \in Entries
    BY <1>1, <2>1 DEF Stage, Storing, Entries
  <2>3. state' \in [generation : Nat, dirty : BOOLEAN]
    BY <1>1, <2>1 DEF Shared
  <2>4. memory' \in [value : Entries, flushed : BOOLEAN]
    BY <2>1, <2>2
  <2>5. Shared'
    BY <1>1, <2>1, <2>3, <2>4 DEF Shared
  <2> QED BY <1>4, <2>1, <2>5 DEF Storing
<1> QED BY <1>6, <1>8, <1>9, <1>10, <1>11, <1>12, <1>13 DEF Store

-----------------------------------------------------------------------------
(* The source, the rest of the program and the process. *)

LEMMA PublishTypeInv == ASSUME CacheAssumption, TypeInv, Publish PROVE TypeInv'
<1>1. CASE InvalidateSource
  <2> DEFINE n == Len(nodes)
             m == [nodes[n] EXCEPT !.generation = nodes[n].generation + 1]
  <2>1. n \in DOMAIN nodes /\ nodes[n] \in Node /\ nodes \in Seq(Node)
    BY DEF TypeInv, Shared
  <2>2. m \in Node /\ m.gate = nodes[n].gate /\ nodes' = [nodes EXCEPT ![n] = m]
    <3>1. m \in Node /\ m.gate = nodes[n].gate
      <4> HIDE DEF n
      <4>1. nodes[n].generation + 1 \in Nat
        BY <2>1 DEF Node
      <4> QED BY <2>1, <4>1 DEF Node
    <3>2. nodes' = [nodes EXCEPT ![n] = m]
      BY <1>1 DEF InvalidateSource
    <3> QED BY <3>1, <3>2
  <2> HIDE DEF m
  <2>3. /\ nodes' \in Seq(Node) /\ nodes' # <<>> /\ DOMAIN nodes' = DOMAIN nodes
        /\ \A i \in DOMAIN nodes : nodes'[i] = IF i = n THEN m ELSE nodes[i]
    BY <2>1, <2>2, NodeChanged
  <2>4. UNCHANGED <<edges, seed, state, memory, disk, writeLock, commitLock, worker>> /\ world' = world + 1
    BY <1>1 DEF InvalidateSource
  <2>5. Shared' /\ worker' \in Workings /\ Staged'
    BY <2>3, <2>4 DEF TypeInv, Shared, Staged
  <2>6. LocksHeld'
    BY <2>2, <2>3, <2>4 DEF TypeInv, LocksHeld, HoldsGate, At
  <2> QED BY <2>5, <2>6 DEF TypeInv
<1>2. CASE InvalidateCache
  <2>1. /\ edges' = world /\ state' = Invalidated(state, seed)
        /\ seed' = IF Known THEN seed ELSE seed + 1
        /\ UNCHANGED <<world, memory, disk, nodes, writeLock, commitLock, worker>>
    BY <1>2 DEF InvalidateCache
  <2>2. state' \in [generation : Nat, dirty : BOOLEAN]
    BY <2>1 DEF Invalidated, TypeInv, Shared
  <2>3. Shared'
    <3>1. seed' \in Nat \ {0}
      BY <2>1 DEF TypeInv, Shared
    <3> QED BY <2>1, <2>2, <3>1 DEF TypeInv, Shared
  <2> QED BY <2>1, <2>3 DEF TypeInv, LocksHeld, Staged, HoldsGate, At
<1> QED BY <1>1, <1>2 DEF Publish

\* The state a process starts in.
Fresh ==
    /\ world = 0 /\ edges = 0 /\ seed = 1 /\ memory = Empty /\ nodes = <<NewNode>>
    /\ state = [generation |-> Unknown, dirty |-> FALSE]
    /\ disk \in {Absent, 0}
    /\ writeLock = Nobody /\ commitLock = Nobody /\ worker = [x \in Workers |-> Rest("idle")]

LEMMA FreshTypeInv == Fresh => TypeInv
<1> SUFFICES ASSUME Fresh PROVE TypeInv
  OBVIOUS
<1>1. NewNode \in Node /\ NewNode.gate = Nobody
  BY DEF NewNode, Node, Results, Entries
<1>2. nodes \in Seq(Node) /\ nodes # <<>> /\ \A n \in DOMAIN nodes : nodes[n].gate = Nobody
  <2> HIDE DEF NewNode
  <2> QED BY <1>1 DEF Fresh
<1>3. Rest("idle") \in Worker /\ Rest("idle").at = "idle"
  BY DEF Worker, Rest, Unknown, Absent, Entries, Results, Kinds, Stages, Resting
<1>4. Shared
  BY <1>2 DEF Fresh, Shared, Empty, Entries, Absent, Unknown
<1>5. worker \in Workings /\ Staged
  BY <1>3 DEF Fresh, Workings, Staged, Stage, Storing
<1>6. LocksHeld
  BY <1>2, <1>3, CacheAssumption DEF Fresh, LocksHeld, HoldsGate, At, Resting, Gated, Reading, Storing
<1> QED BY <1>4, <1>5, <1>6 DEF TypeInv

LEMMA EnvironmentTypeInv == ASSUME CacheAssumption, TypeInv, Environment PROVE TypeInv'
<1>1. CASE Evict \/ RemoveFile \/ OtherSource
  <2>1. /\ UNCHANGED <<world, edges, state, nodes, writeLock, commitLock, worker>>
        /\ memory' \in {memory, Empty} /\ disk' \in {disk, Absent} /\ seed' \in {seed, seed + 1}
    BY <1>1 DEF Evict, RemoveFile, OtherSource
  <2>2. Empty \in [value : Entries, flushed : BOOLEAN] /\ Absent \in Entries
    BY DEF Empty, Entries
  <2>3. memory' \in [value : Entries, flushed : BOOLEAN] /\ disk' \in Entries /\ seed' \in Nat \ {0}
    BY <2>1, <2>2 DEF TypeInv, Shared
  <2>4. Shared'
    BY <2>1, <2>3 DEF TypeInv, Shared
  <2> QED BY <2>1, <2>4 DEF TypeInv, LocksHeld, Staged, HoldsGate, At
<1>2. CASE Forget
  <2>1. /\ nodes' = Append(nodes, NewNode) /\ memory' = Empty
        /\ state' = [generation |-> Unknown, dirty |-> FALSE]
        /\ UNCHANGED <<world, edges, seed, disk, writeLock, commitLock, worker>>
    BY <1>2 DEF Forget
  <2>2. NewNode \in Node /\ NewNode.gate = Nobody
    BY DEF NewNode, Node, Results, Entries
  <2>3. nodes \in Seq(Node) /\ NewNode \in Node
    BY <2>2 DEF TypeInv, Shared
  <2>4. /\ nodes' \in Seq(Node) /\ nodes' # <<>> /\ DOMAIN nodes' = DOMAIN nodes \cup {Len(nodes) + 1}
        /\ \A i \in DOMAIN nodes : nodes'[i] = nodes[i]
        /\ nodes'[Len(nodes) + 1] = NewNode /\ Len(nodes) + 1 \notin DOMAIN nodes
    <3> HIDE DEF NewNode
    <3> QED BY <2>1, <2>3
  <2>5. memory' \in [value : Entries, flushed : BOOLEAN] /\ state' \in [generation : Nat, dirty : BOOLEAN]
    BY <2>1 DEF Empty, Entries, Unknown
  <2>6. Shared' /\ worker' \in Workings /\ Staged'
    BY <2>1, <2>4, <2>5 DEF TypeInv, Shared, Staged
  <2>7. \A y \in Workers : y # Nobody /\ (HoldsGate(y) => worker[y].node \in DOMAIN nodes)
    BY DEF CacheAssumption, TypeInv, LocksHeld, HoldsGate, Gated, Reading, Resting
  <2>8. LocksHeld'
    BY <2>1, <2>2, <2>4, <2>7 DEF TypeInv, LocksHeld, HoldsGate, At
  <2> QED BY <2>6, <2>8 DEF TypeInv
<1>3. CASE Restart
  <2>1. /\ world' = 0 /\ edges' = 0 /\ seed' = 1 /\ memory' = Empty /\ nodes' = <<NewNode>>
        /\ state' = [generation |-> Unknown, dirty |-> FALSE]
        /\ disk' \in {Absent, 0}
        /\ writeLock' = Nobody /\ commitLock' = Nobody /\ worker' = [y \in Workers |-> Rest("idle")]
    BY <1>3 DEF Restart
  <2>2. Fresh'
    BY <2>1 DEF Fresh
  <2>3. (Fresh => TypeInv)'
    BY FreshTypeInv, PTL
  <2> QED BY <2>2, <2>3
<1> QED BY <1>1, <1>2, <1>3 DEF Environment

LEMMA NextTypeInv == ASSUME TypeInv, [Next]_vars PROVE TypeInv'
<1>1. ASSUME NEW x \in Workers, Work(x) PROVE TypeInv'
  BY <1>1, CacheAssumption, TakeGateTypeInv, LoadTypeInv, CollectTypeInv, StoreTypeInv, FinishTypeInv
     DEF Work, Load
<1>2. ASSUME NEW x \in Workers, Begin(x) PROVE TypeInv'
  BY <1>2, CacheAssumption, BeginTypeInv
<1>3. CASE Publish
  BY <1>3, CacheAssumption, PublishTypeInv
<1>4. CASE Environment
  BY <1>4, CacheAssumption, EnvironmentTypeInv
<1>5. CASE UNCHANGED vars
  BY <1>5 DEF vars, TypeInv, Shared, Workings, LocksHeld, Staged, HoldsGate, At
<1> QED BY <1>1, <1>2, <1>3, <1>4, <1>5 DEF Next

\* Every variable keeps its type, and every lock is held by exactly the worker in its
\* section (load_with_budget, collect, store_if_current), for any number of workers and
\* permits, and whatever upsets the process.
THEOREM LocksAlwaysHeld == Spec => []TypeOK
<1>1. Init => TypeInv
  BY FreshTypeInv DEF Init, Fresh
<1>2. TypeInv /\ [Next]_vars => TypeInv'
  BY NextTypeInv
<1>3. TypeInv => TypeOK
  BY DEF TypeInv, Shared, Workings, TypeOK, Typed
<1> QED BY <1>1, <1>2, <1>3, PTL DEF Spec

-----------------------------------------------------------------------------
(* What is stored is current, while no source is removed and no permission *)
(* change fails.                                                           *)

NotBehind(value) == value = Absent \/ value >= edges

\* With one node, its generation counts the events, and the result it keeps is as new as
\* the generation it was sampled at.
NodeOk ==
    /\ edges <= world
    /\ Len(nodes) = 1 /\ nodes[1].generation = world
    /\ nodes[1].last \in Nat => nodes[1].lastGeneration <= nodes[1].last

\* Whoever finds a flushed entry finds its value in the file, unless another is on its way.
FlushedOk == memory.flushed /\ commitLock = Nobody => disk \in {Absent, memory.value}

\* Nobody works with a token of the future.
TokenOk(w) ==
    IF w.at \in Resting THEN w.kind = "none"
    ELSE w.token # Unknown /\ w.token <= state.generation

\* A sample taken under a token that still holds has seen every event told.
SampleOk(w) ==
    /\ w.at = "sampling" => w.seen <= w.value
    /\ w.at = "sampling" \/ w.kind = "fresh" =>
           (w.token = state.generation => w.value >= edges)
    /\ w.at = "sampled" /\ w.value # Failed => w.kind = "fresh"
    /\ w.at \in Storing => w.kind = "fresh"

\* The worker that commits is current to the end of it, and one that is about to confirm
\* its value finds one as current in the file.
CommitOk(w) ==
    /\ w.at = "insert" => w.token = state.generation /\ disk \in {Absent, w.value}
    /\ w.at = "confirm" /\ w.token = state.generation => NotBehind(disk)

WorkerOk(w) == TokenOk(w) /\ SampleOk(w) /\ CommitOk(w)

\* DiskClean, also before the source is known.
DiskOk == ~state.dirty => NotBehind(disk)

\* From it follow DiskClean and CommitCurrent.
StoreInv ==
    /\ TypeInv /\ NodeOk /\ FlushedOk /\ DiskOk
    /\ \A x \in Workers : WorkerOk(worker[x])

\* A worker that changes nothing the others see but the write lock.
Quiet == UNCHANGED <<world, edges, state, memory, disk, nodes, commitLock>>

\* What a worker's step is in the file's terms, when it changes but its own record.
LEMMA QuietStoreInv ==
  ASSUME StoreInv, TypeInv', NEW x \in Workers, NEW w,
         worker' = [worker EXCEPT ![x] = w], Quiet, WorkerOk(w)
  PROVE  StoreInv'
<1>1. \A y \in Workers : worker'[y] = IF y = x THEN w ELSE worker[y]
  BY DEF StoreInv, TypeInv, Workings
<1>2. \A y \in Workers : WorkerOk(worker'[y])
  BY <1>1 DEF StoreInv
<1>3. (\A y \in Workers : WorkerOk(worker[y]))'
  BY <1>2 DEF WorkerOk, TokenOk, SampleOk, CommitOk, NotBehind, Quiet
<1>4. NodeOk' /\ FlushedOk' /\ DiskOk'
  BY DEF StoreInv, NodeOk, FlushedOk, DiskOk, NotBehind, Quiet
<1> QED BY <1>3, <1>4 DEF StoreInv

\* The same where the nodes or the memory change too.
LEMMA WorkerStoreInv ==
  ASSUME StoreInv, TypeInv', NEW x \in Workers, NEW w,
         worker' = [worker EXCEPT ![x] = w], WorkerOk(w),
         UNCHANGED <<edges, state, disk>>, NodeOk', FlushedOk'
  PROVE  StoreInv'
<1>1. \A y \in Workers : worker'[y] = IF y = x THEN w ELSE worker[y]
  BY DEF StoreInv, TypeInv, Workings
<1>2. \A y \in Workers : WorkerOk(worker'[y])
  BY <1>1 DEF StoreInv
<1>3. (\A y \in Workers : WorkerOk(worker[y]))'
  BY <1>2 DEF WorkerOk, TokenOk, SampleOk, CommitOk, NotBehind
<1>4. DiskOk'
  BY DEF StoreInv, DiskOk, NotBehind
<1> QED BY <1>3, <1>4 DEF StoreInv

\* A gate taken or released leaves the rest of the node alone.
LEMMA NodeKept ==
  ASSUME StoreInv, NEW h \in Workers \cup {Nobody}, UNCHANGED <<world, edges>>,
         nodes' = [nodes EXCEPT ![1] = [nodes[1] EXCEPT !.gate = h]]
  PROVE  NodeOk' /\ nodes'[1].last = nodes[1].last
<1>1. nodes \in Seq(Node) /\ nodes[1] \in Node /\ 1 \in DOMAIN nodes /\ Len(nodes) = 1
  BY DEF StoreInv, TypeInv, Shared, NodeOk
<1>2. [nodes[1] EXCEPT !.gate = h] \in Node
  BY <1>1 DEF Node
<1>3. Len(nodes') = Len(nodes) /\ nodes'[1] = [nodes[1] EXCEPT !.gate = h]
  <2> DEFINE m == [nodes[1] EXCEPT !.gate = h]
  <2>1. m \in Node /\ nodes' = [nodes EXCEPT ![1] = m]
    BY <1>2
  <2> HIDE DEF m
  <2>2. Len(nodes') = Len(nodes) /\ nodes'[1] = m
    BY <1>1, <2>1, NodeChanged
  <2> QED BY <2>2 DEF m
<1> QED BY <1>1, <1>3 DEF StoreInv, NodeOk, Node

LEMMA LoadStoreInv ==
  ASSUME StoreInv, TypeInv', NEW x \in Workers, Load(x) \/ CollectBegin(x) \/ Finish(x)
  PROVE StoreInv'
<1> DEFINE r == worker[x]
<1>1. /\ worker \in Workings /\ r \in Worker /\ WorkerOk(r)
      /\ nodes[1] \in Node /\ NodeOk /\ FlushedOk /\ Shared /\ (r.at \notin Resting => r.node = 1)
  BY WorkerHere DEF StoreInv, TypeInv, Shared, NodeOk
<1>2. ASSUME NEW w, worker' = [worker EXCEPT ![x] = w], Quiet, WorkerOk(w) PROVE StoreInv'
  BY <1>2, QuietStoreInv
<1> USE DEF WorkerOk, TokenOk, SampleOk, CommitOk, At, Resting, Storing, To, Worker
<1>3. CASE SkipLoad(x)
  <2> DEFINE w == To(x, "collect")
  <2>1. worker' = [worker EXCEPT ![x] = w] /\ Quiet
    BY <1>1, <1>3 DEF SkipLoad, Goes, To, Quiet
  <2>2. WorkerOk(w)
    BY <1>1, <1>3 DEF SkipLoad
  <2> HIDE DEF w
  <2> QED BY <1>2, <2>1, <2>2
<1>4. CASE LoadBegin(x)
  <2> DEFINE w == [r EXCEPT !.at = IF state.dirty THEN "collect" ELSE "memory",
                            !.seen = IF state.dirty THEN 0 ELSE state.generation]
  <2>1. worker' = [worker EXCEPT ![x] = w] /\ Quiet
    BY <1>1, <1>4 DEF LoadBegin, Goes, To, Quiet
  <2>2. WorkerOk(w)
    BY <1>1, <1>4 DEF LoadBegin
  <2> HIDE DEF w
  <2> QED BY <1>2, <2>1, <2>2
<1>5. CASE ReadMemory(x)
  <2> DEFINE w == [r EXCEPT !.at = IF memory = Empty THEN "file" ELSE "check", !.read = memory.value]
  <2>1. worker' = [worker EXCEPT ![x] = w] /\ Quiet
    BY <1>1, <1>5 DEF ReadMemory, Goes, To, Quiet
  <2>2. WorkerOk(w)
    BY <1>1, <1>5 DEF ReadMemory
  <2> HIDE DEF w
  <2> QED BY <1>2, <2>1, <2>2
<1>6. CASE ReadFile(x)
  <2>1. PICK found \in {disk, Absent} :
           worker' = [worker EXCEPT ![x].at = IF found = Absent THEN "check" ELSE "fill",
                                    ![x].read = found]
    BY <1>6 DEF ReadFile
  <2> DEFINE w == [r EXCEPT !.at = IF found = Absent THEN "check" ELSE "fill", !.read = found]
  <2>2. worker' = [worker EXCEPT ![x] = w] /\ Quiet
    BY <1>1, <1>6, <2>1 DEF ReadFile, Goes, To, Quiet
  <2>3. WorkerOk(w)
    BY <1>1, <1>6, <2>1 DEF ReadFile
  <2> HIDE DEF w
  <2> QED BY <1>2, <2>2, <2>3
<1>7. CASE LoadMiss(x)
  <2> DEFINE w == [r EXCEPT !.at = "collect", !.read = Absent, !.seen = 0]
  <2>1. worker' = [worker EXCEPT ![x] = w] /\ Quiet
    BY <1>1, <1>7 DEF LoadMiss, Goes, To, Quiet
  <2>2. WorkerOk(w)
    BY <1>1, <1>7 DEF LoadMiss
  <2> HIDE DEF w
  <2> QED BY <1>2, <2>1, <2>2
<1>8. CASE CollectBegin(x)
  <2> DEFINE w == [r EXCEPT !.at = "sampling", !.value = world, !.seen = nodes[r.node].generation]
  <2>1. worker' = [worker EXCEPT ![x] = w] /\ Quiet
    BY <1>1, <1>8 DEF CollectBegin, Goes, To, Quiet, NodeOk, Shared
  <2>2. WorkerOk(w)
    BY <1>1, <1>8 DEF CollectBegin, NodeOk, Shared
  <2> HIDE DEF w
  <2> QED BY <1>2, <2>1, <2>2
<1>9. CASE SkipStore(x)
  <2> DEFINE w == To(x, "deliver")
  <2>1. worker' = [worker EXCEPT ![x] = w] /\ Quiet
    BY <1>1, <1>9 DEF SkipStore, Goes, To, Quiet
  <2>2. WorkerOk(w)
    BY <1>1, <1>9 DEF SkipStore
  <2> HIDE DEF w
  <2> QED BY <1>2, <2>1, <2>2
<1>10. CASE FallbackBegin(x)
  <2> DEFINE w == [r EXCEPT !.at = "memory", !.purpose = "fallback"]
  <2>1. worker' = [worker EXCEPT ![x] = w] /\ Quiet
    BY <1>1, <1>10 DEF FallbackBegin, Goes, To, Quiet
  <2>2. WorkerOk(w)
    BY <1>1, <1>10 DEF FallbackBegin
  <2> HIDE DEF w
  <2> QED BY <1>2, <2>1, <2>2
<1>11. CASE Fallback(x)
  <2>1. Quiet /\ r.at = "check"
    BY <1>11 DEF Fallback, Quiet
  <2>2. CASE worker' = [worker EXCEPT ![x].at = "deliver", ![x].value = worker[x].read,
                                      ![x].kind = "lastgood", ![x].read = Absent]
    <3> DEFINE w == [r EXCEPT !.at = "deliver", !.value = r.read, !.kind = "lastgood",
                              !.read = Absent]
    <3>1. worker' = [worker EXCEPT ![x] = w] /\ WorkerOk(w)
      BY <1>1, <2>1, <2>2
    <3> HIDE DEF w
    <3> QED BY <1>2, <2>1, <3>1
  <2>3. CASE worker' = [worker EXCEPT ![x].at = "deliver", ![x].read = Absent]
    <3> DEFINE w == [r EXCEPT !.at = "deliver", !.read = Absent]
    <3>1. worker' = [worker EXCEPT ![x] = w] /\ WorkerOk(w)
      BY <1>1, <2>1, <2>3
    <3> HIDE DEF w
    <3> QED BY <1>2, <2>1, <3>1
  <2> QED BY <1>11, <2>2, <2>3 DEF Fallback
<1>12. CASE Deliver(x)
  <2>1. PICK at \in {"shown", "rejected"} : worker' = [worker EXCEPT ![x] = Rest(at)]
    BY <1>12 DEF Deliver
  <2>2. Quiet /\ WorkerOk(Rest(at))
    BY <1>12 DEF Deliver, Quiet, Rest
  <2> QED BY <1>2, <2>1, <2>2
<1>13. CASE LoadHit(x)
  <2> DEFINE w == [r EXCEPT !.at = "deliver", !.value = r.read, !.kind = "hit",
                            !.read = Absent, !.seen = 0]
  <2>1. /\ worker' = [worker EXCEPT ![x] = w]
        /\ nodes' = [nodes EXCEPT ![r.node] = [nodes[r.node] EXCEPT !.gate = Nobody]]
        /\ UNCHANGED <<world, edges, state, memory, disk, commitLock>>
    BY <1>1, <1>13 DEF LoadHit, Released
  <2>2. WorkerOk(w)
    BY <1>1, <1>13 DEF LoadHit
  <2>3. NodeOk' /\ FlushedOk'
    BY <1>1, <1>13, <2>1, NodeKept DEF LoadHit, FlushedOk
  <2> HIDE DEF w
  <2> QED BY <2>1, <2>2, <2>3, WorkerStoreInv
<1>14. CASE FillMemory(x)
  <2> DEFINE w == To(x, "check")
  <2>1. /\ worker' = [worker EXCEPT ![x] = w] /\ memory'.flushed = FALSE
        /\ UNCHANGED <<world, edges, state, disk, nodes, commitLock>>
    BY <1>1, <1>14 DEF FillMemory, Goes, Filled
  <2>2. WorkerOk(w)
    BY <1>1, <1>14 DEF FillMemory
  <2>3. NodeOk' /\ FlushedOk'
    BY <1>1, <2>1 DEF NodeOk, FlushedOk
  <2> HIDE DEF w
  <2> QED BY <2>1, <2>2, <2>3, WorkerStoreInv
<1> QED BY <1>3, <1>4, <1>5, <1>6, <1>7, <1>8, <1>9, <1>10, <1>11, <1>12, <1>13, <1>14
        DEF Load, Finish

LEMMA CollectStoreInv ==
  ASSUME StoreInv, TypeInv', NEW x \in Workers,
         TakeGate(x) \/ Coalesce(x) \/ \E outcome \in Outcomes : CollectEnd(x, outcome)
  PROVE StoreInv'
<1> DEFINE r == worker[x]
           n == nodes[1]
<1>1. /\ worker \in Workings /\ r \in Worker /\ WorkerOk(r)
      /\ nodes \in Seq(Node) /\ n \in Node /\ 1 \in DOMAIN nodes
      /\ NodeOk /\ FlushedOk /\ Shared
  BY WorkerHere DEF StoreInv, TypeInv, Shared, NodeOk
<1>2. r.at \notin Resting => r.node = 1
  BY WorkerHere, <1>1 DEF StoreInv, NodeOk
<1> USE DEF WorkerOk, TokenOk, SampleOk, CommitOk, At, Resting, Storing, Worker
<1>3. CASE TakeGate(x)
  <2> DEFINE w == To(x, "lookup")
  <2>1. /\ worker' = [worker EXCEPT ![x] = w]
        /\ nodes' = [nodes EXCEPT ![1] = [nodes[1] EXCEPT !.gate = x]]
        /\ UNCHANGED <<world, edges, state, memory, disk, commitLock>>
    BY <1>1, <1>2, <1>3 DEF TakeGate, Goes, To
  <2>2. WorkerOk(w)
    BY <1>1, <1>3 DEF TakeGate, To
  <2>3. NodeOk' /\ FlushedOk'
    BY <1>1, <2>1, NodeKept DEF FlushedOk
  <2> HIDE DEF w
  <2> QED BY <2>1, <2>2, <2>3, WorkerStoreInv
<1>4. CASE Coalesce(x)
  <2> DEFINE w == [r EXCEPT !.at = "sampled", !.value = n.last, !.kind = Kind(n.last)]
  <2>1. /\ worker' = [worker EXCEPT ![x] = w]
        /\ nodes' = [nodes EXCEPT ![1] = [nodes[1] EXCEPT !.gate = Nobody]]
        /\ UNCHANGED <<world, edges, state, memory, disk, commitLock>>
    BY <1>1, <1>2, <1>4 DEF Coalesce, Released
  <2>2. n.last = Failed \/ (n.last \in Nat /\ n.last >= edges)
    <3>1. n.last \in Results /\ n.last # Absent /\ n.lastGeneration = n.generation
      BY <1>1, <1>2, <1>4 DEF Coalesce, Node
    <3> QED BY <1>1, <3>1 DEF NodeOk, Shared, Results, Entries, Node
  <2>3. WorkerOk(w)
    <3>1. r.at = "collect"
      BY <1>4 DEF Coalesce
    <3>2. /\ w.at = "sampled" /\ w.token = r.token /\ w.value = n.last /\ w.kind = Kind(n.last)
      BY <1>1
    <3> HIDE DEF w, n
    <3> QED BY <1>1, <2>2, <3>1, <3>2 DEF Kind, Failed
  <2>4. NodeOk' /\ FlushedOk'
    BY <1>1, <2>1, NodeKept DEF FlushedOk
  <2> HIDE DEF w
  <2> QED BY <2>1, <2>3, <2>4, WorkerStoreInv
<1>5. ASSUME NEW outcome \in Outcomes, CollectEnd(x, outcome) PROVE StoreInv'
  <2> DEFINE value == IF outcome = "failed" THEN Failed ELSE r.value
             w == [r EXCEPT !.at = "sampled", !.value = value, !.kind = Kind(value), !.seen = 0]
             m == Remembered(x, value)
  <2>1. /\ worker' = [worker EXCEPT ![x] = w] /\ nodes' = [nodes EXCEPT ![1] = m]
        /\ UNCHANGED <<world, edges, state, memory, disk, commitLock>>
    <3>1. r.node = 1
      BY <1>2, <1>5 DEF CollectEnd
    <3>2. nodes' = [nodes EXCEPT ![1] = m]
      BY <1>5, <3>1 DEF CollectEnd
    <3>3. worker' = [worker EXCEPT ![x].at = "sampled", ![x].value = value,
                                   ![x].kind = Kind(value), ![x].seen = 0]
      BY <1>5 DEF CollectEnd
    <3>4. UNCHANGED <<world, edges, state, memory, disk, commitLock>>
      BY <1>5 DEF CollectEnd
    <3> HIDE DEF value, m
    <3>5. worker' = [worker EXCEPT ![x] = w]
      BY <1>1, <3>3
    <3> QED BY <3>2, <3>4, <3>5
  <2>2. r.at = "sampling" /\ r.value \in Nat /\ r.seen <= r.value /\ value \in {Failed, r.value}
    BY <1>1, <1>5, WorkerHere DEF CollectEnd, Stage, StoreInv
  <2> HIDE DEF value
  <2>3. WorkerOk(w)
    <3>1. w.at = "sampled" /\ w.token = r.token /\ w.value = value /\ w.kind = Kind(value)
      BY <1>1
    <3> HIDE DEF w
    <3> QED BY <1>1, <2>2, <3>1 DEF Kind, Failed
  <2>4. m \in Node /\ m.generation = n.generation /\ m.last = value /\ m.lastGeneration = r.seen
    BY <1>1, <1>2, <2>2 DEF Remembered, Node, Results, Entries
  <2> HIDE DEF w, m
  <2>5. Len(nodes') = Len(nodes) /\ nodes'[1] = m
    BY <1>1, <2>1, <2>4, NodeChanged
  <2>6. NodeOk' /\ FlushedOk'
    BY <1>1, <2>1, <2>2, <2>4, <2>5 DEF NodeOk, FlushedOk, Failed
  <2> QED BY <2>1, <2>3, <2>6, WorkerStoreInv
<1> QED BY <1>3, <1>4, <1>5

LEMMA StoreStoreInv ==
  ASSUME Upsets \subseteq {"restart"}, StoreInv, TypeInv', NEW x \in Workers, Store(x)
  PROVE  StoreInv'
<1> DEFINE r == worker[x]
<1>1. /\ worker \in Workings /\ r \in Worker /\ WorkerOk(r)
      /\ NodeOk /\ FlushedOk /\ DiskOk /\ Shared
  BY WorkerHere DEF StoreInv, TypeInv
<1>2. r.at \in Storing =>
        /\ \A y \in Workers : y # x => worker[y].at \notin Storing
        /\ r.at # "insert" => commitLock = Nobody
        /\ r.value \in Nat
  BY WorkerHere DEF StoreInv, TypeInv, Shared, LocksHeld, At, Storing, Stage
<1>3. ASSUME NEW stage \in Storing \cup {"deliver"}, Goes(x, stage), Quiet, WorkerOk(To(x, stage))
      PROVE  StoreInv'
  BY <1>1, <1>3, QuietStoreInv DEF Goes, To
<1>4. \A stage \in Stages :
        LET w == To(x, stage)
        IN  /\ w.at = stage /\ w.token = r.token /\ w.value = r.value /\ w.kind = r.kind
            /\ w.seen = r.seen
  BY <1>1 DEF To, Worker
<1>5. ASSUME NEW stage \in {"store", "compare", "write", "commit", "deliver"},
             r.at \in Storing \cup {"sampled"},
             r.at = "sampled" => r.value # Failed,
             Goes(x, stage), Quiet
      PROVE  StoreInv'
  <2>1. WorkerOk(To(x, stage))
    BY <1>1, <1>4, <1>5 DEF WorkerOk, TokenOk, SampleOk, CommitOk, Resting, Storing, Stages, InIo
  <2> QED BY <1>3, <1>5, <2>1 DEF Storing
<1>6. CASE StoreBegin(x)
  BY <1>5, <1>6 DEF StoreBegin, At, Quiet
<1>7. CASE StoreCheck(x)
  BY <1>5, <1>7 DEF StoreCheck, StoreEnds, At, Quiet, Storing
<1>8. CASE StoreWrite(x)
  BY <1>5, <1>8 DEF StoreWrite, StoreEnds, At, Quiet, Storing
<1>9. CASE StoreCompare(x)
  <2>1. CASE Goes(x, "write")
    BY <1>5, <1>9, <2>1 DEF StoreCompare, At, Quiet, Storing
  <2>2. CASE memory = [value |-> r.value, flushed |-> TRUE] /\ Goes(x, "confirm")
    <3>1. r.at = "compare" /\ Quiet
      BY <1>9 DEF StoreCompare, At, Quiet
    <3>2. disk \in {Absent, r.value}
      BY <1>1, <1>2, <2>2, <3>1 DEF FlushedOk, Storing
    <3>3. WorkerOk(To(x, "confirm"))
      BY <1>1, <1>4, <3>1, <3>2
         DEF WorkerOk, TokenOk, SampleOk, CommitOk, NotBehind, Resting, Storing, Stages, InIo
    <3> QED BY <1>3, <2>2, <3>1, <3>3 DEF Storing
  <2> QED BY <1>9, <2>1, <2>2 DEF StoreCompare
<1>10. ASSUME NEW w, worker' = [worker EXCEPT ![x] = w], WorkerOk(w)',
              UNCHANGED <<world, edges, nodes>>, FlushedOk', DiskOk',
              r.at \in Storing, state'.generation = state.generation
       PROVE  StoreInv'
  <2>1. \A y \in Workers : worker'[y] = IF y = x THEN w ELSE worker[y]
    BY <1>1, <1>10 DEF Workings
  <2>2. \A y \in Workers : y # x => WorkerOk(worker[y])'
    <3> SUFFICES ASSUME NEW y \in Workers, y # x PROVE WorkerOk(worker[y])'
      OBVIOUS
    <3>1. worker'[y] = worker[y] /\ worker[y].at \notin Storing /\ WorkerOk(worker[y])
      BY <1>2, <1>10, <2>1 DEF StoreInv
    <3> QED BY <1>10, <3>1 DEF WorkerOk, TokenOk, SampleOk, CommitOk, Storing
  <2>3. \A y \in Workers : WorkerOk(worker[y])'
    BY <1>10, <2>1, <2>2
  <2>4. NodeOk'
    BY <1>1, <1>10 DEF NodeOk
  <2> QED BY <1>10, <2>3, <2>4 DEF StoreInv
<1>12. CASE StoreConfirm(x)
  <2>1. /\ r.at = "confirm" /\ worker' = [worker EXCEPT ![x] = To(x, "deliver")]
        /\ state' = IF IsCurrent(x) THEN [state EXCEPT !.dirty = FALSE] ELSE state
        /\ UNCHANGED <<world, edges, seed, memory, disk, nodes, commitLock>>
    BY <1>1, <1>12 DEF StoreConfirm, StoreEnds, At, Goes, To
  <2>2. state'.generation = state.generation
    BY <1>1, <2>1 DEF Shared
  <2>3. FlushedOk' /\ DiskOk'
    BY <1>1, <2>1 DEF FlushedOk, DiskOk, WorkerOk, CommitOk, IsCurrent, NotBehind
  <2>4. PICK w : w = To(x, "deliver")
    OBVIOUS
  <2>5. /\ w.at = "deliver" /\ w.token = r.token /\ w.value = r.value /\ w.kind = r.kind
    BY <1>4, <2>4 DEF Stages
  <2>6. WorkerOk(w)'
    BY <1>1, <2>1, <2>2, <2>5 DEF WorkerOk, TokenOk, SampleOk, CommitOk, Resting, Storing
  <2> QED BY <1>10, <2>1, <2>2, <2>3, <2>4, <2>6 DEF Storing
<1>13. CASE StoreCommit(x)
  <2>1. /\ r.at = "commit" /\ commitLock = Nobody
        /\ UNCHANGED <<world, edges, seed, state, memory, nodes>>
    BY <1>13 DEF StoreCommit, At, Unlocked
  <2>2. CASE /\ IsCurrent(x) /\ disk' = r.value
             /\ worker' = [worker EXCEPT ![x] = To(x, "insert")] /\ commitLock' = x
    <3>1. r.token = state.generation /\ r.value >= edges /\ x # Nobody
      BY <1>1, <2>1, <2>2, CacheAssumption DEF IsCurrent, WorkerOk, SampleOk, Storing
    <3>2. FlushedOk' /\ DiskOk'
      BY <1>1, <2>1, <2>2, <3>1 DEF FlushedOk, DiskOk, NotBehind
    <3>3. PICK w : w = To(x, "insert")
      OBVIOUS
    <3>4. /\ w.at = "insert" /\ w.token = r.token /\ w.value = r.value /\ w.kind = r.kind
      BY <1>4, <3>3 DEF Stages, InIo, Storing
    <3>5. WorkerOk(w)'
      BY <1>1, <2>1, <2>2, <3>1, <3>4
         DEF WorkerOk, TokenOk, SampleOk, CommitOk, Resting, Storing
    <3> QED BY <1>10, <2>1, <2>2, <3>2, <3>3, <3>5 DEF Storing
  <2>3. CASE Goes(x, "deliver") /\ UNCHANGED <<disk, commitLock>>
    BY <1>5, <2>1, <2>3 DEF Quiet, Storing
  <2> QED BY <1>1, <1>13, <2>2, <2>3 DEF StoreCommit, Commits, StoreEnds, Goes, To
<1>14. CASE StoreInsert(x)
  <2>1. /\ r.at = "insert" /\ worker' = [worker EXCEPT ![x] = To(x, "deliver")]
        /\ memory' = [value |-> r.value, flushed |-> TRUE]
        /\ state' = [state EXCEPT !.dirty = FALSE]
        /\ UNCHANGED <<world, edges, seed, disk, nodes>>
    BY <1>1, <1>14 DEF StoreInsert, StoreEnds, At, Goes, To
  <2>2. state'.generation = state.generation
    BY <1>1, <2>1 DEF Shared
  <2>3. disk \in {Absent, r.value} /\ r.value >= edges
    BY <1>1, <2>1 DEF WorkerOk, CommitOk, SampleOk, Storing
  <2>4. FlushedOk' /\ DiskOk'
    BY <2>1, <2>3 DEF FlushedOk, DiskOk, NotBehind
  <2>5. PICK w : w = To(x, "deliver")
    OBVIOUS
  <2>6. /\ w.at = "deliver" /\ w.token = r.token /\ w.value = r.value /\ w.kind = r.kind
    BY <1>4, <2>5 DEF Stages
  <2>7. WorkerOk(w)'
    BY <1>1, <2>1, <2>2, <2>6 DEF WorkerOk, TokenOk, SampleOk, CommitOk, Resting, Storing
  <2> QED BY <1>10, <2>1, <2>2, <2>4, <2>5, <2>7 DEF Storing
<1> QED BY <1>6, <1>7, <1>8, <1>9, <1>12, <1>13, <1>14 DEF Store

LEMMA FreshStoreInv == Fresh => StoreInv
<1> SUFFICES ASSUME Fresh PROVE StoreInv
  OBVIOUS
<1>1. TypeInv
  BY FreshTypeInv
<1>2. nodes[1] = NewNode /\ Len(nodes) = 1
  <2> HIDE DEF NewNode
  <2> QED BY DEF Fresh
<1>3. NodeOk /\ FlushedOk /\ DiskOk
  BY <1>2 DEF Fresh, NodeOk, NewNode, FlushedOk, Empty, DiskOk, NotBehind, Absent
<1>4. ASSUME NEW x \in Workers PROVE WorkerOk(worker[x])
  <2>1. worker[x].at = "idle" /\ worker[x].kind = "none"
    BY DEF Fresh, Rest
  <2> QED BY <2>1 DEF WorkerOk, TokenOk, SampleOk, CommitOk, Resting, Storing
<1> QED BY <1>1, <1>3, <1>4 DEF StoreInv

LEMMA SourceStoreInv ==
  ASSUME Upsets \subseteq {"restart"}, StoreInv, TypeInv',
         Publish \/ Environment \/ \E x \in Workers : Begin(x)
  PROVE  StoreInv'
<1>1. /\ worker \in Workings /\ NodeOk /\ FlushedOk /\ DiskOk /\ Shared
      /\ \A x \in Workers : worker[x] \in Worker /\ WorkerOk(worker[x])
      /\ \A x \in Workers : commitLock = x <=> worker[x].at = "insert"
  BY WorkerHere DEF StoreInv, TypeInv, LocksHeld, At
<1>2. CASE InvalidateSource
  <2> DEFINE m == [nodes[1] EXCEPT !.generation = nodes[1].generation + 1]
  <2>1. nodes \in Seq(Node) /\ nodes[1] \in Node /\ 1 \in DOMAIN nodes /\ Len(nodes) = 1
    BY <1>1 DEF Shared, NodeOk
  <2>2. nodes' = [nodes EXCEPT ![1] = m]
    BY <1>2, <2>1 DEF InvalidateSource
  <2>3. /\ m \in Node /\ m.generation = nodes[1].generation + 1 /\ m.last = nodes[1].last
        /\ m.lastGeneration = nodes[1].lastGeneration
    BY <2>1 DEF Node
  <2> HIDE DEF m
  <2>4. Len(nodes') = 1 /\ nodes'[1] = m
    BY <2>1, <2>2, <2>3, NodeChanged
  <2>5. world' = world + 1 /\ UNCHANGED <<edges, state, memory, disk, commitLock, worker>>
    BY <1>2 DEF InvalidateSource
  <2>6. NodeOk'
    BY <1>1, <2>3, <2>4, <2>5 DEF NodeOk, Shared
  <2> QED BY <1>1, <2>5, <2>6
          DEF StoreInv, FlushedOk, DiskOk, NotBehind, WorkerOk, TokenOk, SampleOk, CommitOk
<1>3. CASE InvalidateCache
  <2>1. /\ edges' = world /\ state'.dirty = TRUE /\ state'.generation > state.generation
        /\ commitLock = Nobody
        /\ UNCHANGED <<world, memory, disk, nodes, commitLock, worker>>
    BY <1>1, <1>3 DEF InvalidateCache, Invalidated, Shared, Unknown, Unlocked
  <2>2. NodeOk' /\ FlushedOk' /\ DiskOk'
    BY <1>1, <2>1 DEF NodeOk, FlushedOk, DiskOk, Shared
  <2>3. ASSUME NEW x \in Workers PROVE WorkerOk(worker[x])'
    <3>1. worker[x].at # "insert"
      BY <1>1, <2>1, CacheAssumption
    <3>2. TokenOk(worker[x]) /\ SampleOk(worker[x]) /\ worker[x].token \in Nat
      BY <1>1 DEF WorkerOk, Worker
    <3>3. worker[x].at \in Resting => worker[x].kind = "none" /\ worker[x].at # "sampling" /\ worker[x].at # "confirm"
      BY <3>2 DEF TokenOk, Resting
    <3>4. worker[x].at \notin Resting => worker[x].token # state'.generation
                                         /\ worker[x].token <= state'.generation
      <4>1. state.generation \in Nat /\ state'.generation \in Nat
        BY DEF StoreInv, TypeInv, Shared
      <4> QED BY <2>1, <3>2, <4>1 DEF TokenOk
    <3>5. worker'[x] = worker[x]
      BY <2>1
    <3>6. TokenOk(worker[x])'
      BY <3>2, <3>4, <3>5 DEF TokenOk
    <3>7. SampleOk(worker[x])' /\ CommitOk(worker[x])'
      BY <3>1, <3>2, <3>3, <3>4, <3>5 DEF SampleOk, CommitOk
    <3> QED BY <3>6, <3>7 DEF WorkerOk
  <2> QED BY <2>2, <2>3 DEF StoreInv
<1>4. ASSUME NEW x \in Workers, Begin(x) PROVE StoreInv'
  <2> DEFINE generation == IF Known THEN state.generation ELSE seed
             w == [Rest("gate") EXCEPT !.node = Len(nodes), !.token = generation]
  <2>1. /\ worker' = [worker EXCEPT ![x] = w] /\ worker[x].at \in Resting
        /\ state' = [state EXCEPT !.generation = generation]
        /\ UNCHANGED <<world, edges, memory, disk, nodes, commitLock>>
    BY <1>4 DEF Begin
  <2>2. /\ generation \in Nat /\ generation # Unknown
        /\ Known => generation = state.generation
    BY <1>1 DEF Shared, Known, Unknown
  <2> HIDE DEF generation
  <2>3. state'.generation = generation /\ state'.dirty = state.dirty
    BY <1>1, <2>1 DEF Shared
  <2>4. w.at = "gate" /\ w.token = generation /\ w.kind = "none"
    BY DEF Rest
  <2> HIDE DEF w
  <2>5. NodeOk' /\ FlushedOk' /\ DiskOk'
    BY <1>1, <2>1, <2>3 DEF NodeOk, FlushedOk, DiskOk, NotBehind
  <2>6. worker'[x] = w /\ \A y \in Workers : y # x => worker'[y] = worker[y]
    BY <1>1, <2>1 DEF Workings
  <2>7. WorkerOk(worker[x])'
    BY <2>2, <2>3, <2>4, <2>6 DEF WorkerOk, TokenOk, SampleOk, CommitOk, Resting, Storing
  <2>8. ASSUME NEW y \in Workers, y # x PROVE WorkerOk(worker[y])'
    <3>1. worker'[y] = worker[y] /\ WorkerOk(worker[y]) /\ worker[y].token \in Nat
      BY <1>1, <2>6, <2>8 DEF Worker
    <3>2. CASE worker[y].at \in Resting
      <4>1. /\ worker[y].kind = "none" /\ worker[y].at \notin Storing
            /\ worker[y].at \notin {"sampling", "sampled", "insert", "confirm"}
        BY <3>1, <3>2 DEF WorkerOk, TokenOk, Resting, Storing
      <4> QED BY <3>1, <3>2, <4>1 DEF WorkerOk, TokenOk, SampleOk, CommitOk
    <3>3. CASE worker[y].at \notin Resting
      <4>1. Known
        BY <1>1, <3>1, <3>3 DEF WorkerOk, TokenOk, Known, Unknown, Shared
      <4>2. state'.generation = state.generation
        BY <2>2, <2>3, <4>1
      <4> QED BY <2>1, <3>1, <4>2 DEF WorkerOk, TokenOk, SampleOk, CommitOk, NotBehind
    <3> QED BY <3>2, <3>3
  <2> QED BY <2>5, <2>7, <2>8 DEF StoreInv
<1>5. CASE Evict \/ RemoveFile \/ OtherSource
  <2>1. /\ UNCHANGED <<world, edges, state, nodes, commitLock, worker>>
        /\ memory' \in {memory, Empty} /\ disk' \in {disk, Absent}
    BY <1>5 DEF Evict, RemoveFile, OtherSource
  <2>2. NodeOk' /\ FlushedOk' /\ DiskOk'
    BY <1>1, <2>1 DEF NodeOk, FlushedOk, DiskOk, NotBehind, Empty
  <2>3. \A x \in Workers : WorkerOk(worker[x])'
    BY <1>1, <2>1 DEF WorkerOk, TokenOk, SampleOk, CommitOk, NotBehind
  <2> QED BY <2>2, <2>3 DEF StoreInv
<1>6. CASE Restart
  <2>1. Fresh'
    BY <1>6 DEF Restart, Fresh
  <2>2. (Fresh => StoreInv)'
    BY FreshStoreInv, PTL
  <2> QED BY <2>1, <2>2
<1>7. ~Forget
  BY DEF Forget
<1> QED BY <1>2, <1>3, <1>4, <1>5, <1>6, <1>7 DEF Publish, Environment

LEMMA NextStoreInv ==
  ASSUME Upsets \subseteq {"restart"}, StoreInv, [Next]_vars PROVE StoreInv'
<1>1. TypeInv'
  BY NextTypeInv DEF StoreInv
<1>2. ASSUME NEW x \in Workers, Work(x) PROVE StoreInv'
  BY <1>1, <1>2, LoadStoreInv, CollectStoreInv, StoreStoreInv DEF Work, Collect
<1>3. CASE Publish \/ Environment \/ \E x \in Workers : Begin(x)
  BY <1>1, <1>3, SourceStoreInv
<1>4. CASE UNCHANGED vars
  BY <1>1, <1>4 DEF vars, StoreInv, NodeOk, FlushedOk, DiskOk, NotBehind, WorkerOk, TokenOk,
                    SampleOk, CommitOk
<1> QED BY <1>2, <1>3, <1>4 DEF Next

\* While the source is not marked dirty, its file is no older than the last event, also
\* between the rename and the memory entry (store_if_current), whatever a collection's
\* outcome; but the removal of the source or a permission change that fails refute it.
THEOREM FileStaysClean == ASSUME Upsets \subseteq {"restart"} PROVE Spec => []DiskClean
<1>1. Init => StoreInv
  BY FreshStoreInv DEF Init, Fresh
<1>2. StoreInv /\ [Next]_vars => StoreInv'
  BY NextStoreInv
<1>3. StoreInv => DiskClean
  BY DEF StoreInv, DiskOk, DiskClean, NotBehind
<1> QED BY <1>1, <1>2, <1>3, PTL DEF Spec

\* Only a commit, or a restart that counts anew, writes the file.
LEMMA CommitStep ==
  ASSUME Upsets \subseteq {"restart"}, StoreInv, Next, disk' # disk, disk' # Absent
  PROVE  disk' >= edges'
<1>1. CASE Restart
  BY <1>1 DEF Restart
<1>2. ASSUME NEW x \in Workers, StoreCommit(x) PROVE disk' >= edges'
  <2>1. /\ worker[x].at = "commit" /\ worker[x].token = state.generation
        /\ disk' = worker[x].value /\ edges' = edges
    BY <1>2 DEF StoreCommit, Commits, IsCurrent, At
  <2>2. SampleOk(worker[x])
    BY DEF StoreInv, WorkerOk
  <2> QED BY <2>1, <2>2 DEF SampleOk, Storing
<1>3. ASSUME NEW x \in Workers, ~StoreCommit(x), Begin(x) \/ Work(x) PROVE disk' = disk
  <2>1. Load(x) => disk' = disk
    BY DEF Load, SkipLoad, LoadBegin, ReadMemory, ReadFile, FillMemory, LoadHit, LoadMiss
  <2>2. Collect(x) => disk' = disk
    BY DEF Collect, Coalesce, CollectBegin, CollectEnd
  <2>3. Store(x) => disk' = disk
    BY <1>3 DEF Store, StoreBegin, StoreCheck, StoreCompare, StoreConfirm, StoreWrite, StoreInsert
  <2>4. Finish(x) => disk' = disk
    BY DEF Finish, SkipStore, FallbackBegin, Fallback, Deliver
  <2> QED BY <1>3, <2>1, <2>2, <2>3, <2>4 DEF Work, TakeGate, Begin
<1>4. Publish => disk' = disk
  BY DEF Publish, InvalidateSource, InvalidateCache
<1>5. Environment /\ ~Restart => disk' \in {disk, Absent}
  BY DEF Environment, Evict, RemoveFile, OtherSource, Forget
<1> QED BY <1>1, <1>2, <1>3, <1>4, <1>5 DEF Next

\* A file that is written holds no value older than the last event the cache was told of,
\* however long its worker was overtaken (the token is checked before and after the write).
THEOREM CommitsAlwaysCurrent == ASSUME Upsets \subseteq {"restart"} PROVE Spec => CommitCurrent
<1>1. Init => StoreInv
  BY FreshStoreInv DEF Init, Fresh
<1>2. StoreInv /\ [Next]_vars => StoreInv'
  BY NextStoreInv
<1>3. StoreInv /\ [Next]_vars => [disk' # disk /\ disk' # Absent => disk' >= edges']_vars
  BY CommitStep DEF vars
<1> QED BY <1>1, <1>2, <1>3, PTL DEF Spec, CommitCurrent

-----------------------------------------------------------------------------
(* What is shown is current, while every collection is healthy. *)

\* Nothing is a fallback.
HealthyOk(w) == w.purpose = "load" /\ w.value # Failed

\* What a load reads under a mark that still holds is current, and so is a hit, and what
\* the worker finds in the memory that confirms its value.
LoadOk(w) ==
    /\ w.at \in Reading =>
           w.seen <= state.generation /\ (w.seen = state.generation <=> ~state.dirty)
    /\ w.at \in {"fill", "check"} /\ ~state.dirty => NotBehind(w.read)
    /\ w.kind = "hit" /\ w.token = state.generation => w.value >= edges
    /\ w.at = "confirm" /\ w.token = state.generation => NotBehind(memory.value)

Past(w) == w.at \in {"sampled"} \cup Storing

\* While a load reads what an event has made old, no worker has a current result: the next
\* collection waits for the gate.
ReadersAlone ==
    \A x, y \in Workers :
        worker[x].at \in Reading /\ Past(worker[y]) /\ worker[y].token = state.generation
            => ~state.dirty

MemoryOk == ~state.dirty => NotBehind(memory.value)

\* From it follows ShownCurrent.
LoadInv ==
    /\ StoreInv /\ ReadersAlone /\ MemoryOk /\ nodes[1].last # Failed
    /\ \A x \in Workers : HealthyOk(worker[x]) /\ LoadOk(worker[x])

\* The gate of the one node lets one worker at a time load and collect.
LEMMA OneGate ==
  ASSUME CacheAssumption, LoadInv, NEW x \in Workers, NEW y \in Workers,
         worker[x].at \in Gated, worker[y].at \in Gated
  PROVE  x = y
<1>1. HoldsGate(x) /\ HoldsGate(y)
  BY DEF LoadInv, HealthyOk, HoldsGate
<1>2. worker[x].node = 1 /\ worker[y].node = 1 /\ 1 \in DOMAIN nodes
  BY WorkerHere DEF LoadInv, StoreInv, TypeInv, Shared, NodeOk, Gated, Reading, Resting
<1> QED BY <1>1, <1>2 DEF LoadInv, StoreInv, TypeInv, LocksHeld

\* A step of one worker that leaves the memory and the invalidation state alone.
LEMMA WorkerLoadInv ==
  ASSUME LoadInv, StoreInv', NEW x \in Workers, NEW w,
         worker' = [worker EXCEPT ![x] = w], UNCHANGED <<edges, state, memory>>,
         nodes'[1].last # Failed, HealthyOk(w), LoadOk(w),
         w.at \in Reading => worker[x].at \in Reading \/ ~state.dirty,
         Past(w) => /\ w.token = worker[x].token
                    /\ \/ Past(worker[x])
                       \/ \A y \in Workers : y # x => worker[y].at \notin Reading
  PROVE  LoadInv'
<1>1. \A y \in Workers : worker'[y] = IF y = x THEN w ELSE worker[y]
  BY DEF LoadInv, StoreInv, TypeInv, Workings
<1>2. \A y \in Workers : HealthyOk(worker'[y]) /\ LoadOk(worker'[y])
  BY <1>1 DEF LoadInv
<1>3. (\A y \in Workers : HealthyOk(worker[y]) /\ LoadOk(worker[y]))'
  BY <1>2 DEF HealthyOk, LoadOk, NotBehind
<1>4. ReadersAlone'
  <2> SUFFICES ASSUME NEW y \in Workers, NEW z \in Workers, worker'[y].at \in Reading,
                      Past(worker'[z]), worker'[z].token = state.generation
               PROVE  ~state.dirty
    BY DEF ReadersAlone, Past
  <2>1. \A u \in Workers : worker[u].at \in Reading => ~Past(worker[u])
    BY DEF Past, Reading, Storing
  <2>2. w.at \in Reading => ~Past(w)
    BY DEF Past, Reading, Storing
  <2> QED BY <1>1, <2>1, <2>2 DEF LoadInv, ReadersAlone
<1>5. MemoryOk'
  BY DEF LoadInv, MemoryOk, NotBehind
<1> QED BY <1>3, <1>4, <1>5 DEF LoadInv

LEMMA LoadLoadInv ==
  ASSUME CacheAssumption, Outcomes \subseteq {"healthy"}, LoadInv, StoreInv', NEW x \in Workers,
         Load(x) \/ CollectBegin(x) \/ Finish(x)
  PROVE  LoadInv'
<1> DEFINE r == worker[x]
           n == nodes[1]
<1>a. worker \in Workings /\ r \in Worker
  BY WorkerHere DEF LoadInv, StoreInv
<1>1. /\ worker \in Workings /\ r \in Worker /\ TokenOk(r) /\ HealthyOk(r) /\ LoadOk(r)
      /\ n \in Node /\ n.last # Failed /\ Shared /\ DiskOk /\ MemoryOk
      /\ (r.at \notin Resting => r.node = 1)
  BY WorkerHere DEF LoadInv, StoreInv, TypeInv, Shared, NodeOk, WorkerOk
<1>2. ASSUME NEW w, worker' = [worker EXCEPT ![x] = w], Quiet, HealthyOk(w), LoadOk(w),
             w.at \in Reading => r.at \in Reading \/ ~state.dirty, ~Past(w)
      PROVE LoadInv'
  BY <1>1, <1>2, WorkerLoadInv DEF Quiet
<1> USE DEF HealthyOk, LoadOk, Past, At, Resting, Reading, Storing, To, Worker
<1>3. CASE SkipLoad(x)
  <2> DEFINE w == To(x, "collect")
  <2>1. worker' = [worker EXCEPT ![x] = w] /\ Quiet
    BY <1>1, <1>3 DEF SkipLoad, Goes, To, Quiet
  <2>2. HealthyOk(w) /\ LoadOk(w) /\ (w.at \in Reading => r.at \in Reading \/ ~state.dirty) /\ ~Past(w)
    BY <1>1, <1>3 DEF SkipLoad
  <2> HIDE DEF w
  <2> QED BY <1>2, <2>1, <2>2
<1>4. CASE LoadBegin(x)
  <2> DEFINE w == [r EXCEPT !.at = IF state.dirty THEN "collect" ELSE "memory",
                            !.seen = IF state.dirty THEN 0 ELSE state.generation]
  <2>1. worker' = [worker EXCEPT ![x] = w] /\ Quiet
    BY <1>1, <1>4 DEF LoadBegin, Goes, To, Quiet
  <2>2. HealthyOk(w) /\ LoadOk(w) /\ (w.at \in Reading => r.at \in Reading \/ ~state.dirty) /\ ~Past(w)
    BY <1>1, <1>4 DEF LoadBegin, Shared
  <2> HIDE DEF w
  <2> QED BY <1>2, <2>1, <2>2
<1>5. CASE ReadMemory(x)
  <2> DEFINE w == [r EXCEPT !.at = IF memory = Empty THEN "file" ELSE "check", !.read = memory.value]
  <2>1. worker' = [worker EXCEPT ![x] = w] /\ Quiet
    BY <1>1, <1>5 DEF ReadMemory, Goes, To, Quiet
  <2>2. HealthyOk(w) /\ LoadOk(w) /\ (w.at \in Reading => r.at \in Reading \/ ~state.dirty) /\ ~Past(w)
    BY <1>1, <1>5 DEF ReadMemory, MemoryOk
  <2> HIDE DEF w
  <2> QED BY <1>2, <2>1, <2>2
<1>6. CASE ReadFile(x)
  <2>1. PICK found \in {disk, Absent} :
           worker' = [worker EXCEPT ![x].at = IF found = Absent THEN "check" ELSE "fill",
                                    ![x].read = found]
    BY <1>6 DEF ReadFile
  <2> DEFINE w == [r EXCEPT !.at = IF found = Absent THEN "check" ELSE "fill", !.read = found]
  <2>2. worker' = [worker EXCEPT ![x] = w] /\ Quiet
    <3>1. Quiet
      BY <1>6 DEF ReadFile, Quiet
    <3> QED BY <1>a, <2>1, <3>1
  <2>3. HealthyOk(w) /\ LoadOk(w) /\ (w.at \in Reading => r.at \in Reading \/ ~state.dirty) /\ ~Past(w)
    BY <1>1, <1>6, <2>1 DEF ReadFile, DiskOk, NotBehind
  <2> HIDE DEF w
  <2> QED BY <1>2, <2>2, <2>3
<1>7. CASE LoadMiss(x)
  <2> DEFINE w == [r EXCEPT !.at = "collect", !.read = Absent, !.seen = 0]
  <2>1. worker' = [worker EXCEPT ![x] = w] /\ Quiet
    BY <1>1, <1>7 DEF LoadMiss, Goes, To, Quiet
  <2>2. HealthyOk(w) /\ LoadOk(w) /\ (w.at \in Reading => r.at \in Reading \/ ~state.dirty) /\ ~Past(w)
    BY <1>1, <1>7 DEF LoadMiss
  <2> HIDE DEF w
  <2> QED BY <1>2, <2>1, <2>2
<1>8. CASE CollectBegin(x)
  <2> DEFINE w == [r EXCEPT !.at = "sampling", !.value = world, !.seen = nodes[r.node].generation]
  <2>1. worker' = [worker EXCEPT ![x] = w] /\ Quiet
    BY <1>1, <1>8 DEF CollectBegin, Goes, To, Quiet
  <2>2. HealthyOk(w) /\ LoadOk(w) /\ (w.at \in Reading => r.at \in Reading \/ ~state.dirty) /\ ~Past(w)
    <3>1. r.at = "collect" /\ world \in Nat
      BY <1>1, <1>8 DEF CollectBegin, Shared
    <3>2. /\ w.at = "sampling" /\ w.value = world /\ w.kind = r.kind /\ w.purpose = r.purpose
          /\ w.token = r.token
      BY <1>a
    <3>3. edges <= world
      BY DEF LoadInv, StoreInv, NodeOk
    <3> HIDE DEF w
    <3> QED BY <1>1, <3>1, <3>2, <3>3 DEF Failed, Shared
  <2> HIDE DEF w
  <2> QED BY <1>2, <2>1, <2>2
<1>9. CASE SkipStore(x)
  <2> DEFINE w == To(x, "deliver")
  <2>1. worker' = [worker EXCEPT ![x] = w] /\ Quiet
    BY <1>1, <1>9 DEF SkipStore, Goes, To, Quiet
  <2>2. HealthyOk(w) /\ LoadOk(w) /\ (w.at \in Reading => r.at \in Reading \/ ~state.dirty) /\ ~Past(w)
    BY <1>1, <1>9 DEF SkipStore
  <2> HIDE DEF w
  <2> QED BY <1>2, <2>1, <2>2
<1>10. ~FallbackBegin(x) /\ ~Fallback(x)
  BY <1>1 DEF FallbackBegin, Fallback, Oversized
<1>11. CASE Deliver(x)
  <2>1. PICK at \in {"shown", "rejected"} : worker' = [worker EXCEPT ![x] = Rest(at)]
    BY <1>11 DEF Deliver
  <2> DEFINE w == Rest(at)
  <2>2. /\ Quiet /\ HealthyOk(w) /\ LoadOk(w) /\ ~Past(w) /\ w.at \notin Reading
    BY <1>11 DEF Deliver, Quiet, Rest, Failed, Absent
  <2> HIDE DEF w
  <2>3. worker' = [worker EXCEPT ![x] = w]
    BY <2>1 DEF w
  <2> QED BY <1>2, <2>2, <2>3
<1>12. CASE LoadHit(x)
  <2> DEFINE w == [r EXCEPT !.at = "deliver", !.value = r.read, !.kind = "hit",
                            !.read = Absent, !.seen = 0]
  <2>1. /\ worker' = [worker EXCEPT ![x] = w]
        /\ nodes' = [nodes EXCEPT ![1] = [nodes[1] EXCEPT !.gate = Nobody]]
        /\ UNCHANGED <<world, edges, state, memory, disk, commitLock>>
    BY <1>1, <1>12 DEF LoadHit, Released
  <2>2. Known
    BY <1>1, <1>12 DEF LoadHit, TokenOk, Known, Unknown, Shared
  <2>3. /\ HealthyOk(w) /\ LoadOk(w) /\ ~Past(w) /\ w.at \notin Reading
    <3>1. r.read # Absent /\ r.read \in Nat /\ ~state.dirty /\ r.at = "check"
      BY <1>a, <1>12, <2>2 DEF LoadHit, StillCurrent, Entries
    <3>2. /\ w.at = "deliver" /\ w.kind = "hit" /\ w.value = r.read /\ w.purpose = r.purpose
      BY <1>a
    <3> HIDE DEF w
    <3> QED BY <1>1, <3>1, <3>2 DEF NotBehind, Failed
  <2>4. nodes'[1].last # Failed
    BY <1>1, <2>1, NodeKept DEF LoadInv
  <2> HIDE DEF w
  <2> QED BY <2>1, <2>3, <2>4, WorkerLoadInv
<1>13. CASE FillMemory(x)
  <2>1. /\ worker' = [worker EXCEPT ![x] = To(x, "check")] /\ memory'.value = r.read
        /\ r.at = "fill" /\ UNCHANGED <<edges, state, nodes>>
    BY <1>a, <1>13 DEF FillMemory, Goes, Filled
  <2>2. PICK w : w = To(x, "check")
    OBVIOUS
  <2>3. /\ w.at = "check" /\ w.read = r.read /\ w.kind = r.kind /\ w.token = r.token
        /\ w.seen = r.seen /\ w.value = r.value /\ w.purpose = r.purpose
    BY <1>a, <2>2
  <2>4. \A y \in Workers : worker'[y] = IF y = x THEN w ELSE worker[y]
    BY <1>a, <2>1, <2>2 DEF Workings
  <2>5. ~state.dirty => NotBehind(r.read)
    BY <1>1, <2>1
  <2>6. MemoryOk' /\ nodes'[1].last # Failed
    BY <1>1, <2>1, <2>5 DEF MemoryOk, NotBehind
  <2>7. (HealthyOk(worker[x]) /\ LoadOk(worker[x]))'
    BY <1>1, <2>1, <2>3, <2>4 DEF NotBehind
  <2>8. ASSUME NEW y \in Workers, y # x PROVE (HealthyOk(worker[y]) /\ LoadOk(worker[y]))'
    <3>1. HealthyOk(worker[y]) /\ LoadOk(worker[y]) /\ worker'[y] = worker[y]
      BY <2>4, <2>8 DEF LoadInv
    <3>2. worker[y].at = "confirm" /\ worker[y].token = state.generation => ~state.dirty
      BY <2>1 DEF LoadInv, ReadersAlone
    <3> QED BY <2>1, <2>5, <3>1, <3>2 DEF NotBehind
  <2>9. ReadersAlone'
    BY <2>1, <2>3, <2>4 DEF LoadInv, ReadersAlone
  <2> QED BY <2>6, <2>7, <2>8, <2>9 DEF LoadInv
<1> QED BY <1>3, <1>4, <1>5, <1>6, <1>7, <1>8, <1>9, <1>10, <1>11, <1>12, <1>13 DEF Load, Finish

LEMMA CollectLoadInv ==
  ASSUME CacheAssumption, Outcomes \subseteq {"healthy"}, LoadInv, StoreInv', NEW x \in Workers,
         TakeGate(x) \/ Coalesce(x) \/ \E outcome \in Outcomes : CollectEnd(x, outcome)
  PROVE  LoadInv'
<1> DEFINE r == worker[x]
           n == nodes[1]
<1>1. /\ worker \in Workings /\ r \in Worker /\ HealthyOk(r) /\ LoadOk(r)
      /\ nodes \in Seq(Node) /\ n \in Node /\ 1 \in DOMAIN nodes /\ n.last # Failed
  BY WorkerHere DEF LoadInv, StoreInv, TypeInv, Shared, NodeOk
<1>2. r.at \notin Resting => r.node = 1
  BY WorkerHere, <1>1 DEF LoadInv, StoreInv, NodeOk
<1>3. r.at \in Gated => \A y \in Workers : y # x => worker[y].at \notin Reading
  BY OneGate DEF Gated
<1>4. CASE TakeGate(x)
  <2> DEFINE w == To(x, "lookup")
  <2>1. /\ worker' = [worker EXCEPT ![x] = w]
        /\ nodes' = [nodes EXCEPT ![1] = [nodes[1] EXCEPT !.gate = x]]
        /\ UNCHANGED <<world, edges, state, memory>>
    BY <1>1, <1>2, <1>4 DEF TakeGate, Goes, To, At, Resting
  <2>2. w.at = "lookup" /\ w.kind = r.kind /\ w.value = r.value /\ w.token = r.token
        /\ w.purpose = r.purpose
    BY <1>1 DEF To, Worker
  <2> HIDE DEF w
  <2>3. HealthyOk(w) /\ LoadOk(w) /\ w.at \notin Reading /\ ~Past(w)
    BY <1>1, <2>2 DEF HealthyOk, LoadOk, Reading, Past, Storing
  <2>4. nodes'[1].last # Failed
    BY <1>1, <2>1, NodeKept DEF LoadInv
  <2> QED BY <2>1, <2>3, <2>4, WorkerLoadInv
<1>5. CASE Coalesce(x)
  <2> DEFINE w == [r EXCEPT !.at = "sampled", !.value = n.last, !.kind = Kind(n.last)]
  <2>1. /\ worker' = [worker EXCEPT ![x] = w] /\ r.at = "collect"
        /\ nodes' = [nodes EXCEPT ![1] = [nodes[1] EXCEPT !.gate = Nobody]]
        /\ UNCHANGED <<world, edges, state, memory>>
    BY <1>1, <1>2, <1>5 DEF Coalesce, Released, At, Resting
  <2>2. w.at = "sampled" /\ w.kind = "fresh" /\ w.value = n.last /\ w.token = r.token
        /\ w.purpose = r.purpose
    BY <1>1 DEF Kind, Worker
  <2> HIDE DEF w
  <2>3. HealthyOk(w) /\ LoadOk(w) /\ w.at \notin Reading
    BY <1>1, <2>2 DEF HealthyOk, LoadOk, Reading
  <2>4. nodes'[1].last # Failed
    BY <1>1, <2>1, NodeKept DEF LoadInv
  <2> QED BY <1>3, <2>1, <2>2, <2>3, <2>4, WorkerLoadInv DEF Gated
<1>6. ASSUME NEW outcome \in Outcomes, CollectEnd(x, outcome) PROVE LoadInv'
  <2> DEFINE w == [r EXCEPT !.at = "sampled", !.value = r.value, !.kind = Kind(r.value), !.seen = 0]
             m == Remembered(x, r.value)
  <2>1. outcome # "failed" /\ r.at = "sampling" /\ UNCHANGED <<world, edges, state, memory>>
    BY <1>6 DEF CollectEnd, At
  <2>2. nodes' = [nodes EXCEPT ![1] = m]
    BY <1>2, <1>6, <2>1 DEF CollectEnd, Resting
  <2>3. worker' = [worker EXCEPT ![x] = w]
    BY <1>1, <1>6, <2>1 DEF CollectEnd
  <2>4. w.at = "sampled" /\ w.kind = "fresh" /\ w.value = r.value /\ w.token = r.token
        /\ w.purpose = r.purpose
    BY <1>1 DEF Kind, Worker, HealthyOk
  <2>5. m \in Node /\ m.last = r.value
    BY <1>1, <1>2, <2>1 DEF Remembered, Node, Worker, Resting
  <2> HIDE DEF w, m
  <2>6. nodes'[1].last # Failed
    BY <1>1, <2>2, <2>5, NodeChanged DEF HealthyOk
  <2>7. HealthyOk(w) /\ LoadOk(w) /\ w.at \notin Reading
    BY <1>1, <2>4 DEF HealthyOk, LoadOk, Reading
  <2> QED BY <1>3, <2>1, <2>3, <2>4, <2>6, <2>7, WorkerLoadInv DEF Gated
<1> QED BY <1>4, <1>5, <1>6

\* The mark is taken away only when nobody reads under it.
LEMMA MarkTakenLoadInv ==
  ASSUME LoadInv, StoreInv', NEW x \in Workers, NEW w,
         worker' = [worker EXCEPT ![x] = w], UNCHANGED <<edges, nodes>>,
         Past(worker[x]), worker[x].at \in Storing, worker[x].token = state.generation,
         state'.generation = state.generation, state'.dirty = FALSE,
         NotBehind(memory'.value), HealthyOk(w), w.at = "deliver",
         w.kind = "hit" => w.value >= edges
  PROVE  LoadInv'
<1>1. \A y \in Workers : worker'[y] = IF y = x THEN w ELSE worker[y]
  BY DEF LoadInv, StoreInv, TypeInv, Workings
<1>2. \A y \in Workers : worker[y].at \in Reading => ~state.dirty
  BY DEF LoadInv, ReadersAlone
<1>3. \A y \in Workers : (HealthyOk(worker[y]) /\ LoadOk(worker[y]))'
  <2> SUFFICES ASSUME NEW y \in Workers PROVE (HealthyOk(worker[y]) /\ LoadOk(worker[y]))'
    OBVIOUS
  <2>1. CASE y = x
    BY <1>1, <2>1 DEF HealthyOk, LoadOk, Reading, NotBehind
  <2>2. CASE y # x
    <3>1. worker'[y] = worker[y] /\ HealthyOk(worker[y]) /\ LoadOk(worker[y])
      BY <1>1, <2>2 DEF LoadInv
    <3>2. worker[y].at \in {"fill", "check"} => worker[y].at \in Reading
      BY DEF Reading
    <3>3. NotBehind(memory.value)'
      BY DEF NotBehind
    <3> QED BY <1>2, <3>1, <3>2, <3>3 DEF HealthyOk, LoadOk, NotBehind
  <2> QED BY <2>1, <2>2
<1>4. ReadersAlone' /\ MemoryOk'
  BY DEF ReadersAlone, MemoryOk, NotBehind
<1> QED BY <1>3, <1>4 DEF LoadInv

LEMMA StoreLoadInv ==
  ASSUME LoadInv, StoreInv', NEW x \in Workers, Store(x) PROVE LoadInv'
<1> DEFINE r == worker[x]
<1>1. /\ worker \in Workings /\ r \in Worker /\ HealthyOk(r) /\ LoadOk(r)
      /\ TokenOk(r) /\ SampleOk(r) /\ CommitOk(r) /\ nodes[1].last # Failed /\ MemoryOk
      /\ state \in [generation : Nat, dirty : BOOLEAN]
  BY WorkerHere DEF LoadInv, StoreInv, TypeInv, WorkerOk, Shared
<1>2. \A stage \in Stages :
        LET w == To(x, stage)
        IN  /\ w.at = stage /\ w.token = r.token /\ w.value = r.value /\ w.kind = r.kind
            /\ w.purpose = r.purpose
  BY <1>1 DEF To, Worker
<1>3. ASSUME NEW stage \in Storing \cup {"deliver"}, r.at \in {"sampled"} \cup Storing,
             Goes(x, stage), UNCHANGED <<edges, state, memory, nodes>>,
             stage = "confirm" => (r.token = state.generation => NotBehind(memory.value))
      PROVE  LoadInv'
  <2>1. PICK w : w = To(x, stage)
    OBVIOUS
  <2>2. /\ w.at = stage /\ w.token = r.token /\ w.value = r.value /\ w.kind = r.kind
        /\ w.purpose = r.purpose
    BY <1>2, <2>1 DEF Stages, InIo
  <2>3. worker' = [worker EXCEPT ![x] = w]
    BY <1>1, <1>3, <2>1 DEF Goes, To
  <2>4. /\ HealthyOk(w) /\ w.at \notin Reading /\ Past(r)
    BY <1>1, <1>3, <2>2 DEF HealthyOk, Reading, Storing, Past
  <2>5. LoadOk(w)
    BY <1>1, <1>3, <2>2, <2>4 DEF LoadOk, Reading
  <2> QED BY <1>1, <1>3, <2>2, <2>3, <2>4, <2>5, WorkerLoadInv
<1>4. CASE StoreBegin(x)
  BY <1>3, <1>4 DEF StoreBegin, At, Storing
<1>5. CASE StoreCheck(x)
  BY <1>3, <1>5 DEF StoreCheck, StoreEnds, At, Storing
<1>6. CASE StoreWrite(x)
  BY <1>3, <1>6 DEF StoreWrite, StoreEnds, At, Storing
<1>7. CASE StoreCompare(x)
  <2>1. r.at = "compare" /\ r.kind = "fresh" /\ UNCHANGED <<edges, state, memory, nodes>>
    BY <1>1, <1>7 DEF StoreCompare, At, SampleOk, Storing
  <2>2. CASE Goes(x, "write")
    BY <1>3, <2>1, <2>2 DEF Storing
  <2>3. CASE memory = [value |-> r.value, flushed |-> TRUE] /\ Goes(x, "confirm")
    <3>1. r.token = state.generation => NotBehind(memory.value)
      BY <1>1, <2>1, <2>3 DEF SampleOk, NotBehind
    <3> QED BY <1>3, <2>1, <2>3, <3>1 DEF Storing
  <2> QED BY <1>7, <2>2, <2>3 DEF StoreCompare
<1>8. CASE StoreCommit(x)
  <2>1. r.at = "commit" /\ UNCHANGED <<edges, state, memory, nodes>>
    BY <1>8 DEF StoreCommit, At
  <2>2. Goes(x, "insert") \/ Goes(x, "deliver")
    BY <1>8 DEF StoreCommit, StoreEnds
  <2> QED BY <1>3, <2>1, <2>2 DEF Storing
<1>9. CASE StoreConfirm(x)
  <2>1. /\ r.at = "confirm" /\ Goes(x, "deliver") /\ UNCHANGED <<edges, memory, nodes>>
        /\ state' = IF IsCurrent(x) THEN [state EXCEPT !.dirty = FALSE] ELSE state
    BY <1>9 DEF StoreConfirm, StoreEnds, At
  <2>2. CASE ~IsCurrent(x)
    BY <1>3, <2>1, <2>2 DEF Storing
  <2>3. CASE IsCurrent(x)
    <3>1. /\ r.token = state.generation /\ state'.generation = state.generation
          /\ state'.dirty = FALSE
      BY <1>1, <2>1, <2>3 DEF IsCurrent
    <3>2. NotBehind(memory'.value) /\ r.kind = "fresh"
      BY <1>1, <2>1, <3>1 DEF LoadOk, SampleOk, Storing
    <3>3. PICK w : w = To(x, "deliver")
      OBVIOUS
    <3>4. w.at = "deliver" /\ HealthyOk(w) /\ w.kind = "fresh"
      BY <1>1, <1>2, <3>2, <3>3 DEF Stages, HealthyOk
    <3>5. worker' = [worker EXCEPT ![x] = w]
      BY <1>1, <2>1, <3>3 DEF Goes, To
    <3> QED BY <2>1, <3>1, <3>2, <3>4, <3>5, MarkTakenLoadInv DEF Past, Storing
  <2> QED BY <2>2, <2>3
<1>10. CASE StoreInsert(x)
  <2>1. /\ r.at = "insert" /\ Goes(x, "deliver") /\ UNCHANGED <<edges, nodes>>
        /\ state' = [state EXCEPT !.dirty = FALSE] /\ memory' = [value |-> r.value, flushed |-> TRUE]
    BY <1>10 DEF StoreInsert, StoreEnds, At
  <2>2. /\ r.token = state.generation /\ state'.generation = state.generation
        /\ state'.dirty = FALSE
    BY <1>1, <2>1 DEF CommitOk
  <2>3. NotBehind(memory'.value) /\ r.kind = "fresh"
    BY <1>1, <2>1, <2>2 DEF SampleOk, NotBehind, Storing
  <2>4. PICK w : w = To(x, "deliver")
    OBVIOUS
  <2>5. w.at = "deliver" /\ HealthyOk(w) /\ w.kind = "fresh"
    BY <1>1, <1>2, <2>3, <2>4 DEF Stages, HealthyOk
  <2>6. worker' = [worker EXCEPT ![x] = w]
    BY <1>1, <2>1, <2>4 DEF Goes, To
  <2> QED BY <2>1, <2>2, <2>3, <2>5, <2>6, MarkTakenLoadInv DEF Past, Storing
<1> QED BY <1>4, <1>5, <1>6, <1>7, <1>8, <1>9, <1>10 DEF Store

LEMMA FreshLoadInv == Fresh => LoadInv
<1> SUFFICES ASSUME Fresh PROVE LoadInv
  OBVIOUS
<1>1. StoreInv
  BY FreshStoreInv
<1>2. nodes[1] = NewNode
  <2> HIDE DEF NewNode
  <2> QED BY DEF Fresh
<1>3. nodes[1].last # Failed /\ MemoryOk
  BY <1>2 DEF Fresh, NewNode, Failed, Absent, MemoryOk, NotBehind, Empty
<1>4. ASSUME NEW x \in Workers
      PROVE  HealthyOk(worker[x]) /\ LoadOk(worker[x]) /\ worker[x].at \notin Reading
  BY DEF Fresh, Rest, HealthyOk, LoadOk, Reading, Failed, Absent
<1> QED BY <1>1, <1>3, <1>4 DEF LoadInv, ReadersAlone

LEMMA SourceLoadInv ==
  ASSUME Upsets \subseteq {"restart"}, LoadInv, StoreInv',
         Publish \/ Environment \/ \E x \in Workers : Begin(x)
  PROVE  LoadInv'
<1>1. /\ worker \in Workings /\ NodeOk /\ MemoryOk /\ Shared /\ nodes[1].last # Failed
      /\ \A x \in Workers : /\ worker[x] \in Worker /\ TokenOk(worker[x])
                            /\ HealthyOk(worker[x]) /\ LoadOk(worker[x])
  BY WorkerHere DEF LoadInv, StoreInv, TypeInv, WorkerOk
<1>2. CASE InvalidateSource
  <2>1. UNCHANGED <<edges, state, memory, worker>> /\ Len(nodes) = 1
    BY <1>1, <1>2 DEF InvalidateSource, NodeOk
  <2>2. nodes'[1].last = nodes[1].last
    <3> DEFINE m == [nodes[1] EXCEPT !.generation = nodes[1].generation + 1]
    <3>1. nodes \in Seq(Node) /\ nodes[1] \in Node /\ 1 \in DOMAIN nodes
      BY <1>1, <2>1 DEF Shared
    <3>2. nodes' = [nodes EXCEPT ![1] = m] /\ m \in Node /\ m.last = nodes[1].last
      BY <1>2, <2>1, <3>1 DEF InvalidateSource, Node
    <3> HIDE DEF m
    <3> QED BY <3>1, <3>2, NodeChanged
  <2> QED BY <1>1, <2>1, <2>2
          DEF LoadInv, ReadersAlone, MemoryOk, NotBehind, HealthyOk, LoadOk, Past
<1>3. CASE InvalidateCache
  <2>1. /\ state'.dirty = TRUE /\ state'.generation > state.generation
        /\ UNCHANGED <<memory, nodes, worker>>
    BY <1>1, <1>3 DEF InvalidateCache, Invalidated, Shared, Unknown
  <2>2. state.generation \in Nat /\ state'.generation \in Nat
    BY DEF LoadInv, StoreInv, TypeInv, Shared
  <2>3. ASSUME NEW x \in Workers
        PROVE  /\ worker'[x] = worker[x] /\ HealthyOk(worker[x]) /\ LoadOk(worker[x])
               /\ worker[x].token \in Nat /\ worker[x].seen \in Nat
               /\ worker[x].at \notin Resting => worker[x].token # state'.generation
               /\ worker[x].at \in Resting => worker[x].kind = "none"
    BY <1>1, <2>1, <2>2 DEF TokenOk, Worker
  <2>4. ASSUME NEW x \in Workers PROVE HealthyOk(worker[x])' /\ LoadOk(worker[x])'
    <3>1. worker[x].at \in Resting => worker[x].at \notin Reading /\ worker[x].at # "confirm"
      BY DEF Resting, Reading
    <3> QED BY <2>1, <2>2, <2>3, <3>1 DEF HealthyOk, LoadOk
  <2>5. ReadersAlone' /\ MemoryOk'
    BY <2>1, <2>3 DEF ReadersAlone, MemoryOk, Past, Storing, Resting
  <2> QED BY <1>1, <2>1, <2>4, <2>5 DEF LoadInv
<1>4. ASSUME NEW x \in Workers, Begin(x) PROVE LoadInv'
  <2> DEFINE generation == IF Known THEN state.generation ELSE seed
             w == [Rest("gate") EXCEPT !.node = Len(nodes), !.token = generation]
  <2>1. /\ worker' = [worker EXCEPT ![x] = w] /\ worker[x].at \in Resting
        /\ state' = [state EXCEPT !.generation = generation]
        /\ UNCHANGED <<edges, memory, nodes>>
    BY <1>4 DEF Begin
  <2>2. Known => generation = state.generation
    OBVIOUS
  <2> HIDE DEF generation
  <2>3. state'.generation = generation /\ state'.dirty = state.dirty
    BY <1>1, <2>1 DEF Shared
  <2>4. w.at = "gate" /\ w.kind = "none" /\ w.purpose = "load" /\ w.value = Absent
    BY DEF Rest
  <2> HIDE DEF w
  <2>5. worker'[x] = w /\ \A y \in Workers : y # x => worker'[y] = worker[y]
    BY <1>1, <2>1 DEF Workings
  <2>6. (HealthyOk(worker[x]) /\ LoadOk(worker[x]))'
    BY <2>4, <2>5 DEF HealthyOk, LoadOk, Reading, Failed, Absent
  <2>7. \A y \in Workers : worker[y].at \notin Resting => state'.generation = state.generation
    <3>1. \A y \in Workers : worker[y].at \notin Resting => Known
      BY <1>1 DEF TokenOk, Known, Unknown, Shared, Worker
    <3> QED BY <2>2, <2>3, <3>1
  <2>8. ASSUME NEW y \in Workers, y # x PROVE (HealthyOk(worker[y]) /\ LoadOk(worker[y]))'
    <3>1. worker'[y] = worker[y] /\ HealthyOk(worker[y]) /\ LoadOk(worker[y]) /\ TokenOk(worker[y])
      BY <1>1, <2>5, <2>8
    <3>2. CASE worker[y].at \in Resting
      <4>1. worker[y].at \notin Reading /\ worker[y].at \notin {"fill", "check", "confirm"}
            /\ worker[y].kind = "none"
        BY <3>1, <3>2 DEF Resting, Reading, TokenOk
      <4> QED BY <3>1, <4>1 DEF HealthyOk, LoadOk
    <3>3. CASE worker[y].at \notin Resting
      BY <2>1, <2>3, <2>7, <3>1, <3>3 DEF HealthyOk, LoadOk, NotBehind
    <3> QED BY <3>2, <3>3
  <2>9. ReadersAlone'
    BY <2>3, <2>4, <2>5, <2>7 DEF LoadInv, ReadersAlone, Past, Reading, Storing, Resting
  <2>10. MemoryOk'
    BY <1>1, <2>1, <2>3 DEF MemoryOk, NotBehind
  <2> QED BY <1>1, <2>1, <2>6, <2>8, <2>9, <2>10 DEF LoadInv
<1>5. CASE Evict \/ RemoveFile \/ OtherSource
  <2>1. UNCHANGED <<edges, state, nodes, worker>> /\ memory' \in {memory, Empty}
    BY <1>5 DEF Evict, RemoveFile, OtherSource
  <2>2. MemoryOk'
    BY <1>1, <2>1 DEF MemoryOk, NotBehind, Empty
  <2>3. \A x \in Workers : (HealthyOk(worker[x]) /\ LoadOk(worker[x]))'
    BY <1>1, <2>1 DEF HealthyOk, LoadOk, NotBehind, Empty
  <2>4. ReadersAlone'
    BY <2>1 DEF LoadInv, ReadersAlone, Past
  <2> QED BY <1>1, <2>1, <2>2, <2>3, <2>4 DEF LoadInv
<1>6. CASE Restart
  <2>1. Fresh'
    BY <1>6 DEF Restart, Fresh
  <2>2. (Fresh => LoadInv)'
    BY FreshLoadInv, PTL
  <2> QED BY <2>1, <2>2
<1>7. ~Forget
  BY DEF Forget
<1> QED BY <1>2, <1>3, <1>4, <1>5, <1>6, <1>7 DEF Publish, Environment

LEMMA NextLoadInv ==
  ASSUME Upsets \subseteq {"restart"}, Outcomes \subseteq {"healthy"}, LoadInv, [Next]_vars
  PROVE  LoadInv'
<1>1. StoreInv'
  BY NextStoreInv DEF LoadInv
<1>2. ASSUME NEW x \in Workers, Work(x) PROVE LoadInv'
  BY <1>1, <1>2, CacheAssumption, LoadLoadInv, CollectLoadInv, StoreLoadInv DEF Work, Collect
<1>3. CASE Publish \/ Environment \/ \E x \in Workers : Begin(x)
  BY <1>1, <1>3, SourceLoadInv
<1>4. CASE UNCHANGED vars
  BY <1>1, <1>4 DEF vars, LoadInv, ReadersAlone, MemoryOk, NotBehind, HealthyOk, LoadOk, Past
<1> QED BY <1>2, <1>3, <1>4 DEF Next

\* Only the acceptance of its completion shows a value.
LEMMA ShownStep ==
  ASSUME LoadInv, StoreInv', Next, NEW x \in Workers, At(x, "deliver"),
         worker'[x].at = "shown", worker[x].kind \in {"hit", "fresh"}
  PROVE  worker[x].value >= edges
<1>1. /\ worker \in Workings /\ SampleOk(worker[x]) /\ LoadOk(worker[x])
  BY DEF LoadInv, StoreInv, TypeInv, WorkerOk
<1>2. ASSUME Accepts(x) PROVE worker[x].value >= edges
  BY <1>1, <1>2 DEF Accepts, SampleOk, LoadOk
<1>3. worker'[x] # worker[x]
  BY DEF At
<1>4. ASSUME NEW y \in Workers, Begin(y) \/ Work(y), y # x PROVE FALSE
  <2>1. \A stage : Goes(y, stage) => worker'[x] = worker[x]
    BY <1>1, <1>4 DEF Goes, Workings
  <2>2. ~Load(y)
    BY <1>1, <1>3, <1>4, <2>1
       DEF Load, SkipLoad, LoadBegin, ReadMemory, ReadFile, FillMemory, LoadHit, LoadMiss, Workings
  <2>3. ~Collect(y)
    BY <1>1, <1>3, <1>4 DEF Collect, Coalesce, CollectBegin, CollectEnd, Workings
  <2>4. ~Store(y)
    BY <1>1, <1>3, <1>4, <2>1 DEF Store, StoreBegin, StoreCheck, StoreCompare, StoreConfirm,
                                  StoreWrite, StoreCommit, StoreInsert, StoreEnds
  <2>5. ~Finish(y)
    BY <1>1, <1>3, <1>4, <2>1 DEF Finish, SkipStore, FallbackBegin, Fallback, Deliver, Workings
  <2>6. ~TakeGate(y) /\ ~Begin(y)
    BY <1>1, <1>3, <1>4, <2>1 DEF TakeGate, Begin, Workings
  <2> QED BY <1>4, <2>2, <2>3, <2>4, <2>5, <2>6 DEF Work
<1>5. ASSUME Begin(x) \/ Work(x) PROVE Deliver(x)
  <2>1. ~Begin(x) /\ ~TakeGate(x) /\ ~SkipStore(x) /\ ~FallbackBegin(x) /\ ~Fallback(x)
    BY DEF Begin, TakeGate, SkipStore, FallbackBegin, Fallback, At, Resting
  <2>2. ~Load(x)
    BY DEF Load, SkipLoad, LoadBegin, ReadMemory, ReadFile, FillMemory, LoadHit, LoadMiss, At
  <2>3. ~Collect(x)
    BY DEF Collect, Coalesce, CollectBegin, CollectEnd, At
  <2>4. ~Store(x)
    BY DEF Store, StoreBegin, StoreCheck, StoreCompare, StoreConfirm, StoreWrite, StoreCommit,
           StoreInsert, At
  <2> QED BY <1>5, <2>1, <2>2, <2>3, <2>4 DEF Work, Finish
<1>6. ASSUME Deliver(x) PROVE Accepts(x)
  <2>1. CASE worker' = [worker EXCEPT ![x] = Rest("rejected")]
    BY <1>1, <2>1 DEF Rest, Workings
  <2> QED BY <1>6, <2>1 DEF Deliver
<1>7. ~Publish
  BY <1>3 DEF Publish, InvalidateSource, InvalidateCache
<1>8. ~Environment
  <2>1. ~Restart
    BY DEF Restart, Rest
  <2> QED BY <1>3, <2>1 DEF Environment, Evict, RemoveFile, OtherSource, Forget
<1> QED BY <1>2, <1>4, <1>5, <1>6, <1>7, <1>8 DEF Next

\* A card never shows as fresh a value that its source has overtaken: neither a cache hit,
\* nor a sample, nor the shared result of another worker (load_with_budget, collect,
\* start_metric_receiver), as long as every collection is healthy: a fallback to the last
\* good value fills the memory, and what it puts there may be shown as a hit.
THEOREM ShownAlwaysCurrent ==
  ASSUME Upsets \subseteq {"restart"}, Outcomes \subseteq {"healthy"}
  PROVE  Spec => ShownCurrent
<1> DEFINE Step == \A x \in Workers :
                      At(x, "deliver") /\ worker'[x].at = "shown" /\ worker[x].kind \in {"hit", "fresh"}
                          => worker[x].value >= edges
<1>1. Init => LoadInv
  BY FreshLoadInv DEF Init, Fresh
<1>2. LoadInv /\ [Next]_vars => LoadInv'
  BY NextLoadInv
<1>3. LoadInv /\ LoadInv' /\ [Next]_vars => [Step]_vars
  BY ShownStep DEF LoadInv
<1>4. Spec => [][Step]_vars
  <2> HIDE DEF Step
  <2> QED BY <1>1, <1>2, <1>3, PTL DEF Spec
<1> QED BY <1>4 DEF ShownCurrent
=============================================================================
