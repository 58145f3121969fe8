------------------------------ MODULE LruList ------------------------------
(***************************************************************************)
(* The memory cache of src/core/cache.rs: a hash map whose entries also    *)
(* form a doubly linked list from lru_head, the oldest, to lru_tail, and a *)
(* byte count kept next to it with saturating arithmetic.                  *)
(***************************************************************************)
EXTENDS Integers, Sequences, FiniteSets, Functions, Sums

CONSTANTS
    Keys,
    Sizes,            \* the sizes of serialized entries
    MaxEntries,       \* MAX_MEMORY_CACHE_ENTRIES
    MaxBytes,         \* MAX_MEMORY_CACHE_BYTES
    Top,              \* usize::MAX, the size of an entry that does not serialize
    None

\* No serialized entry, and no full cache, comes near the end of the addresses.
ASSUME LruListAssumption ==
    /\ None \notin Keys
    /\ Top \in Nat /\ Sizes \subseteq 0 .. Top
    /\ MaxEntries \in Nat \ {0} /\ MaxBytes \in Nat
    /\ 2 * MaxBytes < Top /\ \A n \in Sizes \ {Top} : n + MaxBytes <= Top

VARIABLES
    entries,          \* key -> [bytes, prev, next]
    head, tail,       \* lru_head, lru_tail
    total,            \* total_bytes
    used              \* the key inserted or read last

vars == <<entries, head, tail, total, used>>

Cached == DOMAIN entries

\* MemoryCache as a value, so that the helpers compose as the calls do.
Cache == [entries |-> entries, head |-> head, tail |-> tail, total |-> total]

SatAdd(a, b) == IF a + b > Top THEN Top ELSE a + b
SatSub(a, b) == IF a < b THEN 0 ELSE a - b

Init == entries = <<>> /\ head = None /\ tail = None /\ total = 0 /\ used = None

-----------------------------------------------------------------------------
(* The list.                                                               *)

Linked(map, key, field, to) ==
    IF key \in DOMAIN map THEN [map EXCEPT ![key][field] = to] ELSE map

\* detach_memory_entry, forgetting the link of its successor.
DetachedHalf(c, key) ==
    IF key \notin DOMAIN c.entries THEN c
    ELSE LET e == c.entries[key]
         IN  [c EXCEPT
                 !.entries = [Linked(@, e.prev, "next", e.next)
                                 EXCEPT ![key].prev = None, ![key].next = None],
                 !.head = IF e.prev = None THEN e.next ELSE @,
                 !.tail = IF e.next = None THEN e.prev ELSE @]

Detached(c, key) ==
    IF key \notin DOMAIN c.entries THEN c
    ELSE LET e == c.entries[key]
         IN  [c EXCEPT
                 !.entries = [Linked(Linked(@, e.prev, "next", e.next), e.next, "prev", e.prev)
                                 EXCEPT ![key].prev = None, ![key].next = None],
                 !.head = IF e.prev = None THEN e.next ELSE @,
                 !.tail = IF e.next = None THEN e.prev ELSE @]

Attached(c, key) ==
    [c EXCEPT
        !.entries = [Linked(@, c.tail, "next", key)
                        EXCEPT ![key].prev = c.tail, ![key].next = None],
        !.head = IF c.tail = None THEN key ELSE @,
        !.tail = key]

\* The newest entry and the oldest confused.
TouchedHead(c, key) == IF c.head = key THEN c ELSE Attached(Detached(c, key), key)

Touched(c, key) == IF c.tail = key THEN c ELSE Attached(Detached(c, key), key)

\* remove_memory_entry and the byte count of its callers.
Removed(c, key) ==
    IF key \notin DOMAIN c.entries THEN c
    ELSE LET d == Detached(c, key)
         IN  [d EXCEPT !.entries = Restrict(@, DOMAIN @ \ {key}),
                       !.total = SatSub(@, c.entries[key].bytes)]

-----------------------------------------------------------------------------
(* insert_memory_entry, in one piece under the lock of the cache.          *)

\* The bytes of a replaced entry still counted.
PutTwice(c, key, bytes) ==
    LET d == Detached(c, key)
    IN  [d EXCEPT !.entries = [k \in DOMAIN @ \cup {key} |->
                      IF k = key THEN [bytes |-> bytes, prev |-> None, next |-> None] ELSE @[k]],
                  !.total = SatAdd(@, bytes)]

Put(c, key, bytes) ==
    LET d        == Detached(c, key)
        previous == IF key \in DOMAIN c.entries THEN c.entries[key].bytes ELSE 0
    IN  [d EXCEPT !.entries = [k \in DOMAIN @ \cup {key} |->
                      IF k = key THEN [bytes |-> bytes, prev |-> None, next |-> None] ELSE @[k]],
                  !.total = SatAdd(SatSub(@, previous), bytes)]

Over(c) == Cardinality(DOMAIN c.entries) > MaxEntries \/ c.total > MaxBytes

\* The eviction loop: after n rounds.
Evicted(c) ==
    LET after[n \in 0 .. Cardinality(DOMAIN c.entries)] ==
            IF n = 0 THEN c
            ELSE IF Over(after[n - 1]) /\ after[n - 1].head # None
                 THEN Removed(after[n - 1], after[n - 1].head)
                 ELSE after[n - 1]
    IN  after[Cardinality(DOMAIN c.entries)]

Becomes(c) ==
    entries' = c.entries /\ head' = c.head /\ tail' = c.tail /\ total' = c.total

InsertEntry(key, bytes) ==
    /\ Becomes(Evicted(Attached(Put(Cache, key, bytes), key)))
    /\ used' = key

\* read_entry of a cached source.
Read(key) ==
    /\ key \in Cached
    /\ Becomes(Touched(Cache, key))
    /\ used' = key

Forget(key) == Becomes(Removed(Cache, key)) /\ UNCHANGED used

\* prune: the sources that are not active, in the order of the hash map.
Prune(active) ==
    LET stale == Cached \ active
    IN  /\ stale # {}
        /\ Becomes(FoldSet(LAMBDA key, c : Removed(c, key), Cache, stale))
        /\ UNCHANGED used

Next ==
    \/ \E key \in Keys, bytes \in Sizes : InsertEntry(key, bytes)
    \/ \E key \in Keys : Read(key) \/ Forget(key)
    \/ \E active \in SUBSET Keys : Prune(active)

Spec == Init /\ [][Next]_vars

-----------------------------------------------------------------------------
(* Properties.                                                             *)

\* The keys from lru_head along the links, as many as there are entries.
Walk ==
    LET key[n \in 1 .. Cardinality(Cached)] ==
            IF n = 1 THEN head
            ELSE IF key[n - 1] \in Cached THEN entries[key[n - 1]].next ELSE None
    IN  key

\* The entries keep their type, and the links join exactly the entries of the map,
\* each once, in both directions.
TypeOK ==
    /\ entries \in [Cached -> [bytes : Sizes, prev : Keys \cup {None}, next : Keys \cup {None}]]
    /\ Cached \subseteq Keys /\ total \in 0 .. Top
    /\ {Walk[n] : n \in DOMAIN Walk} = Cached
    /\ tail = IF Walk = <<>> THEN None ELSE Walk[Len(Walk)]
    /\ head = IF Walk = <<>> THEN None ELSE Walk[1]
    /\ \A n \in DOMAIN Walk :
           entries[Walk[n]].prev = (IF n = 1 THEN None ELSE Walk[n - 1])

\* total_bytes is the sum of the entries, through replacement, eviction and
\* saturation at an entry that does not serialize: a count that drifts would evict
\* everything or never evict at all.  The links of the list stay those of one list.
BytesCounted ==
    /\ TypeOK
    /\ total = Total([k \in Cached |-> entries[k].bytes], Cached)

Promise == INSTANCE Lru WITH order <- Walk, size <- [k \in Cached |-> entries[k].bytes]

\* The list implements the order of last use: the oldest entries leave first, and no
\* more of them than needed.
InOrder == Promise!Spec
=============================================================================
