-------------------------------- MODULE Lru --------------------------------
(***************************************************************************)
(* What the memory cache promises (src/core/cache.rs): its entries in the  *)
(* order of their last use, the oldest leaving first, and only while there *)
(* are too many entries or too many bytes.                                 *)
(***************************************************************************)
EXTENDS Integers, Sequences, SequencesExt, UseOrder, Sums

CONSTANTS
    Keys,
    Sizes,            \* the sizes of entries
    MaxEntries,       \* MAX_MEMORY_CACHE_ENTRIES
    MaxBytes,         \* MAX_MEMORY_CACHE_BYTES
    None

VARIABLES
    order,            \* the keys, the oldest first
    size,             \* the size of every key in order
    used              \* the key inserted or read last

vars == <<order, size, used>>

Cached == ToSet(order)

Restricted(keys) == [k \in keys |-> size[k]]

Fits(keys, sizes) == Len(keys) <= MaxEntries /\ Total(sizes, ToSet(keys)) <= MaxBytes

\* The longest suffix that fits.
Kept(keys, sizes) ==
    LET first == CHOOSE n \in 0 .. Len(keys) :
                     /\ Fits(SubSeq(keys, n + 1, Len(keys)), sizes)
                     /\ \A m \in 0 .. n - 1 : ~Fits(SubSeq(keys, m + 1, Len(keys)), sizes)
    IN  SubSeq(keys, first + 1, Len(keys))

Init == order = <<>> /\ size = <<>> /\ used = None

Insert(key, bytes) ==
    LET keys  == UsedLast(order, key)
        sizes == [k \in ToSet(keys) |-> IF k = key THEN bytes ELSE size[k]]
    IN  /\ order' = Kept(keys, sizes)
        /\ size' = [k \in ToSet(order') |-> sizes[k]]
        /\ used' = key

Touch(key) ==
    /\ key \in Cached
    /\ order' = UsedLast(order, key)
    /\ used' = key
    /\ UNCHANGED size

Drop(keys) ==
    /\ order' = Without(order, keys)
    /\ size' = Restricted(Cached \ keys)
    /\ UNCHANGED used

Next ==
    \/ \E key \in Keys, bytes \in Sizes : Insert(key, bytes)
    \/ \E key \in Keys : Touch(key)
    \/ \E keys \in SUBSET Keys : Drop(keys)

Spec == Init /\ [][Next]_vars
=============================================================================
