------------------------------ MODULE Janitor ------------------------------
(***************************************************************************)
(* cleanup_disk_cache of src/core/cache.rs: one pass over the directory of *)
(* cache files.  A directory maps the number of a file, its place in the   *)
(* order of read_dir, to its kind, age and size; a stuck file cannot be    *)
(* removed.  An age is negative where the clock was set back.              *)
(***************************************************************************)
EXTENDS Integers, FiniteSets, Sums

CONSTANTS
    MaxAge,           \* MAX_DISK_CACHE_AGE_SECONDS
    MaxTemporaryAge,  \* STALE_TEMPORARY_FILE_AGE_SECONDS
    MaxFiles,         \* MAX_DISK_CACHE_ENTRIES
    MaxBytes          \* MAX_DISK_CACHE_BYTES

FileKinds == {"entry", "temporary", "other"}

Entries(dir) == {n \in DOMAIN dir : dir[n].kind = "entry"}

Expired(dir) ==
    {n \in DOMAIN dir : \/ dir[n].kind = "entry" /\ dir[n].age > MaxAge
                        \/ dir[n].kind = "temporary" /\ dir[n].age > MaxTemporaryAge}

\* The entries that stay in question.
Listed(dir) == Entries(dir) \ Expired(dir)

\* The sort of the list, the oldest first: a stable one, files of one age keep their order.
Before(dir, m, n) ==
    \/ dir[m].age > dir[n].age
    \/ dir[m].age = dir[n].age /\ m < n

Earlier(dir, n) == {m \in Listed(dir) : Before(dir, m, n)}

TotalBytes(dir, S) == Total([n \in DOMAIN dir |-> dir[n].size], S)

Stuck(dir, S) == {n \in S : dir[n].stuck}

\* A file that stays counted as removed.
OverBlind(dir, tried) ==
    LET rest == Listed(dir) \ tried
    IN  Cardinality(rest) > MaxFiles \/ TotalBytes(dir, rest) > MaxBytes

\* Whether the loop goes on after the files it tried: one that cannot be removed counts
\* as gone among the files but not among the bytes.
Over(dir, tried) ==
    LET rest == Listed(dir) \ tried
    IN  \/ Cardinality(rest) > MaxFiles
        \/ TotalBytes(dir, rest \cup Stuck(dir, tried)) > MaxBytes

\* The files the loop comes to: it went on at each of them and at every one before.
Tried(dir) ==
    {n \in Listed(dir) : \A m \in Earlier(dir, n) \cup {n} : Over(dir, Earlier(dir, m))}

\* What the directory holds after a pass.
CleanedUp(dir) ==
    LET unlinked == Expired(dir) \cup Tried(dir)
    IN  (DOMAIN dir \ unlinked) \cup Stuck(dir, unlinked)

-----------------------------------------------------------------------------
(* Correctness of a pass.                                                  *)

\* The entries that have not expired are bounded, and so are their bytes, but for
\* files that could not be removed.
DiskBounded(dir) ==
    LET left == CleanedUp(dir) \cap Listed(dir)
    IN  /\ TotalBytes(dir, left) <= MaxBytes \/ left = Stuck(dir, left)
        /\ Cardinality(left \ Stuck(dir, left)) <= MaxFiles

\* An entry that has not expired goes only after every older one, the temporary file of
\* a store that may still be running and a file that is not the cache's never.
OldestGoFirst(dir) ==
    \A n \in DOMAIN dir \ CleanedUp(dir) :
        /\ dir[n].kind # "other"
        /\ dir[n].kind = "temporary" => dir[n].age > MaxTemporaryAge
        /\ n \in Entries(dir) /\ dir[n].age <= MaxAge =>
               \A m \in CleanedUp(dir) \cap Entries(dir) :
                   dir[m].age <= dir[n].age \/ dir[m].stuck

\* An entry that has not expired goes only if the younger ones and those that could
\* not be removed would not fit with it.
OnlyAsNeeded(dir) ==
    \A n \in Listed(dir) \ CleanedUp(dir) :
        LET younger == {m \in Entries(dir) : dir[m].age <= dir[n].age}
        IN  \/ Cardinality(younger) > MaxFiles
            \/ TotalBytes(dir, younger \cup Stuck(dir, Listed(dir))) > MaxBytes
=============================================================================
