------------------------------ MODULE PetFrames ------------------------------
(***************************************************************************)
(* The frames of the pet card: what one load of an animation yields        *)
(* (load_frames), and the cache of the animations that were loaded         *)
(* (cached_frames, cache_frames).  A picture file is abstracted to what the*)
(* limits look at.                                                         *)
(***************************************************************************)
EXTENDS Sums, UseOrder

CONSTANTS
    MaxFrameCount, MaxFramePixels, MaxStateBytes,   \* of one animation
    MaxCacheStates, MaxCacheBytes                   \* of the cache

\* What a header tells before the picture is decoded: dimensions within or beyond
\* the limits, a header that is cut short, or a container nobody here knows.
Headers == {"within", "beyond", "short", "foreign"}

Pictures ==
    [file : {"missing", "oversized", "unreadable", "picture"}, header : Headers, pixels : Nat]

Bytes(picture) == 4 * picture.pixels

FramesBytes(frames) == Total([n \in DOMAIN frames |-> Bytes(frames[n])], DOMAIN frames)

\* Metadata and header.  A header that tells no dimensions lets the file through:
\* it is the decoded picture that is measured then.
PassesPreflight(picture) ==
    /\ picture.file \notin {"missing", "oversized"}
    /\ picture.header # "beyond"

\* Each picture measured by itself.
DecodesEach(picture, decodedBytes) ==
    /\ PassesPreflight(picture)
    /\ picture.file = "picture"
    /\ picture.pixels \in 1 .. MaxFramePixels

Decodes(picture, decodedBytes) ==
    /\ PassesPreflight(picture)
    /\ picture.file = "picture"
    /\ picture.pixels \in 1 .. MaxFramePixels
    /\ decodedBytes + Bytes(picture) <= MaxStateBytes

\* A file that fails is skipped, the ones after it are still tried.
LoadOne(loaded, path) ==
    IF Decodes(path.picture, FramesBytes(loaded.frames))
    THEN [loaded EXCEPT !.frames = Append(@, path.picture)]
    ELSE [loaded EXCEPT !.failures = @ \cup {path.name}]

\* The paths are pairs of a name and the picture found there.
LoadFrames(paths) ==
    LET loaded[n \in 0 .. Len(paths)] ==
            IF n = 0 THEN [frames |-> <<>>, failures |-> {}]
            ELSE LoadOne(loaded[n - 1], paths[n])
    IN  IF Len(paths) > MaxFrameCount
        THEN [frames |-> <<>>, failures |-> {"<animation>"}]
        ELSE loaded[Len(paths)]

\* The paths an animation still tries: a file that failed once is not tried again.
Untried(paths, failed) == Without(paths, {path \in Range(paths) : path.name \in failed})

-----------------------------------------------------------------------------
\* The cache: the frames of each state held, their order of use and their bytes.
NoCache == [held |-> [state \in {} |-> <<>>], order |-> <<>>, bytes |-> 0]

Holds(cache, state) == state \in DOMAIN cache.held

Used(cache, state) ==
    IF Holds(cache, state)
    THEN [cache EXCEPT !.order = UsedLast(@, state)]
    ELSE cache

OverLimits(cache) ==
    Len(cache.order) > MaxCacheStates \/ cache.bytes > MaxCacheBytes

HeldBytes(held) == [state \in DOMAIN held |-> FramesBytes(held[state])]

\* The cache without the n states that were used least recently.
Dropped(cache, n) ==
    LET order == SubSeq(cache.order, n + 1, Len(cache.order))
        gone  == DOMAIN cache.held \ Range(order)
    IN  [held  |-> [state \in Range(order) |-> cache.held[state]],
         order |-> order,
         bytes |-> cache.bytes - Total(HeldBytes(cache.held), gone)]

\* The eviction loop: the oldest leaves until the rest is within the limits.
Evicted(cache) ==
    Dropped(cache, Min({n \in 0 .. Len(cache.order) :
                           n = Len(cache.order) \/ ~OverLimits(Dropped(cache, n))}))

Kept(cache, state, frames) ==
    LET before == IF Holds(cache, state) THEN FramesBytes(cache.held[state]) ELSE 0
    IN  Evicted([held  |-> [s \in DOMAIN cache.held \cup {state} |->
                              IF s = state THEN frames ELSE cache.held[s]],
                 order |-> UsedLast(cache.order, state),
                 bytes |-> (cache.bytes - before) + FramesBytes(frames)])

-----------------------------------------------------------------------------
\* An animation that shows a picture twice, and does not fit: its end is left out, and
\* with it the picture that failed there, the next time the animation is loaded.
CutRepeat(paths) ==
    \E i, k \in DOMAIN paths :
        i # k /\ paths[i].name = paths[k].name
        /\ FramesBytes([n \in DOMAIN paths |-> paths[n].picture]) > MaxStateBytes

\* One load stays within the limits of an animation, loses no picture that would
\* have fitted, and a second load that skips the failures of the first yields the
\* same frames: a card shows the same animation before and after an eviction.
LoadSettles(paths) ==
    LET loaded == LoadFrames(paths)
        again  == LoadFrames(Untried(paths, loaded.failures))
    IN  /\ FramesBytes(loaded.frames) <= MaxStateBytes
        /\ \A n \in DOMAIN loaded.frames : loaded.frames[n].header # "beyond"
        /\ CutRepeat(paths) \/ again.frames = loaded.frames

\* The counted bytes and the order of use are those of the frames held.
CacheConsistent(cache) ==
    /\ Range(cache.order) = DOMAIN cache.held
    /\ Len(cache.order) = Cardinality(DOMAIN cache.held)
    /\ cache.bytes = Total(HeldBytes(cache.held), DOMAIN cache.held)
    /\ ~OverLimits(cache)
=============================================================================
