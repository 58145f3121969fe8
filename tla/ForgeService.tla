----------------------------- MODULE ForgeService -----------------------------
(***************************************************************************)
(* The client of the ScrcpyForge service: metadata that is cached behind a *)
(* lock held while it is fetched, previews that are asked for with the tag *)
(* of the picture held, and the calls that change the service.  The service*)
(* itself is external: it has versions, sessions and pictures, and any     *)
(* answer may be lost.                                                     *)
(***************************************************************************)
EXTENDS Sums, UseOrder

CONSTANTS
    Serials,           \* devices
    Resources,         \* what the metadata is put together from
    Permits,           \* previews asked for at the same time
    MaxPreviews, MaxPreviewTotal, MaxPreviewBytes,
    PictureSizes,
    None,
    MaxVersions, MaxChanges   \* bounds: changes of the service, and of its pictures

VARIABLES
    service,    \* its version, its sessions and the picture at each URL
    metadata,   \* Client.metadata: the value held and whether its TTL lasts
    lock,       \* who holds the lock of the metadata
    call,       \* the call of the user under way
    snap,       \* the snapshot under way: its step, metadata and preview tasks
    previews,   \* Client.previews: entries, order of use, total_bytes
    promised    \* history: the service version of the last call reported as done

vars == <<service, metadata, lock, call, snap, previews, promised>>

Urls == Serials \X {"device", "session"}

PreviewKey(serial, hasSession) == <<serial, IF hasSession THEN "session" ELSE "device">>

NoPreviews == [entries |-> [key \in {} |-> None], order |-> <<>>, total |-> 0]

IdleSnap == [step |-> "idle", read |-> [r \in {} |-> None], sessions |-> {},
             tasks |-> [serial \in {} |-> None]]

-----------------------------------------------------------------------------
\* response_bytes_limited: an announced length beyond the limit is refused before
\* anything is read, and a body is refused at the chunk that goes beyond it.
LimitedRead(announced, chunks, limit) ==
    LET room    == IF limit > 1 THEN limit ELSE 1
        read(n) == Total(chunks, 1 .. n)
        fit     == Max({n \in 0 .. Len(chunks) : read(n) <= room})
    IN  IF announced # None /\ announced > room
        THEN [refused |-> TRUE, bytes |-> 0]
        ELSE [refused |-> fit < Len(chunks), bytes |-> read(fit)]

\* cached_preview: looking counts as use.
Looked(cache, key) ==
    IF key \in DOMAIN cache.entries
    THEN [cache EXCEPT !.order = UsedLast(@, key)]
    ELSE cache

HeldPreview(cache, key) == IF key \in DOMAIN cache.entries THEN cache.entries[key] ELSE None

Sizes(entries) == [key \in DOMAIN entries |-> entries[key].size]

Crowded(cache) ==
    \/ Cardinality(DOMAIN cache.entries) > MaxPreviews
    \/ cache.total > MaxPreviewTotal

\* The cache without the n previews that were used least recently.
Dropped(cache, n) ==
    LET order == SubSeq(cache.order, n + 1, Len(cache.order))
        gone  == DOMAIN cache.entries \ Range(order)
    IN  [entries |-> [key \in Range(order) |-> cache.entries[key]],
         order   |-> order,
         total   |-> cache.total - Total(Sizes(cache.entries), gone)]

\* The loop at the end of store_preview: the oldest leaves until the rest fits.
Evicted(cache) ==
    Dropped(cache, Min({n \in 0 .. Len(cache.order) :
                           n = Len(cache.order) \/ ~ Crowded(Dropped(cache, n))}))

StorePreview(cache, key, picture) ==
    LET before == IF key \in DOMAIN cache.entries THEN cache.entries[key].size ELSE 0
    IN  Evicted([entries |-> [k \in DOMAIN cache.entries \cup {key} |->
                                IF k = key THEN picture ELSE cache.entries[k]],
                 order   |-> UsedLast(cache.order, key),
                 total   |-> cache.total - before + picture.size])

\* prune_previews: entries of devices and sessions that are gone.
PrunePreviews(cache, active) ==
    LET gone == DOMAIN cache.entries \ active
    IN  [entries |-> [key \in DOMAIN cache.entries \cap active |-> cache.entries[key]],
         order   |-> Without(cache.order, gone),
         total   |-> cache.total - Total(Sizes(cache.entries), gone)]

-----------------------------------------------------------------------------
Init ==
    /\ \E size \in PictureSizes :
           service = [version |-> 1, sessions |-> {},
                      pictures |-> [url \in Urls |-> [url |-> url, tag |-> 1, size |-> size]]]
    /\ metadata = None
    /\ lock = None
    /\ call = "idle"
    /\ snap = IdleSnap
    /\ previews = NoPreviews
    /\ promised = 0

\* The service on its own: a new picture at a URL.
PictureChanges ==
    /\ \E url \in Urls, size \in PictureSizes :
         /\ Total([u \in Urls |-> service.pictures[u].tag - 1], Urls) < MaxChanges
         /\ service' = [service EXCEPT !.pictures[url].tag = @ + 1, !.pictures[url].size = size]
    /\ UNCHANGED <<metadata, lock, call, snap, previews, promised>>

TtlRunsOut ==
    /\ metadata # None /\ metadata.fresh
    /\ metadata' = [metadata EXCEPT !.fresh = FALSE]
    /\ UNCHANGED <<service, lock, call, snap, previews, promised>>

\* connect, start_session, run_script and stop_script: POST.  The service may do it and
\* the answer be lost: the call fails and nothing is invalidated.
Post ==
    /\ call = "idle" /\ service.version < MaxVersions
    /\ \E serial \in Serials \cup {None} :
           service' = [service EXCEPT !.version = @ + 1,
                                      !.sessions = SymDiff(@, {serial} \ {None})]
    /\ call' \in {"answered", "idle"}
    /\ UNCHANGED <<metadata, lock, snap, previews, promised>>

\* Without the lock: a fetch under way keeps what it has read.
InvalidateAtOnce ==
    /\ call = "answered"
    /\ metadata' = None
    /\ call' = "idle"
    /\ promised' = service.version
    /\ UNCHANGED <<service, lock, snap, previews>>

\* invalidate_metadata waits for the lock; the call is reported done after it.
InvalidateMetadata ==
    /\ call = "answered" /\ lock = None
    /\ metadata' = None
    /\ call' = "idle"
    /\ promised' = service.version
    /\ UNCHANGED <<service, lock, snap, previews>>

-----------------------------------------------------------------------------
\* snapshot(...), metadata(): the lock, and then the value held or a fetch of all.
Fetching == [IdleSnap EXCEPT !.step = "metadata"]

StartSnapshot ==
    /\ snap.step = "idle" /\ lock = None
    /\ IF metadata # None /\ metadata.fresh
       THEN /\ snap' = [IdleSnap EXCEPT !.step = "previews", !.read = metadata.read,
                                        !.sessions = metadata.sessions]
            /\ UNCHANGED lock
       ELSE snap' = Fetching /\ lock' = "snapshot"
    /\ UNCHANGED <<service, metadata, call, previews, promised>>

\* One of the concurrent requests is answered: by the service as it is at that moment.
FetchResource ==
    /\ snap.step = "metadata"
    /\ \E r \in Resources \ DOMAIN snap.read :
         snap' = [snap EXCEPT !.read = [q \in DOMAIN @ \cup {r} |->
                                          IF q = r THEN service.version ELSE @[q]],
                              !.sessions = IF r = "sessions" THEN service.sessions ELSE @]
    /\ UNCHANGED <<service, metadata, lock, call, previews, promised>>

\* try_join! and validate_metadata: all of them, or an error and nothing is kept.
FetchedAll ==
    /\ snap.step = "metadata" /\ DOMAIN snap.read = Resources
    /\ metadata' = [read |-> snap.read, sessions |-> snap.sessions, fresh |-> TRUE]
    /\ snap' = [snap EXCEPT !.step = "previews"]
    /\ lock' = None
    /\ UNCHANGED <<service, call, previews, promised>>

FetchFails ==
    /\ snap.step = "metadata"
    /\ snap' = IdleSnap
    /\ lock' = None
    /\ UNCHANGED <<service, metadata, call, previews, promised>>

-----------------------------------------------------------------------------
\* A preview task takes a permit, looks into the cache and sends the tag it finds.
Asking == {serial \in DOMAIN snap.tasks : snap.tasks[serial].state = "asked"}

AskPreview(serial) ==
    LET key == PreviewKey(serial, serial \in snap.sessions)
    IN  /\ snap.step = "previews" /\ serial \notin DOMAIN snap.tasks
        /\ Cardinality(Asking) < Permits
        /\ previews' = Looked(previews, key)
        /\ snap' = [snap EXCEPT !.tasks = [s \in DOMAIN @ \cup {serial} |->
                      IF s = serial
                      THEN [state |-> "asked", key |-> key, held |-> HeldPreview(previews, key),
                            since |-> service.pictures[key].tag, png |-> None]
                      ELSE @[s]]]
        /\ UNCHANGED <<service, metadata, lock, call, promised>>

\* Not modified: the picture looked up before; a picture: stored, unless too large.
Answered(task) ==
    LET now == service.pictures[task.key]
    IN  IF task.held # None /\ task.held.tag = now.tag THEN [png |-> task.held, keep |-> FALSE]
        ELSE IF LimitedRead(None, <<now.size>>, MaxPreviewBytes).refused
        THEN [png |-> None, keep |-> FALSE]
        ELSE [png |-> now, keep |-> TRUE]

AnswerPreview(serial) ==
    LET task   == snap.tasks[serial]
        answer == Answered(task)
    IN  /\ snap' = [snap EXCEPT !.tasks[serial].state = "done",
                                !.tasks[serial].png = answer.png]
        /\ previews' = IF answer.keep THEN StorePreview(previews, task.key, answer.png)
                       ELSE previews
        /\ UNCHANGED <<service, metadata, lock, call, promised>>

PreviewFails(serial) ==
    /\ snap' = [snap EXCEPT !.tasks[serial].state = "done"]
    /\ UNCHANGED <<service, metadata, lock, call, previews, promised>>

PreviewTask ==
    \/ \E serial \in Serials : AskPreview(serial)
    \/ \E serial \in Asking : AnswerPreview(serial) \/ PreviewFails(serial)

\* All tasks joined: entries nobody asked for are pruned and the snapshot is returned.
ReturnSnapshot ==
    /\ snap.step = "previews" /\ DOMAIN snap.tasks = Serials /\ Asking = {}
    /\ previews' = PrunePreviews(previews, {snap.tasks[serial].key : serial \in Serials})
    /\ snap' = IdleSnap
    /\ UNCHANGED <<service, metadata, lock, call, promised>>

\* snapshot(false): metadata only.
ReturnMetadata ==
    /\ snap.step = "previews" /\ DOMAIN snap.tasks = {}
    /\ snap' = IdleSnap
    /\ UNCHANGED <<service, metadata, lock, call, previews, promised>>

Next ==
    \/ PictureChanges \/ TtlRunsOut \/ Post \/ InvalidateMetadata
    \/ StartSnapshot \/ FetchResource \/ FetchedAll \/ FetchFails
    \/ PreviewTask \/ ReturnSnapshot \/ ReturnMetadata

Spec == Init /\ [][Next]_vars

-----------------------------------------------------------------------------
TypeOK ==
    /\ call \in {"idle", "answered"} /\ lock \in {None, "snapshot"}
    /\ snap.step \in {"idle", "metadata", "previews"}
    /\ DOMAIN previews.entries \subseteq Urls
    /\ previews.total \in Nat

\* What the user was told is done is never hidden by older metadata: once a call is
\* reported, nothing held was read from the service before it, although a fetch may
\* have been under way while the call was made, and in pieces.
MetadataFresh ==
    metadata # None /\ call = "idle" => \A r \in Resources : metadata.read[r] >= promised

\* A preview in the snapshot is a picture of that device, of the URL that was asked, and
\* no older than the question: a 304 never brings back another device's or another
\* session's picture, although tags repeat between URLs.
PreviewsTruthful ==
    \A serial \in DOMAIN snap.tasks :
        LET task == snap.tasks[serial]
        IN  task.png # None => task.png.url = task.key /\ task.png.tag >= task.since

\* The total is the sum of the bytes held and stays within the limits, whatever the
\* order in which concurrent answers replace, evict and prune entries.
PreviewsBounded ==
    /\ previews.total = Total(Sizes(previews.entries), DOMAIN previews.entries)
    /\ previews.total <= MaxPreviewTotal
    /\ Range(previews.order) = DOMAIN previews.entries
    /\ Cardinality(DOMAIN previews.entries) <= MaxPreviews
=============================================================================
