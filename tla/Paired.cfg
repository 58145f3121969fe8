SPECIFICATION MCSpec
CONSTANTS
    Cards = {1, 2}
    Pages = {"a", "b"}
    SourceKeys = {"src"}
    ExpensiveFloor = 1
    Registrations <- PairedCards
    Revisions = {}
    SlotDelays = {1, 2}
    FollowUpDelays = {}
    Permits <- ThreePermits
    Coalesce <- MCCoalesce
    Slot = 1
    CompactFactor = 1
    CompactSlack = 1
    Workers = {w1}
    Optional = {}
    Horizon = 1
    MaxGenerations = 5
    MaxHeap = 3
    MaxFailures = 0
    MaxSeed = 2
INVARIANTS
    OneLiveEntry
    NoReentry
    PermittedStart
PROPERTIES
    HeapBounded
    ResumeSpread
    AnchorsKept
