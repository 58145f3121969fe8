SPECIFICATION MCSpec
CONSTANTS
    Cards = {1}
    Pages = {"a", "b"}
    SourceKeys = {"src"}
    ExpensiveFloor = 4
    Registrations <- ReloadCards
    Revisions = {1, 2}
    SlotDelays = {1}
    FollowUpDelays = {1}
    Permits <- MixedPermits
    Coalesce <- MCCoalesce
    Slot = 1
    CompactFactor = 1
    CompactSlack = 1
    Workers = {w1}
    Optional = {"toggle", "reconcile"}
    Horizon = 1
    MaxGenerations = 4
    MaxHeap = 3
    MaxFailures = 1
    MaxSeed = 3
INVARIANTS
    TypeOK
    NoLostRevision
    ReasonKept
    NoLostWakeup
