SPECIFICATION MCSpec
CONSTANTS
    Cards = {1}
    Pages = {"a", "b"}
    SourceKeys = {"src"}
    ExpensiveFloor = 1
    Registrations <- ReloadCards
    Revisions = {}
    SlotDelays = {}
    FollowUpDelays = {}
    Permits <- MixedPermits
    Coalesce <- MCCoalesce
    Slot = 1
    CompactFactor = 1
    CompactSlack = 1
    Workers = {w1}
    Optional = {}
    Horizon = 1
    MaxGenerations = 8
    MaxHeap = 3
    MaxFailures = 0
    MaxSeed = 2
INVARIANTS
    RequestsStayQueued
