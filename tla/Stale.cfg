SPECIFICATION Spec
CONSTANTS
    Contents = {"absent", "thinking", "done"}
    Snapshots <- Seen
    Presentations = {"normal", "quad"}
    Animations <- NoAnimations
    None = None
    MaxWrites = 1
    MaxFrameCount = 1
    MaxFramePixels = 1
    MaxStateBytes = 1
    MaxCacheStates = 1
    MaxCacheBytes = 1
INVARIANTS
    StaleReturns
CHECK_DEADLOCK FALSE
