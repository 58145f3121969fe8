SPECIFICATION MCFairSpec
CONSTANTS
    Workers = {w1, w2}
    Nobody = Nobody
    w1 = w1
    w2 = w2
    Outcomes = {"oversized"}
    Upsets = {"forget", "restart", "chmod"}
    IoPermits = 1
    CollectPermits = 1
    MaxEvents = 1
    MaxSeed = 1
    MaxNodes = 2
INVARIANTS
    TypeOK
PROPERTIES
    EveryRunEnds
