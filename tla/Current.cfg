SPECIFICATION MCSpec
CONSTANTS
    Workers = {w1, w2, w3}
    Nobody = Nobody
    w1 = w1
    w2 = w2
    w3 = w3
    Outcomes = {"healthy"}
    Upsets = {"restart"}
    IoPermits = 2
    CollectPermits = 1
    MaxEvents = 2
    MaxSeed = 2
    MaxNodes = 1
SYMMETRY Symmetry
INVARIANTS
    DiskClean
PROPERTIES
    CommitCurrent
    ShownCurrent
