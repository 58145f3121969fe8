SPECIFICATION MCSpec
CONSTANTS
    Workers = {w1, w2, w3}
    Nobody = Nobody
    w1 = w1
    w2 = w2
    w3 = w3
    Outcomes = {"healthy", "failed"}
    Upsets = {}
    IoPermits = 3
    CollectPermits = 3
    MaxEvents = 1
    MaxSeed = 2
    MaxNodes = 1
SYMMETRY Symmetry
PROPERTIES
    NoReplay
