SPECIFICATION Spec
CONSTANTS
    Cards = {1, 2}
    Workers = {1, 2}
    Sources = {"battery"}
    Signals = {"signal"}
    SignalsOf <- Of
    Published = {"signal"}
    Scheduled = {}
    Budgets = {1, 2}
    MaxPending = 1
    MaxCompletions = 1
    Optional = {"toggle", "rebuild", "budget", "permit"}
    MaxGeneration = 3
    MaxRevision = 1
    MaxEpoch = 2
PROPERTIES
    OwnSlot
CHECK_DEADLOCK FALSE
