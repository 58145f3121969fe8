SPECIFICATION SpecAll
CONSTANTS
    Cards = {1, 2}
    Workers = {1, 2}
    Sources = {"battery"}
    Signals = {"signal"}
    SignalsOf <- Of
    Published = {"signal"}
    Scheduled = {}
    Budgets = {1, 2}
    MaxPending = 1
    MaxCompletions = 1
    Optional = {"toggle", "rebuild", "budget", "permit"}
    MaxGeneration = 3
    MaxRevision = 1
    MaxEpoch = 1
    None = None
    Misfits = {2}
    Actions = {"act"}
    Linked <- LinkedToFirst
    Period = 2
    Capacity = 1
    MaxClicks = 1
    WorkLevels = {"full"}
    MaxStarts = 2
    MaxStops = 2
    Helpers = {"helper"}
    Limit = 1
    PipeSize = 1
    MaxWrites = 2
INVARIANTS
    CurrentShown
    EventFollowed
    LoopWakes
    SwitchFollowed
    CommandContained
PROPERTIES
    SlotReturned
    CardsServed
    LoopsEnd
CHECK_DEADLOCK FALSE
