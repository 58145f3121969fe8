SPECIFICATION Spec
CONSTANTS
    HourSeconds = 1
    DayHours = 2
    Configs <- QuietAndNot
    Owners = {"dialog"}
    Desired = {1}
    Consumers = {"desktop"}
    Desktop = "desktop"
    Capacities = {1}
    Temperatures = {"unknown"}
    Events = {"e1"}
    MaxSeen = 1
VIEW View
PROPERTY OnlyInputExtends
CHECK_DEADLOCK FALSE
