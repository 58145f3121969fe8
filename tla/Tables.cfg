SPECIFICATION SpecAll
CONSTANTS
    SourceKeys = {"src"}
    ExpensiveFloor = 2
    HourSeconds = 2
    DayHours = 24
    MaxAge = 3
    MaxTemporaryAge = 1
    MaxFiles = 2
    MaxFileBytes = 3
    MaxInterval = 3
    MaxCapacity = 6
    Files = {1, 2, 3}
    Ages = {1, 2, 4}
    FileSizes = {1, 2}
    Keys = {"clock", "mail", "rain", "tides"}
    Sizes = {0, 1, 2, 9}
    MaxEntries = 3
    MaxBytes = 4
    Top = 9
    None = None
    Word = 2000000000
    NotFinite = NotFinite
    Broken = Broken
    Refusal = Refusal
    MaxFrameCount = 3
    MaxFramePixels = 2
    MaxStateBytes = 8
INVARIANTS
    IntervalsRespected
    EdgesHold
    DirectoryTidied
    LoadedIsRunnable
    DocumentsKeepValues
    MigratedFits
    FramesSettle
    BytesCounted
PROPERTIES
    InOrder
CHECK_DEADLOCK FALSE
