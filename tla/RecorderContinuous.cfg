SPECIFICATION Spec
CONSTANTS
    NumDevices = 1
    Keyboards = {}
    Continuous = TRUE
    LengthArg = 1
    Second = 2
    UInt32Range = 64
    FileMaxLines = 2
    MaskBits = 2
    XkbReady = FALSE
    Selections = {}
    CallerWaits = FALSE
    MaxTime = 4
    MaxStart = 1
    MaxSessions = 2
    MaxEvents = 3
    MaxSelectErrors = 0
INVARIANTS
    ThreadOwnership
    LiveWindowKept
    DumpInWindow
    HeaderCoversSession
PROPERTIES
    StopReturnsFreshFile
    ImplementsLife
