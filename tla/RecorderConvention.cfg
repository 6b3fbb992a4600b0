SPECIFICATION FairSpec
CONSTANTS
    NumDevices = 2
    Keyboards = {1}
    Continuous = TRUE
    LengthArg = 1
    Second = 1
    UInt32Range = 64
    FileMaxLines = 2
    MaskBits = 2
    XkbReady = TRUE
    Selections = {{2}}
    CallerWaits = TRUE
    MaxTime = 3
    MaxStart = 1
    MaxSessions = 2
    MaxEvents = 1
    MaxSelectErrors = 1
INVARIANTS
    DevicesAsConfigured
PROPERTIES
    StopCompletes
    ImplementsFairLife
