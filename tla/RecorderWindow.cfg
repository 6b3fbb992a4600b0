SPECIFICATION Spec
CONSTANTS
    NumDevices = 1
    Keyboards = {1}
    Continuous = TRUE
    LengthArg = 1
    Second = 2
    UInt32Range = 64
    FileMaxLines = 2
    MaskBits = 1
    XkbReady = FALSE
    Selections = {}
    CallerWaits = TRUE
    MaxTime = 4
    MaxStart = 1
    MaxSessions = 1
    MaxEvents = 1
    MaxSelectErrors = 0
PROPERTY
    WindowComplete
