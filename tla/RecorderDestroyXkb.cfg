SPECIFICATION Spec
CONSTANTS
    NumDevices = 1
    Keyboards = {1}
    Continuous = TRUE
    LengthArg = 1
    Second = 1
    UInt32Range = 64
    FileMaxLines = 2
    MaskBits = 1
    XkbReady = TRUE
    Selections = {}
    CallerWaits = TRUE
    MaxTime = 3
    MaxStart = 1
    MaxSessions = 1
    MaxEvents = 1
    MaxSelectErrors = 0
INVARIANT
    NoUseAfterFree
