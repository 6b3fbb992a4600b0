SPECIFICATION Spec
CONSTANTS
    NumDevices = 1
    Keyboards = {1}
    Continuous = FALSE
    LengthArg = 1
    Second = 1
    UInt32Range = 64
    FileMaxLines = 2
    MaskBits = 1
    XkbReady = FALSE
    Selections = {}
    CallerWaits = FALSE
    MaxTime = 3
    MaxStart = 1
    MaxSessions = 1
    MaxEvents = 1
    MaxSelectErrors = 0
PROPERTY
    SecondStartHarmless
