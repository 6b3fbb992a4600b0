SPECIFICATION FairSpec
CONSTANTS
    NumDevices = 2
    Keyboards = {1}
    Continuous = FALSE
    LengthArg = 1
    Second = 1
    UInt32Range = 64
    FileMaxLines = 2
    MaskBits = 1
    XkbReady = TRUE
    Selections = {{2}}
    CallerWaits = FALSE
    MaxTime = 3
    MaxStart = 1
    MaxSessions = 1
    MaxEvents = 3
    MaxSelectErrors = 1
INVARIANTS
    TypeOK
    FixedLengthOvershoot
    DoneMeansInactive
PROPERTIES
    FixedLengthEnds
