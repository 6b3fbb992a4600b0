SPECIFICATION PluginsSpec
CONSTANTS
    Outputs = {"o1", "dp1"}
    Preferred = {"dp1"}
    Announcements <- MCAnnouncements
    MaxCaptures = 2
    MaxHotplugs = 1
    HealthClients = {"c1", "c2"}
    Urls = {"u1", "u2"}
    DefaultUrl = "u1"
    Documents <- MCDocuments
    MaxCalls = 2
    MaxRequests = 2
INVARIANTS
    NothingLeaks
    DimensionsKnown
    PreferredCaptured
    PixelsIfConnected
    CompleteOrError
    NoLoneTimeout
    FromCurrentDaemon
PROPERTIES
    CaptureReturns
    HealthAnswered
