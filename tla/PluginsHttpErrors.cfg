SPECIFICATION PluginsSpec
CONSTANTS
    Outputs = {"o1", "dp1"}
    Preferred = {"dp1"}
    Announcements <- MCAnnouncements
    MaxCaptures = 1
    MaxHotplugs = 0
    HealthClients = {"c1"}
    Urls = {"u1"}
    DefaultUrl = "u1"
    Documents <- MCDocuments
    MaxCalls = 1
    MaxRequests = 1
INVARIANT
    HttpErrorsThrow
