SPECIFICATION Spec
CONSTANTS
    Outputs = {"o1", "dp1"}
    Preferred = {"dp1"}
    Announcements <- MCAnnouncements
    MaxCaptures = 1
    MaxHotplugs = 1
INVARIANT
    SuccessIsCapture
