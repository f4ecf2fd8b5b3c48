SPECIFICATION Spec
CONSTANTS
    Sessions = {s1, s2}
    Requests = {r1}
    NoHost = NoHost
    NoSession = NoSession
    Media = {"audio"}
    Settings <- EverySetting
    Profiles <- EveryProfile
    Messages = {"signal", "media", "request", "release", "settings",
                "profile", "post", "give"}
    Serial = TRUE
CHECK_DEADLOCK FALSE
SYMMETRY Symmetry
INVARIANTS
    TypeOK
    PrivateHides
    SilentAsAsked
    HostEntitled
