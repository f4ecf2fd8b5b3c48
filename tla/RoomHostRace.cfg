SPECIFICATION Spec
CONSTANTS
    Sessions = {s1}
    Requests = {r1}
    NoHost = NoHost
    NoSession = NoSession
    Media = {}
    Settings <- PrivateSettings
    Profiles <- Member
    Messages = {"request", "settings"}
    Serial = FALSE
CHECK_DEADLOCK FALSE
SYMMETRY Symmetry
INVARIANT HostEntitled
