SPECIFICATION Spec
CONSTANTS
    Parts <- AllParts
    m1 = m1
    m2 = m2
    p1 = p1
    p2 = p2
    Members = {m1, m2}
    Profiles = {p1, p2}
    CanLogin = {p1}
    Settings <- ThreeProviders
    Configured <- OneConfigured
    MaxTokens = 2
    MaxCrashes = 1
    NoEntry = NoEntry
    NoSession = NoSession
    a = a
    b = b
    k1 = k1
    k2 = k2
    k3 = k3
    t1 = t1
    Clients = {a, b}
    Keys = {k1, k2, k3}
    Touches = {t1}
    Button = Button
    Shift = k1
    Layout <- ThreeKeycodes
    NewKey <- ShiftOrLetter
    Hold = 1
    MaxDrops = 2
    DesktopScenes <- FiveScenes
    NoClient = NoClient
    v1 = v1
    v2 = v2
    Viewers = {v1, v2}
    MaxEvents = 2
    MaxDialogs = 2
    Attempts = 2
    NoActive = NoActive
    NoViewer = NoViewer
    Conns = {c1}
    Requests = {r1, r2}
    MaxRequests = 3
    x = x
    y = y
    z = z
    Names = {x, y, z}
    Declarations <- OneOrTwo
    NoPlugin = NoPlugin
    NoObject = NoObject
SYMMETRY SameViewers
CHECK_DEADLOCK FALSE
INVARIANTS
    LoginsSurvive
    SessionsAreMembers
    KeysEnd
    KeysAreHosts
    DialogIsTold
    ReadersEnd
    CursorsFollow
    DependenciesFirst
