SPECIFICATION FairSpec
CONSTANTS
    Views <- AllViews
    MaxPeers = 2
    r1 = r1
    r2 = r2
    Requests = {r1, r2}
    Scenes <- TwoScenes
    RemoteTracks = {t1, t2, t3}
    NoTrack = NoTrack
    Channels = {c1, c2}
    Serials = {1, 2}
    MaxSerial = 1
    MaxChanges = 2
    NoImage = NoImage
    StreamIDs <- ThreeStreams
    Rates = {0, 1, 2, 4}
    Followed <- HighestFirst
    Targets = {1, 2, 3, 5}
    RequiredSamples = 4
    Percent = 115
    StableDuration = 2
    UnstableDuration = 1
    StalledDuration = 3
    DowngradeBackoff = 2
    UpgradeBackoff = 1
    MaxAge = 4
CHECK_DEADLOCK FALSE
INVARIANTS
    OnlyCurrentLives
    WatchingHasPeer
    CrashNeedsLateCall
    SourceHasReader
    CursorShown
    SelectsNearest
PROPERTIES
    ClosedEnds
    
