SPECIFICATION FairSpec
CONSTANTS
    Admins = {a1, a2}
    Viewers = {v1, v2}
    Tracks = {t1, t2}
    Sizes = {small, large}
    Urls = {u1}
    None = None
    Modes <- EachPart
CHECK_DEADLOCK FALSE
INVARIANTS
    RunsAsStarted
    FitsScreen
PROPERTIES
    ResizeEnds
    CastIdles
    ShutdownEnds
