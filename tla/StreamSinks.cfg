SPECIFICATION FairSpec
CONSTANTS
    Tracks = {t1, t2}
    Sinks = {low, high}
    KfSinks = {low, high}
    Offered <- EverySink
    NoTrack = NoTrack
    NoSink = NoSink
INVARIANT HeardAsSet
INVARIANT OneFeed
INVARIANT NoIdlePipeline
INVARIANT KeyframeComing
INVARIANT NoCircularWait
PROPERTY CallsReturn
PROPERTY LobbyEmpties
