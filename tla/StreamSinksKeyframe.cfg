SPECIFICATION Spec
CONSTANTS
    Tracks = {t1, t2}
    Sinks = {low}
    KfSinks = {low}
    Offered <- EverySink
    NoTrack = NoTrack
    NoSink = NoSink
INVARIANT HasPipeline
