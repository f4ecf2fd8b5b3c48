SPECIFICATION Spec
CONSTANTS
    Tracks = {t1, t2, t3}
    Sinks = {low, high, audio}
    KfSinks = {low, high}
    Offered <- TwoAudioTracks
    NoTrack = NoTrack
    NoSink = NoSink
INVARIANT TypeOK
INVARIANT AudioHasPipeline
PROPERTY ImplementsSwitchboard
