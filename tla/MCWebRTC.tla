------------------------------- MODULE MCWebRTC -------------------------------
(* Small instances of the parts of internal/webrtc.                        *)
EXTENDS WebRTC

CONSTANTS r1, r2

\* Two peers made by two message loops that overlap, and one peer in detail.
TwoScenes == {[peers |-> {1, 2}, requests |-> {r1, r2}, details |-> FALSE],
              [peers |-> {1}, requests |-> {r1}, details |-> TRUE]}

AllViews == {"peers", "media", "cursors", "estimator"}
EstimatorOnly == {"estimator"}

\* The order of --capture.video.ids and the bitrates in it.
ThreeStreams == <<"first", "second", "third">>

InOrder(a, b, c) ==
    [s \in Streams |-> CASE s = "first" -> a
                         [] s = "second" -> b
                         [] s = "third" -> c]

HighestFirst == {InOrder(4, 2, 1), InOrder(2, 1, 0)}
LowestFirst == {InOrder(1, 2, 4)}
=============================================================================
