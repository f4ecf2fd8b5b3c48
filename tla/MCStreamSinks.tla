---------------------------- MODULE MCStreamSinks ----------------------------
(* Instances of StreamSinks for TLC. *)
EXTENDS StreamSinksRefine, TLC

\* Tracks of one codec: each can be set to each sink.
EverySink == [t \in Tracks |-> Sinks]

\* Two audio tracks on the one audio sink, the other track on the video sinks.
TwoAudioTracks ==
    LET v == CHOOSE t \in Tracks : TRUE
    IN  [t \in Tracks |-> IF t = v THEN KfSinks ELSE Sinks \ KfSinks]
=============================================================================
