-------------------------- MODULE StreamSinksRefine --------------------------
(***************************************************************************)
(* StreamSinks implements Switchboard.  A track is set to Wanted(t), tuned *)
(* to the sink whose maps hold it, and a sink is on while its pipeline     *)
(* runs; the audio sinks are the guarded ones.                             *)
(***************************************************************************)
EXTENDS StreamSinks

Tuned(t) ==
    IF \E s \in Sinks : t \in Attached(s)
      THEN CHOOSE s \in Sinks : t \in Attached(s)
      ELSE NoSink

Board == INSTANCE Switchboard WITH
    Guarded <- Sinks \ KfSinks,
    set     <- [t \in Tracks |-> Wanted(t)],
    tuned   <- [t \in Tracks |-> Tuned(t)],
    on      <- pipeline

\* Every step of the sinks is a step of the switchboard or none at all: no
\* listener is added to a stopped audio sink, none is moved without having left
\* its old sink, no audio pipeline stops under a listener, no setting changes
\* to something the track does not hear (streamsink.go:211-290,
\* track.go:118-196).
ImplementsSwitchboard == Board!Spec

=============================================================================
