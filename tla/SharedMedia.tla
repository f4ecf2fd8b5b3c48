------------------------------ MODULE SharedMedia ------------------------------
(***************************************************************************)
(* The microphone (or the webcam) that clients share: the OnTrack callback *)
(* of WebRTCManagerCtx.CreatePeer, one goroutine for each remote track,    *)
(* and the StreamSrcManagerCtx whose pipeline the newest track takes over. *)
(*                                                                         *)
(* The pointer micStop and the stopped flag of a track are shared by these *)
(* goroutines without a lock.                                              *)
(***************************************************************************)
EXTENDS Naturals, FiniteSets

CONSTANTS RemoteTracks, NoTrack

ASSUME MediaAssumption == NoTrack \notin RemoteTracks

VARIABLES
    micStop,    \* whose stopFn the manager would call
    source,     \* the track that started the source's pipeline
    remote,     \* where each track's goroutine is, and whose stopFn it runs
    stopped,    \* each stopFn's flag
    receiving,  \* the tracks whose receiver was not stopped
    belated     \* history: the pipeline was started by a track that another
                \* one had stopped before it came to that

mediaVars == <<micStop, source, remote, stopped, receiving, belated>>

MediaTypeOK ==
    /\ {micStop, source} \subseteq RemoteTracks \cup {NoTrack}
    /\ remote \in [RemoteTracks ->
           [pc : {"no", "look", "call", "stop", "mark", "halt", "set",
                  "start", "reads", "over"},
            of : RemoteTracks \cup {NoTrack}]]
    /\ stopped \subseteq RemoteTracks
    /\ receiving \subseteq RemoteTracks
    /\ belated \in BOOLEAN

MediaInit ==
    /\ micStop = NoTrack
    /\ source = NoTrack
    /\ remote = [t \in RemoteTracks |-> [pc |-> "no", of |-> NoTrack]]
    /\ stopped = {}
    /\ receiving = {}
    /\ belated = FALSE

At(t, pc) == remote[t].pc = pc

\* Before its own stopFn, which is deferred, a track runs the other's.
Move(t, pc, of) == remote' = [remote EXCEPT ![t] = [pc |-> pc, of |-> of]]

AfterStop(t) == IF remote[t].of = t THEN "over" ELSE "set"

\* A client shares a track that it may share and whose codec is known.
OnTrack(t) ==
    /\ At(t, "no")
    /\ receiving' = receiving \cup {t}
    /\ Move(t, "look", NoTrack)
    /\ UNCHANGED <<micStop, source, stopped, belated>>

\* Is there a track to be stopped?
LookForOther(t) ==
    /\ At(t, "look")
    /\ Move(t, IF micStop = NoTrack THEN "set" ELSE "call", NoTrack)
    /\ UNCHANGED <<micStop, source, stopped, receiving, belated>>

\* The pointer is read again to call it.
CallOther(t) ==
    /\ At(t, "call")
    /\ Move(t, "stop", micStop)
    /\ UNCHANGED <<micStop, source, stopped, receiving, belated>>

\* stopFn: has it run already?
StopFn(t) ==
    /\ At(t, "stop")
    /\ Move(t, IF remote[t].of \in stopped THEN AfterStop(t) ELSE "mark",
             remote[t].of)
    /\ UNCHANGED <<micStop, source, stopped, receiving, belated>>

\* It has now, and the receiver is stopped...
MarkStopped(t) ==
    /\ At(t, "mark")
    /\ stopped' = stopped \cup {remote[t].of}
    /\ receiving' = receiving \ {remote[t].of}
    /\ Move(t, "halt", remote[t].of)
    /\ UNCHANGED <<micStop, source, belated>>

\* mutant of HaltSource: only the receiver is stopped
HaltNothing(t) ==
    /\ At(t, "halt")
    /\ Move(t, AfterStop(t), remote[t].of)
    /\ UNCHANGED <<micStop, source, stopped, receiving, belated>>

\* ... and then the pipeline, whoever started it.
HaltSource(t) ==
    /\ At(t, "halt")
    /\ source' = NoTrack
    /\ Move(t, AfterStop(t), remote[t].of)
    /\ UNCHANGED <<micStop, stopped, receiving, belated>>

SetMicStop(t) ==
    /\ At(t, "set")
    /\ micStop' = t
    /\ Move(t, "start", t)
    /\ UNCHANGED <<source, stopped, receiving, belated>>

\* StreamSrcManagerCtx.Start
StartSource(t) ==
    /\ At(t, "start")
    /\ source = NoTrack
    /\ source' = t
    /\ belated' = (t \in stopped)
    /\ Move(t, "reads", t)
    /\ UNCHANGED <<micStop, stopped, receiving>>

\* There is a pipeline, or it is not enabled, has no such codec, or fails.
StartFails(t) ==
    /\ At(t, "start")
    /\ Move(t, "stop", t)
    /\ UNCHANGED <<micStop, source, stopped, receiving, belated>>

\* Read fails when the receiver is stopped or the client ends the track; what
\* it returns before is pushed to the pipeline, if there is one.
ReadEnds(t) ==
    /\ At(t, "reads")
    /\ Move(t, "stop", t)
    /\ UNCHANGED <<micStop, source, stopped, receiving, belated>>

MediaNext == \E t \in RemoteTracks :
    \/ OnTrack(t) \/ LookForOther(t) \/ CallOther(t) \/ StopFn(t)
    \/ MarkStopped(t) \/ HaltSource(t) \/ SetMicStop(t) \/ StartSource(t) \/ StartFails(t)
    \/ ReadEnds(t)

-----------------------------------------------------------------------------
\* However tracks come, go and replace each other, the pipeline is not left
\* running after the last of them, when nobody would feed it or stop it
\* (webrtc/manager.go, OnTrack: every return runs stopFn).  The exception is a
\* track that another one stopped while it was on its way to Start.
SourceHasReader ==
    (\A t \in RemoteTracks : remote[t].pc \in {"no", "over"})
        => source = NoTrack \/ belated
=============================================================================
