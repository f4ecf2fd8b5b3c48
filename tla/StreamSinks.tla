----------------------------- MODULE StreamSinks -----------------------------
(***************************************************************************)
(* Peers' tracks moving between the shared capture sinks.                  *)
(*                                                                         *)
(* A sink (internal/capture/streamsink.go) runs one GStreamer pipeline     *)
(* while it has listeners.  A track (internal/webrtc/track.go) listens to  *)
(* at most one sink; it is switched, paused and removed by any number of   *)
(* goroutines, but each call holds the track's own streamMu from its first *)
(* line to its last.  The thread of the model is therefore the track: pc[t]*)
(* is the position of the one call that holds t's streamMu, "idle" when    *)
(* nobody does.  The calls of different tracks interleave at every lock,   *)
(* unlock and access to a map another goroutine writes.                    *)
(*                                                                         *)
(* A definition marked "mutant of" is no part of the model: it is a bug    *)
(* the code could have had, and the run it is tried in has to notice it.   *)
(***************************************************************************)

CONSTANTS
    Tracks,     \* the tracks of all connected peers
    Sinks,      \* the capture sinks
    KfSinks,    \* the video sinks: new listeners wait for a keyframe
    Offered,    \* the sinks a track can be set to: those of its codec
    NoTrack,    \* owner of a free mutex
    NoSink      \* the nil stream of a track

ASSUME SinksAssumption ==
    /\ KfSinks \subseteq Sinks
    /\ Offered \in [Tracks -> SUBSET Sinks]
    /\ NoSink \notin Sinks
    /\ NoTrack \notin Tracks

VARIABLES
    paused,     \* Track.paused
    stream,     \* Track.stream
    pc,         \* position of the call holding the track's streamMu
    op,         \* which call that is
    src,        \* the sink the call removes the track from
    dst,        \* the sink the call adds the track to
    sawNone,    \* tracks whose stop() found the first operand of its sum zero
    moveMu,     \* owner of the global moveSinkListenerMu
    mu,         \* owner of each sink's mu
    listeners,  \* tracks receiving the sink's samples
    lobby,      \* tracks waiting for the sink's next keyframe
    pipeline,   \* the sink's pipeline is running
    kfDue,      \* the pipeline was asked for a keyframe it has not yet made
    kfInHand    \* an emitter goroutine holds a keyframe it has not delivered

callVars == <<pc, op, src, dst, sawNone>>
sinkVars == <<listeners, lobby, pipeline, kfDue, kfInHand>>
vars == <<paused, stream, pc, op, src, dst, sawNone, moveMu, mu,
          listeners, lobby, pipeline, kfDue, kfInHand>>

PCs == {"idle", "lockMove", "lockSrc", "lockDst", "start", "remove", "add",
        "emit", "count", "stop", "return"}
Ops == {"none", "set", "pause", "resume", "remove"}

\* len(listeners) + len(listenersKf): only whether it is zero matters.
Attached(s) == listeners[s] \cup lobby[s]

\* What a track with these settings should be listening to.
Wanted(t) == IF paused[t] THEN NoSink ELSE stream[t]

\* Mutant of NewMaps: only the video sinks make their maps.
NilMaps == [s \in KfSinks |-> {}]

\* streamSinkNew() makes both maps of every sink.
NewMaps == [s \in Sinks |-> {}]

-----------------------------------------------------------------------------
Init ==
    /\ paused = [t \in Tracks |-> FALSE]
    /\ stream = [t \in Tracks |-> NoSink]
    /\ pc = [t \in Tracks |-> "idle"]
    /\ op = [t \in Tracks |-> "none"]
    /\ src = [t \in Tracks |-> NoSink]
    /\ dst = [t \in Tracks |-> NoSink]
    /\ sawNone = {}
    /\ moveMu = NoTrack
    /\ mu = [s \in Sinks |-> NoTrack]
    /\ listeners = NewMaps
    /\ lobby = NewMaps
    /\ pipeline = [s \in Sinks |-> FALSE]
    /\ kfDue = [s \in Sinks |-> FALSE]
    /\ kfInHand = [s \in Sinks |-> FALSE]

-----------------------------------------------------------------------------
(* The calls of a track that take no sink's lock: one step under streamMu. *)

\* SetStream on a paused track only remembers the stream.
SetStreamPaused(t, s) ==
    /\ pc[t] = "idle" /\ paused[t] /\ stream[t] # s
    /\ stream' = [stream EXCEPT ![t] = s]
    /\ UNCHANGED <<paused, callVars, moveMu, mu, sinkVars>>

\* RemoveStream on a track that listens to nothing.
RemoveStreamUnheard(t) ==
    /\ pc[t] = "idle" /\ Wanted(t) = NoSink
    /\ stream' = [stream EXCEPT ![t] = NoSink]
    /\ UNCHANGED <<paused, callVars, moveMu, mu, sinkVars>>

\* SetPaused on a track without a stream (or without a change: a stutter).
SetPausedNoStream(t, p) ==
    /\ pc[t] = "idle" /\ stream[t] = NoSink
    /\ paused' = [paused EXCEPT ![t] = p]
    /\ UNCHANGED <<stream, callVars, moveMu, mu, sinkVars>>

-----------------------------------------------------------------------------
(* The calls that do: Begin fixes the call's locals, the steps run it.     *)

Begin(t, o, from, to, first) ==
    /\ pc[t] = "idle"
    /\ op' = [op EXCEPT ![t] = o]
    /\ src' = [src EXCEPT ![t] = from]
    /\ dst' = [dst EXCEPT ![t] = to]
    /\ pc' = [pc EXCEPT ![t] = first]
    /\ UNCHANGED <<paused, stream, sawNone, moveMu, mu, sinkVars>>

\* Mutant of SetStream: no global mutex.
SetStreamUnordered(t, s) ==
    /\ ~paused[t] /\ stream[t] # s
    /\ Begin(t, "set", stream[t], s,
             IF stream[t] = NoSink THEN "lockDst" ELSE "lockSrc")

\* SetStream moves a listening track, or adds one that has no stream yet.
SetStream(t, s) ==
    /\ ~paused[t] /\ stream[t] # s
    /\ Begin(t, "set", stream[t], s,
             IF stream[t] = NoSink THEN "lockDst" ELSE "lockMove")

\* SetPaused(true) removes the listener and keeps the stream.
Pause(t) ==
    /\ ~paused[t] /\ stream[t] # NoSink
    /\ Begin(t, "pause", stream[t], NoSink, "lockSrc")

\* SetPaused(false) adds it again.
Resume(t) ==
    /\ paused[t] /\ stream[t] # NoSink
    /\ Begin(t, "resume", NoSink, stream[t], "lockDst")

\* RemoveStream, also the first half of the track's Shutdown.
RemoveStream(t) ==
    /\ Wanted(t) # NoSink
    /\ Begin(t, "remove", stream[t], NoSink, "lockSrc")

-----------------------------------------------------------------------------
(* The steps.  AddListener is a call without src, RemoveListener one       *)
(* without dst, MoveListenerTo has both and takes the global mutex first.  *)

Goto(t, next) == pc' = [pc EXCEPT ![t] = next]

LockMove(t) ==
    /\ pc[t] = "lockMove" /\ moveMu = NoTrack
    /\ moveMu' = t
    /\ Goto(t, "lockSrc")
    /\ UNCHANGED <<paused, stream, op, src, dst, sawNone, mu, sinkVars>>

LockSrc(t) ==
    /\ pc[t] = "lockSrc" /\ mu[src[t]] = NoTrack
    /\ mu' = [mu EXCEPT ![src[t]] = t]
    /\ Goto(t, IF dst[t] = NoSink THEN "remove" ELSE "lockDst")
    /\ UNCHANGED <<paused, stream, op, src, dst, sawNone, moveMu, sinkVars>>

\* Having both sinks, a move lets the next one in.
LockDst(t) ==
    /\ pc[t] = "lockDst" /\ mu[dst[t]] = NoTrack
    /\ mu' = [mu EXCEPT ![dst[t]] = t]
    /\ moveMu' = IF moveMu = t THEN NoTrack ELSE moveMu
    /\ Goto(t, "start")
    /\ UNCHANGED <<paused, stream, op, src, dst, sawNone, sinkVars>>

\* The deferred unlocks of a call, and the end of its streamMu section.
Unlock(t) ==
    /\ mu' = [s \in Sinks |-> IF mu[s] = t THEN NoTrack ELSE mu[s]]
    /\ pc' = [pc EXCEPT ![t] = "idle"]
    /\ op' = [op EXCEPT ![t] = "none"]
    /\ src' = [src EXCEPT ![t] = NoSink]
    /\ dst' = [dst EXCEPT ![t] = NoSink]

\* Mutant of AfterStart: a move adds the listener before it removes it.
AddFirst(t) == "add"

AfterStart(t) == IF src[t] = NoSink THEN "add" ELSE "remove"

\* A new pipeline's first sample is a keyframe; a request dies with the old.
CreatePipeline(s) ==
    /\ pipeline' = [pipeline EXCEPT ![s] = TRUE]
    /\ kfDue' = [kfDue EXCEPT ![s] = TRUE]

DestroyPipeline(s) ==
    /\ pipeline' = [pipeline EXCEPT ![s] = FALSE]
    /\ kfDue' = [kfDue EXCEPT ![s] = FALSE]

\* start(): the first listener creates the pipeline, one that exists is kept.
Start(t) ==
    /\ pc[t] = "start"
    /\ IF Attached(dst[t]) = {} /\ ~pipeline[dst[t]]
         THEN CreatePipeline(dst[t])
         ELSE UNCHANGED <<pipeline, kfDue>>
    /\ Goto(t, AfterStart(t))
    /\ UNCHANGED <<paused, stream, op, src, dst, sawNone, moveMu, mu,
                   listeners, lobby, kfInHand>>

\* Mutant of StartFails: the error is logged and the flags set all the same.
StartFailsUnnoticed(t) ==
    /\ pc[t] = "start" /\ Attached(dst[t]) = {} /\ ~pipeline[dst[t]]
    /\ stream' = [stream EXCEPT ![t] = dst[t]]
    /\ Unlock(t)
    /\ UNCHANGED <<paused, sawNone, moveMu, sinkVars>>

\* The pipeline cannot be created: the call returns the error and the track
\* keeps its stream, its listener and its paused flag.
StartFails(t) ==
    /\ pc[t] = "start" /\ Attached(dst[t]) = {} /\ ~pipeline[dst[t]]
    /\ Unlock(t)
    /\ UNCHANGED <<paused, stream, sawNone, moveMu, sinkVars>>

\* Mutant of Remove: the lobby is forgotten.
RemoveFromListeners(t) ==
    /\ pc[t] = "remove"
    /\ listeners' = [listeners EXCEPT ![src[t]] = @ \ {t}]
    /\ Goto(t, IF dst[t] = NoSink THEN "count" ELSE "add")
    /\ UNCHANGED <<paused, stream, op, src, dst, sawNone, moveMu, mu,
                   lobby, pipeline, kfDue, kfInHand>>

\* removeListener()
Remove(t) ==
    /\ pc[t] = "remove"
    /\ listeners' = [listeners EXCEPT ![src[t]] = @ \ {t}]
    /\ lobby' = [lobby EXCEPT ![src[t]] = @ \ {t}]
    /\ Goto(t, IF dst[t] = NoSink THEN "count" ELSE "add")
    /\ UNCHANGED <<paused, stream, op, src, dst, sawNone, moveMu, mu,
                   pipeline, kfDue, kfInHand>>

\* Mutant of EntersEmptyLobby: it looks at the lobby after it has joined it.
EntersSharedLobby(t) == dst[t] \in KfSinks /\ lobby[dst[t]] # {}

\* addListener(): a video sink puts the track in the lobby, and the first
\* one there will ask for a keyframe.
EntersEmptyLobby(t) == dst[t] \in KfSinks /\ lobby[dst[t]] = {}

\* Mutant of AfterAdd: a move does not stop its source.
NeverStop(t) == "return"

AfterAdd(t) == IF src[t] = NoSink THEN "return" ELSE "count"

Add(t) ==
    /\ pc[t] = "add"
    /\ IF dst[t] \in KfSinks
         THEN /\ lobby' = [lobby EXCEPT ![dst[t]] = @ \cup {t}]
              /\ UNCHANGED listeners
         ELSE /\ listeners' = [listeners EXCEPT ![dst[t]] = @ \cup {t}]
              /\ UNCHANGED lobby
    /\ Goto(t, IF EntersEmptyLobby(t) THEN "emit" ELSE AfterAdd(t))
    /\ UNCHANGED <<paused, stream, op, src, dst, sawNone, moveMu, mu,
                   pipeline, kfDue, kfInHand>>

\* ... after it has released listenersMu, if there is a pipeline to ask.
Emit(t) ==
    /\ pc[t] = "emit"
    /\ kfDue' = IF pipeline[dst[t]] THEN [kfDue EXCEPT ![dst[t]] = TRUE]
                                    ELSE kfDue
    /\ Goto(t, AfterAdd(t))
    /\ UNCHANGED <<paused, stream, op, src, dst, sawNone, moveMu, mu,
                   listeners, lobby, pipeline, kfInHand>>

\* Mutant of Count: the pipeline stops with the track, whoever else listens.
CountNobody(t) ==
    /\ pc[t] = "count"
    /\ sawNone' = sawNone \cup {t}
    /\ Goto(t, "stop")
    /\ UNCHANGED <<paused, stream, op, src, dst, moveMu, mu, sinkVars>>

\* stop() adds the lengths of two maps without listenersMu: it reads the one,
Count(t) ==
    /\ pc[t] = "count"
    /\ sawNone' = IF listeners[src[t]] = {} THEN sawNone \cup {t} ELSE sawNone
    /\ Goto(t, "stop")
    /\ UNCHANGED <<paused, stream, op, src, dst, moveMu, mu, sinkVars>>

\* then the other, and destroys the pipeline when the sum is zero.
Stop(t) ==
    /\ pc[t] = "stop"
    /\ IF t \in sawNone /\ lobby[src[t]] = {}
         THEN DestroyPipeline(src[t])
         ELSE UNCHANGED <<pipeline, kfDue>>
    /\ sawNone' = sawNone \ {t}
    /\ Goto(t, "return")
    /\ UNCHANGED <<paused, stream, op, src, dst, moveMu, mu,
                   listeners, lobby, kfInHand>>

\* The sink's call succeeded: the track records what it asked for.
Return(t) ==
    /\ pc[t] = "return"
    /\ stream' = CASE op[t] = "set" -> [stream EXCEPT ![t] = dst[t]]
                   [] op[t] = "remove" -> [stream EXCEPT ![t] = NoSink]
                   [] OTHER -> stream
    /\ paused' = CASE op[t] = "pause" -> [paused EXCEPT ![t] = TRUE]
                   [] op[t] = "resume" -> [paused EXCEPT ![t] = FALSE]
                   [] OTHER -> paused
    /\ Unlock(t)
    /\ UNCHANGED <<sawNone, moveMu, sinkVars>>

-----------------------------------------------------------------------------
(* The pipeline and the goroutine that empties its sample channel.         *)

\* The encoder makes a keyframe, asked for or not, and the goroutine takes it.
Keyframe(s) ==
    /\ s \in KfSinks /\ pipeline[s] /\ ~kfInHand[s]
    /\ kfInHand' = [kfInHand EXCEPT ![s] = TRUE]
    /\ kfDue' = [kfDue EXCEPT ![s] = FALSE]
    /\ UNCHANGED <<paused, stream, callVars, moveMu, mu,
                   listeners, lobby, pipeline>>

\* onSample() with a keyframe, perhaps after its pipeline was destroyed.  Delta
\* units change nothing here.
OnSample(s) ==
    /\ kfInHand[s]
    /\ listeners' = [listeners EXCEPT ![s] = @ \cup lobby[s]]
    /\ lobby' = [lobby EXCEPT ![s] = {}]
    /\ kfInHand' = [kfInHand EXCEPT ![s] = FALSE]
    /\ UNCHANGED <<paused, stream, callVars, moveMu, mu, pipeline, kfDue>>

-----------------------------------------------------------------------------
Call(t) ==
    \/ \E s \in Offered[t] : SetStreamPaused(t, s) \/ SetStream(t, s)
    \/ \E p \in BOOLEAN : SetPausedNoStream(t, p)
    \/ RemoveStreamUnheard(t)
    \/ Pause(t)
    \/ Resume(t)
    \/ RemoveStream(t)

\* The next step of the call that holds t's streamMu.
Step(t) ==
    \/ LockMove(t)
    \/ LockSrc(t)
    \/ LockDst(t)
    \/ Start(t)
    \/ StartFails(t)
    \/ Remove(t)
    \/ Add(t)
    \/ Emit(t)
    \/ Count(t)
    \/ Stop(t)
    \/ Return(t)

Next ==
    \/ \E t \in Tracks : Call(t) \/ Step(t)
    \/ \E s \in Sinks : Keyframe(s) \/ OnSample(s)

Spec == Init /\ [][Next]_vars

\* The scheduler runs every goroutine, and a Go mutex hands itself to a waiter
\* it has starved for a millisecond (strong fairness: a lock step is enabled
\* again and again, not all the time); the encoder answers a keyframe request.
Fairness ==
    /\ \A t \in Tracks : SF_vars(Step(t))
    /\ \A s \in Sinks :
          /\ WF_vars(kfDue[s] /\ Keyframe(s))
          /\ WF_vars(OnSample(s))

FairSpec == Spec /\ Fairness

-----------------------------------------------------------------------------
TypeOK ==
    /\ paused \in [Tracks -> BOOLEAN]
    /\ stream \in [Tracks -> Sinks \cup {NoSink}]
    /\ pc \in [Tracks -> PCs]
    /\ op \in [Tracks -> Ops]
    /\ src \in [Tracks -> Sinks \cup {NoSink}]
    /\ dst \in [Tracks -> Sinks \cup {NoSink}]
    /\ sawNone \subseteq Tracks
    /\ moveMu \in Tracks \cup {NoTrack}
    /\ mu \in [Sinks -> Tracks \cup {NoTrack}]
    /\ listeners \in [Sinks -> SUBSET Tracks]
    /\ lobby \in [Sinks -> SUBSET Tracks]
    /\ pipeline \in [Sinks -> BOOLEAN]
    /\ kfDue \in [Sinks -> BOOLEAN]
    /\ kfInHand \in [Sinks -> BOOLEAN]

\* A track nobody is switching hears exactly the stream it is set to, and
\* nothing while paused: what Track's fields say and what the sinks' maps hold
\* agree after every call, failed ones included (track.go, streamsink.go).
HeardAsSet ==
    \A t \in Tracks : pc[t] = "idle" =>
        \A s \in Sinks : t \in Attached(s) <=> Wanted(t) = s

\* At no moment, switching included, do two sinks feed one track, and no sink
\* holds it twice: samples of two encoders never mix (MoveListenerTo removes
\* before it adds, both under the two sinks' locks).
OneFeed ==
    \A t \in Tracks : \A s \in Sinks :
        t \in Attached(s) =>
            /\ \A z \in Sinks \ {s} : t \notin Attached(z)
            /\ ~(t \in listeners[s] /\ t \in lobby[s])

\* "moving listeners between streams ensures, that target pipeline is running
\* before listener is added": an audio sink with listeners has a pipeline,
\* whatever the other tracks do meanwhile.
AudioHasPipeline ==
    \A s \in Sinks \ KfSinks : Attached(s) # {} => pipeline[s]

\* "... and stops source pipeline if there are 0 listeners": once a sink's
\* lock is free nobody encodes for no one, video sinks included.
NoIdlePipeline ==
    \A s \in Sinks : (mu[s] = NoTrack /\ Attached(s) = {}) => ~pipeline[s]

\* A listener in the lobby of a running pipeline always has a keyframe coming:
\* asked for, in the emitter's hand, or about to be asked for (addListener asks
\* only for the first listener of the lobby).
KeyframeComing ==
    \A s \in Sinks : (lobby[s] # {} /\ pipeline[s]) =>
        \/ kfDue[s]
        \/ kfInHand[s]
        \/ \E t \in Tracks : pc[t] = "emit" /\ dst[t] = s

\* t cannot go on before u does.
WaitsFor(t, u) ==
    \/ pc[t] = "lockMove" /\ moveMu = u
    \/ pc[t] = "lockSrc" /\ mu[src[t]] = u
    \/ pc[t] = "lockDst" /\ mu[dst[t]] = u

\* "in order to do that safely (without possibility of deadlock) we need third
\* global mutex": no group of tracks waits for one another.
NoCircularWait ==
    \A D \in (SUBSET Tracks) \ {{}} :
        \E t \in D : \A u \in D : ~WaitsFor(t, u)

\* Every call returns (streamMu is released), whatever the other tracks do.
CallsReturn ==
    \A t \in Tracks : (pc[t] # "idle") ~> (pc[t] = "idle")

\* A listener leaves the lobby, to hear the stream or to leave the sink, if
\* its pipeline keeps running.
LobbyEmpties ==
    \A t \in Tracks, s \in Sinks :
        (t \in lobby[s] /\ pipeline[s]) ~> (t \notin lobby[s] \/ ~pipeline[s])

\* The comment of MoveListenerTo, for every sink: the pipeline runs while there
\* is a listener.  It fails for video sinks (see README).
HasPipeline ==
    \A s \in Sinks : Attached(s) # {} => pipeline[s]
=============================================================================
