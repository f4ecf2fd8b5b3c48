------------------------------ MODULE WebRTCPeers ------------------------------
(***************************************************************************)
(* The life of a session's webrtc peers: WebRTCManagerCtx.CreatePeer and   *)
(* the signal/* handlers that use a peer, the state changes of a           *)
(* connection, SetWebRTCPeer and SetWebRTCConnected of the session, and    *)
(* the goroutines of a peer that have to end with its connection: the      *)
(* tracks' readers, the RTCP receiver, the statistics, the estimator.      *)
(*                                                                         *)
(* pion calls OnConnectionStateChange in a goroutine of its own for each   *)
(* change, so Connected, Disconnected and Closed of one peer may overtake  *)
(* each other, and a request that has fetched a peer may use it after the  *)
(* peer's channels were closed.                                            *)
(***************************************************************************)
EXTENDS Naturals, FiniteSets

CONSTANTS MaxPeers,     \* peers that CreatePeer makes for the session
          Requests,     \* message loops of the session's websockets
          Scenes        \* what is looked at in a behaviour

Peers == 1..MaxPeers
NoPeer == 0

ASSUME PeersAssumption ==
    /\ MaxPeers \in Nat
    /\ Scenes \subseteq [peers : SUBSET Peers, requests : SUBSET Requests,
                         details : BOOLEAN]
    \* details: tracks, RTCP, tickers, and requests about a peer that exists

VARIABLES
    scene,
    webrtcPeer,   \* session.webrtcPeer
    watching,     \* session.state.IsWatching
    conn,         \* ConnectionState() of each peer's connection
    made,         \* how far CreatePeer came with it
    listens,      \* which of its tracks are registered with a stream
    open,         \* which of its tracks' sample channels are open
    rtcp,         \* its video track's rtcpReader, channel and receiver
    tickers,      \* its goroutines with a ticker
    onConnected,  \* where its Connected callback is
    onGone,       \* its Disconnected or Failed callback has to run
    onClosed,     \* where its Closed callback is
    req,          \* where each message loop is, and with which peer
    evict,        \* where a Delete or profileChanged of the session is
    crashed,      \* the process ended in a send on a closed channel
    late,         \* history: a track got a stream after Shutdown took it away
    overtaken     \* history: Connected was noted of a peer that was gone

peerVars == <<conn, made, listens, open, rtcp, tickers,
              onConnected, onGone, onClosed>>
peersVars == <<scene, webrtcPeer, watching, peerVars, req, evict, crashed,
               late, overtaken>>

Kinds == {"audio", "video"}
Tickers == {"connectionStats", "estimatorReader"}

\* The variables stay in their types.
PeersTypeOK ==
    /\ scene \in Scenes
    /\ webrtcPeer \in Peers \cup {NoPeer}
    /\ {watching, late, overtaken} \subseteq BOOLEAN
    /\ conn \in [Peers -> {"none", "new", "connected", "disconnected",
                           "closed"}]
    /\ made \in [Peers -> {"no", "made", "registered", "offered", "answered"}]
    /\ listens \in [Peers -> SUBSET Kinds]
    /\ open \in [Peers -> SUBSET Kinds]
    /\ rtcp \in [Peers -> [reader : {"no", "reads", "holds", "over"},
                           full : BOOLEAN, closed : BOOLEAN,
                           receiver : {"no", "waits", "over"}]]
    /\ tickers \in [Peers -> [Tickers -> {"no", "waits", "sets", "over"}]]
    /\ onConnected \in [Peers -> {"no", "check", "write"}]
    /\ onGone \in [Peers -> BOOLEAN]
    /\ onClosed \in [Peers -> {"no", "check", "write", "clear", "audio",
                               "audio close", "video", "video close", "rtcp",
                               "over"}]
    /\ req \in [Requests -> [pc : {"idle", "swap", "replace", "offer",
                                   "gather", "first", "video", "audio"},
                             peer : Peers \cup {NoPeer},
                             old : Peers \cup {NoPeer}]]
    /\ evict \in {"no", "get", "nil"}
    /\ crashed \in {"no", "sample", "rtcp"}

Quiet == [pc |-> "idle", peer |-> NoPeer, old |-> NoPeer]

PeersInit ==
    /\ scene \in Scenes
    /\ webrtcPeer = NoPeer
    /\ watching = FALSE
    /\ conn = [p \in Peers |-> "none"]
    /\ made = [p \in Peers |-> "no"]
    /\ listens = [p \in Peers |-> {}]
    /\ open = [p \in Peers |-> {}]
    /\ rtcp = [p \in Peers |-> [reader |-> "no", full |-> FALSE,
                                closed |-> FALSE, receiver |-> "no"]]
    /\ tickers = [p \in Peers |-> [t \in Tickers |-> "no"]]
    /\ onConnected = [p \in Peers |-> "no"]
    /\ onGone = [p \in Peers |-> FALSE]
    /\ onClosed = [p \in Peers |-> "no"]
    /\ req = [r \in Requests |-> Quiet]
    /\ evict = "no"
    /\ crashed = "no"
    /\ late = FALSE
    /\ overtaken = FALSE

\* Nobody holds peer.mu, which CreateOffer keeps while candidates are gathered.
PeerFree(p) == \A r \in Requests : req[r].pc = "gather" => req[r].peer # p

\* Destroy() closes the connection unless it is closed; the change of its state
\* is told to the callback.  NoPeer: there is nothing to destroy.
Destroyed(p) ==
    IF p = NoPeer THEN UNCHANGED <<conn, onClosed>>
    ELSE /\ PeerFree(p)
         /\ conn' = [conn EXCEPT ![p] = "closed"]
         /\ onClosed' = IF conn[p] = "closed" THEN onClosed
                        ELSE [onClosed EXCEPT ![p] = "check"]

\* Track.SetStream of the video track, which is not paused: it is registered
\* with a sink, whether Shutdown has been here or not.
SetStream(p) ==
    /\ listens' = [listens EXCEPT ![p] = @ \cup {"video"}]
    /\ late' = (late \/ onClosed[p] \in {"video close", "rtcp", "over"})

Goto(r, pc) == req' = [req EXCEPT ![r].pc = pc]

Done(r) == req' = [req EXCEPT ![r] = Quiet]

-----------------------------------------------------------------------------
\* CreatePeer and the rest of signal/request

\* The connection and the tracks are made, with a goroutine for each.  After an
\* error nobody closes them.
NewPeer(r, p, ok) ==
    /\ req[r].pc = "idle"
    /\ r \in scene.requests /\ p \in scene.peers
    /\ conn[p] = "none" /\ \A q \in 1..(p - 1) : conn[q] # "none"
    /\ (ok \/ scene.details)
    /\ conn' = [conn EXCEPT ![p] = "new"]
    /\ made' = [made EXCEPT ![p] = "made"]
    /\ open' = [open EXCEPT ![p] = IF scene.details THEN Kinds ELSE {}]
    /\ rtcp' = [rtcp EXCEPT ![p].reader =
                    IF scene.details THEN "reads" ELSE "over"]
    /\ req' = IF ok THEN [req EXCEPT ![r] = [pc |-> "swap", peer |-> p,
                                             old |-> NoPeer]]
              ELSE req
    /\ UNCHANGED <<webrtcPeer, watching, listens, tickers, onConnected,
                   onGone, onClosed, evict, late, overtaken>>

\* SetWebRTCPeer puts the peer in its place...
SwapPeer(r) ==
    /\ req[r].pc = "swap"
    /\ webrtcPeer' = req[r].peer
    /\ req' = [req EXCEPT ![r].pc = "replace", ![r].old = webrtcPeer]
    /\ made' = [made EXCEPT ![req[r].peer] = "registered"]
    /\ UNCHANGED <<watching, conn, listens, open, rtcp, tickers, onConnected,
                   onGone, onClosed, evict, late, overtaken>>

\* mutant of ReplacePeer: the old peer goes on
KeepOld(r) ==
    /\ req[r].pc = "replace"
    /\ Goto(r, "offer")
    /\ UNCHANGED <<webrtcPeer, watching, peerVars, evict, late, overtaken>>

\* ... and destroys the one that had it, which is compared with the session's
\* as it is by now.
ReplacePeer(r) ==
    /\ req[r].pc = "replace"
    /\ Destroyed(IF req[r].old = webrtcPeer THEN NoPeer ELSE req[r].old)
    /\ Goto(r, "offer")
    /\ UNCHANGED <<webrtcPeer, watching, made, listens, open, rtcp, tickers,
                   onConnected, onGone, evict, late, overtaken>>

\* CreateOffer, also of signal/restart: a closed connection makes none.
CreateOffer(r) ==
    /\ req[r].pc = "offer"
    /\ PeerFree(req[r].peer)
    /\ IF conn[req[r].peer] = "closed" THEN Done(r) ELSE Goto(r, "gather")
    /\ UNCHANGED <<webrtcPeer, watching, peerVars, evict, late, overtaken>>

\* The candidates are gathered and the offer is sent; the first time, the
\* collectors are started and the media are set.
Gathered(r) ==
    LET p == req[r].peer IN
    /\ req[r].pc = "gather"
    /\ IF made[p] = "registered"
       THEN /\ made' = [made EXCEPT ![p] = "offered"]
            /\ IF scene.details
               THEN /\ rtcp' = [rtcp EXCEPT ![p].receiver = "waits"]
                    /\ tickers' = [tickers EXCEPT
                                      ![p] = [t \in Tickers |-> "waits"]]
               ELSE UNCHANGED <<rtcp, tickers>>
            /\ IF scene.details THEN Goto(r, "first") ELSE Done(r)
       ELSE Done(r) /\ UNCHANGED <<made, rtcp, tickers>>
    /\ UNCHANGED <<webrtcPeer, watching, conn, listens, open, onConnected,
                   onGone, onClosed, evict, late, overtaken>>

\* SetVideo, of signal/request or of signal/video.
SetVideo(r) ==
    /\ req[r].pc \in {"first", "video"}
    /\ PeerFree(req[r].peer)
    /\ SetStream(req[r].peer)
    /\ IF req[r].pc = "first" THEN Goto(r, "audio") ELSE Done(r)
    /\ UNCHANGED <<webrtcPeer, watching, conn, made, open, rtcp, tickers,
                   onConnected, onGone, onClosed, evict, overtaken>>

\* The stream cannot be started: the handler returns with the error.
SetVideoFails(r) ==
    /\ req[r].pc \in {"first", "video"}
    /\ PeerFree(req[r].peer)
    /\ Done(r)
    /\ UNCHANGED <<webrtcPeer, watching, peerVars, evict, late, overtaken>>

\* SetAudio unpauses the audio track: its stream was set by CreatePeer, and is
\* nil after RemoveStream.
SetAudio(r) ==
    /\ req[r].pc = "audio"
    /\ PeerFree(req[r].peer)
    /\ listens' = IF onClosed[req[r].peer] \in {"no", "check", "write",
                                                "clear", "audio"}
                  THEN [listens EXCEPT ![req[r].peer] = @ \cup {"audio"}]
                  ELSE listens
    /\ Done(r)
    /\ UNCHANGED <<webrtcPeer, watching, conn, made, open, rtcp, tickers,
                   onConnected, onGone, onClosed, evict, late, overtaken>>

\* signal/restart and signal/video fetch the session's peer and then use it.
Fetch(r, pc) ==
    /\ scene.details /\ r \in scene.requests
    /\ req[r].pc = "idle"
    /\ webrtcPeer # NoPeer
    /\ made[webrtcPeer] # "registered"
    /\ req' = [req EXCEPT ![r] = [pc |-> pc, peer |-> webrtcPeer,
                                  old |-> NoPeer]]
    /\ UNCHANGED <<webrtcPeer, watching, peerVars, evict, late, overtaken>>

\* signal/answer gives it the client's description; signal/candidate the way.
Answer ==
    /\ webrtcPeer # NoPeer
    /\ made[webrtcPeer] = "offered" /\ PeerFree(webrtcPeer)
    /\ made' = [made EXCEPT ![webrtcPeer] = "answered"]
    /\ UNCHANGED <<webrtcPeer, watching, conn, listens, open, rtcp, tickers,
                   onConnected, onGone, onClosed, req, evict, late, overtaken>>

-----------------------------------------------------------------------------
\* The connection and its callbacks

Connect(p) ==
    /\ made[p] = "answered"
    /\ conn[p] = "new" \/ (scene.details /\ conn[p] = "disconnected")
    /\ onConnected[p] = "no"
    /\ conn' = [conn EXCEPT ![p] = "connected"]
    /\ onConnected' = [onConnected EXCEPT ![p] = "check"]
    /\ UNCHANGED <<webrtcPeer, watching, made, listens, open, rtcp, tickers,
                   onGone, onClosed, req, evict, late, overtaken>>

Disconnect(p) ==
    /\ conn[p] = "connected"
    /\ conn' = [conn EXCEPT ![p] = "disconnected"]
    /\ onGone' = [onGone EXCEPT ![p] = TRUE]
    /\ UNCHANGED <<webrtcPeer, watching, made, listens, open, rtcp, tickers,
                   onConnected, onClosed, req, evict, late, overtaken>>

Gone(p) ==
    /\ onGone[p]
    /\ Destroyed(p)
    /\ onGone' = [onGone EXCEPT ![p] = FALSE]
    /\ UNCHANGED <<webrtcPeer, watching, made, listens, open, rtcp, tickers,
                   onConnected, req, evict, late, overtaken>>

\* SetWebRTCConnected(peer, true): is it still the session's...
Connected(p) ==
    /\ onConnected[p] = "check"
    /\ onConnected' = [onConnected EXCEPT
                           ![p] = IF webrtcPeer = p THEN "write" ELSE "no"]
    /\ UNCHANGED <<webrtcPeer, watching, conn, made, listens, open, rtcp,
                   tickers, onGone, onClosed, req, evict, late, overtaken>>

\* ... and then the state is written without a lock.
WriteConnected(p) ==
    /\ onConnected[p] = "write"
    /\ watching' = TRUE
    /\ onConnected' = [onConnected EXCEPT ![p] = "no"]
    /\ overtaken' = (overtaken \/ webrtcPeer # p
                     \/ onClosed[p] \notin {"no", "check", "write"})
    /\ UNCHANGED <<webrtcPeer, conn, made, listens, open, rtcp, tickers,
                   onGone, onClosed, req, evict, late>>

\* The tracks come after the session.
Tracks == IF scene.details THEN "audio" ELSE "over"

ClosedAt(p, from, to) ==
    /\ onClosed[p] = from
    /\ onClosed' = [onClosed EXCEPT ![p] = to]
    /\ UNCHANGED <<conn, made, tickers, onConnected, onGone, req, evict, late,
                   overtaken>>

\* SetWebRTCConnected(peer, false): is it still the session's, ...
CheckClosed(p) ==
    /\ ClosedAt(p, "check", IF webrtcPeer = p THEN "write" ELSE Tracks)
    /\ UNCHANGED <<webrtcPeer, watching, listens, open, rtcp>>

\* mutant of WriteClosed: the state is left as it is
ForgetState(p) ==
    /\ ClosedAt(p, "write", "clear")
    /\ UNCHANGED <<webrtcPeer, watching, listens, open, rtcp>>

\* ... then it is not watched any more, ...
WriteClosed(p) ==
    /\ ClosedAt(p, "write", "clear")
    /\ watching' = FALSE
    /\ UNCHANGED <<webrtcPeer, listens, open, rtcp>>

\* ... and if it still is the session's it is taken away.
ClearPeer(p) ==
    /\ ClosedAt(p, "clear", Tracks)
    /\ webrtcPeer' = IF webrtcPeer = p THEN NoPeer ELSE webrtcPeer
    /\ UNCHANGED <<watching, listens, open, rtcp>>

\* mutant of RemoveStream: the track stays registered
LeaveStream(p, k) ==
    /\ ClosedAt(p, k, IF k = "audio" THEN "audio close" ELSE "video close")
    /\ UNCHANGED <<webrtcPeer, watching, listens, open, rtcp>>

\* Track.Shutdown, of the audio and then of the video: the stream is removed...
RemoveStream(p, k) ==
    /\ ClosedAt(p, k, IF k = "audio" THEN "audio close" ELSE "video close")
    /\ listens' = [listens EXCEPT ![p] = @ \ {k}]
    /\ UNCHANGED <<webrtcPeer, watching, open, rtcp>>

\* ... and the channel closed.
CloseSample(p, k) ==
    /\ IF k = "audio" THEN ClosedAt(p, "audio close", "video")
                      ELSE ClosedAt(p, "video close", "rtcp")
    /\ open' = [open EXCEPT ![p] = @ \ {k}]
    /\ UNCHANGED <<webrtcPeer, watching, listens, rtcp>>

\* mutant of CloseRtcp: the channel stays open
LeaveRtcp(p) ==
    /\ ClosedAt(p, "rtcp", "over")
    /\ UNCHANGED <<webrtcPeer, watching, listens, open, rtcp>>

CloseRtcp(p) ==
    /\ ClosedAt(p, "rtcp", "over")
    /\ rtcp' = [rtcp EXCEPT ![p].closed = TRUE]
    /\ UNCHANGED <<webrtcPeer, watching, listens, open>>

-----------------------------------------------------------------------------
\* The peer's goroutines

\* A sink gives a sample to a track whose channel is closed.
SendSample(p) ==
    /\ crashed = "no"
    /\ listens[p] \ open[p] # {}
    /\ crashed' = "sample"
    /\ UNCHANGED <<scene, webrtcPeer, watching, peerVars, req, evict, late, overtaken>>

RtcpStep(p, to) ==
    /\ rtcp' = [rtcp EXCEPT ![p] = to]
    /\ UNCHANGED <<webrtcPeer, watching, conn, made, listens, open, tickers,
                   onConnected, onGone, onClosed, req, evict, late, overtaken>>

\* rtcpReader of the video track reads packets, or that the connection ended...
ReadRtcp(p) ==
    /\ rtcp[p].reader = "reads"
    /\ conn[p] \in {"connected", "disconnected", "closed"}
    /\ RtcpStep(p, [rtcp[p] EXCEPT !.reader =
                        IF conn[p] = "closed" THEN "over" ELSE "holds"])

\* ... and puts them into the channel, which holds one.
PutRtcp(p) ==
    /\ rtcp[p].reader = "holds"
    /\ ~rtcp[p].closed /\ ~rtcp[p].full
    /\ RtcpStep(p, [rtcp[p] EXCEPT !.reader = "reads", !.full = TRUE])

\* The channel was closed under it.
PutRtcpPanics(p) ==
    /\ crashed = "no"
    /\ rtcp[p].reader = "holds"
    /\ rtcp[p].closed
    /\ crashed' = "rtcp"
    /\ UNCHANGED <<scene, webrtcPeer, watching, peerVars, req, evict, late, overtaken>>

\* rtcpReceiver: until the channel is closed and empty.
ReceiveRtcp(p) ==
    /\ rtcp[p].receiver = "waits"
    /\ rtcp[p].full \/ rtcp[p].closed
    /\ RtcpStep(p, [rtcp[p] EXCEPT !.full = FALSE, !.receiver =
                        IF rtcp[p].full THEN "waits" ELSE "over"])

TickerAt(p, t, to) == tickers' = [tickers EXCEPT ![p][t] = to]

\* connectionStats and estimatorReader look at the connection at each tick;
\* the estimator goes on only with a stream.
Tick(p, t) ==
    /\ tickers[p][t] = "waits"
    /\ IF conn[p] = "closed" THEN TickerAt(p, t, "over")
       ELSE t = "estimatorReader" /\ "video" \in listens[p]
            /\ TickerAt(p, t, "sets")
    /\ UNCHANGED <<webrtcPeer, watching, conn, made, listens, open, rtcp,
                   onConnected, onGone, onClosed, req, evict, late, overtaken>>

\* The estimator's SetVideo; the selector may have no other stream.
Estimate(p, found) ==
    /\ tickers[p]["estimatorReader"] = "sets"
    /\ PeerFree(p)
    /\ TickerAt(p, "estimatorReader", "waits")
    /\ IF found THEN SetStream(p) ELSE UNCHANGED <<listens, late>>
    /\ UNCHANGED <<webrtcPeer, watching, conn, made, open, rtcp,
                   onConnected, onGone, onClosed, req, evict, overtaken>>

-----------------------------------------------------------------------------
\* Delete and profileChanged: a session that watches...
Evict ==
    /\ scene.details
    /\ evict = "no"
    /\ watching
    /\ evict' = "get"
    /\ UNCHANGED <<webrtcPeer, watching, peerVars, req, late, overtaken>>

\* ... has its peer destroyed; there may be none, and the request panics.
EvictPeer ==
    /\ evict = "get"
    /\ evict' = IF webrtcPeer = NoPeer THEN "nil" ELSE "no"
    /\ Destroyed(webrtcPeer)
    /\ UNCHANGED <<webrtcPeer, watching, made, listens, open, rtcp, tickers,
                   onConnected, onGone, req, late, overtaken>>

-----------------------------------------------------------------------------
Request(r) ==
    \/ \E p \in Peers, ok \in BOOLEAN : NewPeer(r, p, ok)
    \/ SwapPeer(r) \/ ReplacePeer(r) \/ CreateOffer(r) \/ Gathered(r)
    \/ SetVideo(r) \/ SetVideoFails(r) \/ SetAudio(r)
    \/ Fetch(r, "offer") \/ Fetch(r, "video")

Callback(p) ==
    \/ Gone(p) \/ Connected(p) \/ WriteConnected(p)
    \/ CheckClosed(p) \/ WriteClosed(p) \/ ClearPeer(p) \/ CloseRtcp(p)
    \/ \E k \in Kinds : RemoveStream(p, k) \/ CloseSample(p, k)

Goroutine(p) ==
    \/ ReadRtcp(p) \/ PutRtcp(p) \/ ReceiveRtcp(p)
    \/ \E t \in Tickers : Tick(p, t)
    \/ \E found \in BOOLEAN : Estimate(p, found)

\* A crash ends the process.
Alive == crashed = "no" /\ UNCHANGED <<scene, crashed>>

Inner(p) == Alive /\ (Callback(p) \/ Goroutine(p))

Gathering(r) == Alive /\ Gathered(r)

PeersNext ==
    \/ /\ Alive
       /\ \/ \E r \in Requests : Request(r)
          \/ Answer \/ Evict \/ EvictPeer
          \/ \E p \in Peers : Connect(p) \/ Disconnect(p) \/ Callback(p)
                              \/ Goroutine(p)
    \/ \E p \in Peers : SendSample(p) \/ PutRtcpPanics(p)

\* Callbacks and goroutines run, and gathering candidates ends.  Nothing is
\* asked of the client or of the network.
PeersFairness ==
    /\ \A p \in Peers : WF_peersVars(Inner(p) \/ PutRtcpPanics(p))
    /\ \A r \in Requests : WF_peersVars(Gathering(r))

-----------------------------------------------------------------------------
\* No SetWebRTCPeer is under way, and no connection is being closed.
Settled ==
    /\ \A r \in Requests : req[r].pc # "replace"
    /\ \A p \in Peers : /\ onClosed[p] \in {"no", "over"}
                        /\ onConnected[p] = "no"

\* Once a peer was the session's, it lives on only as long as it is the
\* session's (session.go, SetWebRTCPeer: "destroy the old one").
OnlyCurrentLives ==
    crashed = "no" /\ Settled =>
        \A p \in Peers \ {webrtcPeer} :
            made[p] \in {"no", "made"} \/ conn[p] = "closed"

\* A session counts as watching only while it has a peer; the exception is a
\* Connected that checked the peer before, and wrote after, it was taken away
\* (session.go, SetWebRTCConnected).
WatchingHasPeer ==
    crashed = "no" /\ Settled /\ watching => webrtcPeer # NoPeer \/ overtaken

\* A sample is sent on a closed channel only if a request or the estimator gave
\* the track a stream after Shutdown had removed it (track.go, Shutdown).
CrashNeedsLateCall == crashed = "sample" => late

\* When a connection is closed its peer is forgotten and all its goroutines
\* end, even if the Closed callback overtakes the others.
Ended(p) ==
    /\ webrtcPeer # p
    /\ open[p] = {}
    /\ rtcp[p].reader = "over" /\ rtcp[p].receiver # "waits"
    /\ \A t \in Tickers : tickers[p][t] \in {"no", "over"}

ClosedEnds ==
    \A p \in Peers : (conn[p] = "closed") ~> (Ended(p) \/ crashed # "no")
=============================================================================
