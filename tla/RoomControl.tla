------------------------------ MODULE RoomControl ------------------------------
(***************************************************************************)
(* Who holds the control of the room and who may see it: the room settings *)
(* (internal/session/manager.go, internal/api/room/settings.go), the host  *)
(* (internal/websocket/handler/control.go, internal/api/room/control.go)   *)
(* and the pausing of webrtc peers in private mode (handler/signal.go,     *)
(* internal/webrtc/peer.go).                                               *)
(*                                                                         *)
(* The messages of one session are handled one at a time by its websocket  *)
(* goroutine; every administrator's REST request has a goroutine of its    *)
(* own.  Settings and profiles are read and written one access at a time,  *)
(* so a handler may act on what it read before another one wrote.          *)
(***************************************************************************)
EXTENDS Naturals, FiniteSets

CONSTANTS Sessions,   \* the sessions, which stay logged in
          Requests,   \* REST requests of administrators that run at once
          NoHost,     \* the empty host id
          NoSession,  \* a request that works on no session
          Media,      \* the kinds of tracks of a webrtc peer
          Settings,   \* the settings an administrator may choose
          Profiles,   \* the profiles an administrator may choose
          Messages,   \* the websocket messages and REST requests that are sent
          Serial      \* handlers that read or set the host run one by one

ASSUME RoomControlAssumption ==
    /\ NoHost \notin Sessions
    /\ NoSession \notin Sessions
    /\ Media \subseteq {"video", "audio"}
    /\ Settings \subseteq [private : BOOLEAN, locked : BOOLEAN,
                           implicit : BOOLEAN]
    /\ Profiles \subseteq [admin : BOOLEAN, canHost : BOOLEAN]
    /\ Serial \in BOOLEAN

VARIABLES
    settings,   \* manager.settings
    profile,    \* session.profile, for each session
    host,       \* manager.hostId
    granted,    \* the host has its control from an administrator's request,
                \* or was demoted with it: history, read by HostEntitled only
    live,       \* the sessions with a webrtc peer
    paused,     \* peer.paused
    disabled,   \* the media a member has turned off
    muted,      \* Track.paused of each of the peer's tracks
    holds,      \* the requests whose webrtcPeer is their session's peer still
    unasked,    \* history: the peers that private mode should have paused when
                \* their first offer failed, until they are paused or unpaused
    ws,         \* where each session's websocket goroutine is
    step,       \* where each REST request is
    target,     \* the session it works on
    todo,       \* the sessions UpdateSettings has still to look at
    hides,      \* the requests whose local "enabled" is true
    locks       \* the requests that have locked the controls

roomVars == <<settings, profile>>
hostVars == <<host, granted>>
peerVars == <<live, paused, disabled, muted, holds, unasked>>
reqVars == <<step, target, todo, hides, locks>>
vars == <<settings, profile, host, granted, live, paused, disabled, muted,
          holds, unasked, ws, step, target, todo, hides, locks>>

WsPcs == {"idle", "private", "pause", "video", "audio", "isHost",
          "mayHost", "implicit", "hosted", "setHost", "clearHost"}
ReqPcs == {"idle", "each", "isHost", "clear", "peer", "pause", "locked",
           "clearHost", "profile", "lostHost", "profilePeer", "readPrivate",
           "give", "hosted", "mayHost", "request"}

TypeOK ==
    /\ settings \in Settings
    /\ profile \in [Sessions -> Profiles]
    /\ host \in Sessions \cup {NoHost}
    /\ granted \in BOOLEAN
    /\ live \in SUBSET Sessions
    /\ paused \in SUBSET live
    /\ disabled \in [Sessions -> SUBSET Media]
    /\ muted \in [Sessions -> SUBSET Media]
    /\ holds \in SUBSET Requests
    /\ unasked \in SUBSET live
    /\ ws \in [Sessions -> WsPcs]
    /\ step \in [Requests -> ReqPcs]
    /\ target \in [Requests -> Sessions \cup {NoSession}]
    /\ todo \in [Requests -> SUBSET Sessions]
    /\ hides \in SUBSET Requests
    /\ locks \in SUBSET Requests

\* A peer starts with its audio track paused: manually disabled at first.
FirstDisabled == {"audio"} \cap Media

Init ==
    /\ settings \in Settings
    /\ profile \in [Sessions -> Profiles]
    /\ host = NoHost
    /\ granted = FALSE
    /\ live = {}
    /\ paused = {}
    /\ disabled = [s \in Sessions |-> {}]
    /\ muted = [s \in Sessions |-> {}]
    /\ holds = {}
    /\ unasked = {}
    /\ ws = [s \in Sessions |-> "idle"]
    /\ step = [r \in Requests |-> "idle"]
    /\ target = [r \in Requests |-> NoSession]
    /\ todo = [r \in Requests |-> {}]
    /\ hides = {}
    /\ locks = {}

Rest == /\ \A s \in Sessions : ws[s] = "idle"
        /\ \A r \in Requests : step[r] = "idle"

\* In a Serial run a handler that may change the host, the settings or a profile
\* starts after every other one has ended.
MayStart ==
    Serial => /\ \A s \in Sessions :
                     ws[s] \in {"idle", "private", "pause", "video", "audio"}
              /\ \A r \in Requests : step[r] = "idle"

PrivateModeEnabled(s) == settings.private /\ ~profile[s].admin

SetHost(s, byAdmin) == host' = s /\ granted' = byAdmin
ClearHost == SetHost(NoHost, FALSE)

WsGoTo(s, pc) == ws' = [ws EXCEPT ![s] = pc]

\* A request starts, goes on, and returns.
Begin(r, pc, s) ==
    /\ MayStart
    /\ step[r] = "idle"
    /\ step' = [step EXCEPT ![r] = pc]
    /\ target' = [target EXCEPT ![r] = s]
    /\ UNCHANGED <<todo, hides, locks>>

ReqGoTo(r, pc) ==
    /\ step' = [step EXCEPT ![r] = pc]
    /\ UNCHANGED <<target, todo, hides, locks>>

Return(r) ==
    /\ step' = [step EXCEPT ![r] = "idle"]
    /\ target' = [target EXCEPT ![r] = NoSession]
    /\ locks' = locks \ {r}
    /\ hides' = hides \ {r}
    /\ todo' = todo

\* Track.SetPaused of the tracks of some media: one that should play again and
\* whose pipeline does not start stays paused.
SetTracks(s, media, off) ==
    \E failed \in SUBSET (muted[s] \cap media) :
        muted' = [muted EXCEPT ![s] =
                     (@ \ media) \cup (off \cap media) \cup failed]

\* WebRTCPeerCtx.SetPaused, of the session's peer.
SetPaused(s, isPaused) ==
    /\ paused' = IF isPaused THEN paused \cup {s} ELSE paused \ {s}
    /\ unasked' = unasked \ {s}
    /\ SetTracks(s, Media, IF isPaused THEN Media ELSE disabled[s])

\* Whatever peer of s a request has found is not the session's any more.
LosePeer(s) == holds' = {r \in holds : target[r] # s}

-----------------------------------------------------------------------------
\* signalRequest, signalVideo and signalAudio

\* CreatePeer makes its peer the session's, and the old one is destroyed,
CreatePeer(s) ==
    /\ "signal" \in Messages
    /\ ws[s] = "idle"
    /\ live' = live \cup {s}
    /\ paused' = paused \ {s}
    /\ disabled' = [disabled EXCEPT ![s] = FirstDisabled]
    /\ muted' = [muted EXCEPT ![s] = FirstDisabled]
    /\ unasked' = unasked \ {s}
    /\ LosePeer(s)
    /\ WsGoTo(s, "private")
    /\ UNCHANGED <<roomVars, hostVars, reqVars>>

\* before it makes the offer: when that fails, signalRequest returns, and the
\* session keeps a peer for which nobody looks at the setting.
OfferFails(s) ==
    /\ ws[s] = "private"
    /\ WsGoTo(s, "idle")
    /\ unasked' = unasked \cup {t \in live \ paused :
                                   t = s /\ PrivateModeEnabled(t)}
    /\ UNCHANGED <<roomVars, hostVars, live, paused, disabled, muted, holds,
                   reqVars>>

\* The connection of a peer ends at any moment: SetWebRTCConnected(peer, false).
ClosePeer(s) ==
    /\ s \in live
    /\ live' = live \ {s}
    /\ paused' = paused \ {s}
    /\ disabled' = [disabled EXCEPT ![s] = {}]
    /\ muted' = [muted EXCEPT ![s] = {}]
    /\ unasked' = unasked \ {s}
    /\ LosePeer(s)
    /\ UNCHANGED <<roomVars, hostVars, ws, reqVars>>

\* mutant of CheckPrivate: a new peer is never paused
CheckNothing(s) ==
    /\ ws[s] = "private"
    /\ WsGoTo(s, "video")
    /\ UNCHANGED <<roomVars, hostVars, peerVars, reqVars>>

CheckPrivate(s) ==
    /\ ws[s] = "private"
    /\ WsGoTo(s, IF PrivateModeEnabled(s) THEN "pause" ELSE "video")
    /\ UNCHANGED <<roomVars, hostVars, peerVars, reqVars>>

\* A handler goes on with the peer it created, closed or not.
PauseNewPeer(s) ==
    /\ ws[s] = "pause"
    /\ IF s \in live THEN SetPaused(s, TRUE)
                     ELSE UNCHANGED <<paused, muted, unasked>>
    /\ WsGoTo(s, "video")
    /\ UNCHANGED <<roomVars, hostVars, live, disabled, holds, reqVars>>

\* mutant of Muted: the peer's own paused flag is forgotten
MutedAsAsked(s, off) == off

Muted(s, off) == IF s \in paused THEN Media ELSE off

\* WebRTCPeerCtx.SetVideo and SetAudio: a member turns a medium off or on.
SetDisabled(s, m, isOff) ==
    LET off == IF isOff THEN disabled[s] \cup ({m} \cap Media)
                        ELSE disabled[s] \ {m} IN
    /\ disabled' = [disabled EXCEPT ![s] = off]
    /\ IF off = disabled[s] THEN muted' = muted
                            ELSE SetTracks(s, {m}, Muted(s, off))

\* The handler gives up when there is no stream of the kind asked for or its
\* pipeline does not start.
SetVideo(s, isOff) ==
    /\ ws[s] = "video"
    /\ IF s \in live THEN SetDisabled(s, "video", isOff)
                     ELSE UNCHANGED <<disabled, muted>>
    /\ \E found \in BOOLEAN : WsGoTo(s, IF found THEN "audio" ELSE "idle")
    /\ UNCHANGED <<roomVars, hostVars, live, paused, holds, unasked, reqVars>>

SetAudio(s, isOff) ==
    /\ ws[s] = "audio"
    /\ IF s \in live THEN SetDisabled(s, "audio", isOff)
                     ELSE UNCHANGED <<disabled, muted>>
    /\ WsGoTo(s, "idle")
    /\ UNCHANGED <<roomVars, hostVars, live, paused, holds, unasked, reqVars>>

SignalMedia(s, m, isOff) ==
    /\ "media" \in Messages
    /\ ws[s] = "idle"
    /\ s \in live
    /\ SetDisabled(s, m, isOff)
    /\ UNCHANGED <<roomVars, hostVars, live, paused, holds, unasked, ws, reqVars>>

-----------------------------------------------------------------------------
\* controlRequest and controlRelease

RequestControl(s) ==
    /\ "request" \in Messages
    /\ MayStart
    /\ ws[s] = "idle"
    /\ profile[s].canHost
    /\ ~PrivateModeEnabled(s)
    /\ WsGoTo(s, "isHost")
    /\ UNCHANGED <<roomVars, hostVars, peerVars, reqVars>>

CheckNotHost(s) ==
    /\ ws[s] = "isHost"
    /\ WsGoTo(s, IF host = s THEN "idle" ELSE "mayHost")
    /\ UNCHANGED <<roomVars, hostVars, peerVars, reqVars>>

CheckLocked(s) ==
    /\ ws[s] = "mayHost"
    /\ WsGoTo(s, IF settings.locked /\ ~profile[s].admin THEN "idle"
                                                       ELSE "implicit")
    /\ UNCHANGED <<roomVars, hostVars, peerVars, reqVars>>

\* With implicit hosting a host is not asked: the control is taken from it.
CheckImplicit(s) ==
    /\ ws[s] = "implicit"
    /\ WsGoTo(s, IF settings.implicit THEN "setHost" ELSE "hosted")
    /\ UNCHANGED <<roomVars, hostVars, peerVars, reqVars>>

CheckHosted(s) ==
    /\ ws[s] = "hosted"
    /\ WsGoTo(s, IF host # NoHost THEN "idle" ELSE "setHost")
    /\ UNCHANGED <<roomVars, hostVars, peerVars, reqVars>>

BecomeHost(s) ==
    /\ ws[s] = "setHost"
    /\ SetHost(s, FALSE)
    /\ WsGoTo(s, "idle")
    /\ UNCHANGED <<roomVars, peerVars, reqVars>>

ReleaseControl(s) ==
    /\ "release" \in Messages
    /\ MayStart
    /\ ws[s] = "idle"
    /\ profile[s].canHost
    /\ ~PrivateModeEnabled(s)
    /\ host = s
    /\ WsGoTo(s, "clearHost")
    /\ UNCHANGED <<roomVars, hostVars, peerVars, reqVars>>

GiveUpHost(s) ==
    /\ ws[s] = "clearHost"
    /\ ClearHost
    /\ WsGoTo(s, "idle")
    /\ UNCHANGED <<roomVars, peerVars, reqVars>>

-----------------------------------------------------------------------------
\* UpdateSettings

\* Each session is looked at in turn when private mode changed.
SettingsSet(r, new) ==
    /\ "settings" \in Messages
    /\ MayStart
    /\ step[r] = "idle"
    /\ settings' = new
    /\ step' = [step EXCEPT ![r] = "each"]
    /\ todo' = [todo EXCEPT ![r] = IF settings.private # new.private
                                   THEN Sessions ELSE {}]
    /\ locks' = IF new.locked /\ ~settings.locked THEN locks \cup {r}
                                                  ELSE locks
    /\ UNCHANGED <<profile, hostVars, peerVars, ws, target, hides>>

\* enabled := session.PrivateModeEnabled()
ReadEnabled(r, s) ==
    hides' = IF PrivateModeEnabled(s) THEN hides \cup {r} ELSE hides \ {r}

NextSession(r, s) ==
    /\ step[r] = "each"
    /\ s \in todo[r]
    /\ step' = [step EXCEPT ![r] = "isHost"]
    /\ target' = [target EXCEPT ![r] = s]
    /\ todo' = [todo EXCEPT ![r] = @ \ {s}]
    /\ ReadEnabled(r, s)
    /\ UNCHANGED <<roomVars, hostVars, peerVars, ws, locks>>

CheckPrivateHost(r) ==
    /\ step[r] = "isHost"
    /\ ReqGoTo(r, IF r \in hides /\ host = target[r] THEN "clear" ELSE "peer")
    /\ UNCHANGED <<roomVars, hostVars, peerVars, ws>>

ClearPrivateHost(r) ==
    /\ step[r] = "clear"
    /\ ClearHost
    /\ ReqGoTo(r, "peer")
    /\ UNCHANGED <<roomVars, peerVars, ws>>

\* webrtcPeer := session.GetWebRTCPeer()
GetPeer(r) ==
    /\ holds' = holds \cup {r}
    /\ UNCHANGED <<live, paused, disabled, muted, unasked>>

\* mutant of FindPeer: a session without a peer is not skipped
FindPeerOrNil(r) ==
    /\ step[r] = "peer"
    /\ ReqGoTo(r, "pause")
    /\ GetPeer(r)
    /\ UNCHANGED <<roomVars, hostVars, ws>>

FindPeer(r) ==
    /\ step[r] = "peer"
    /\ IF target[r] \in live THEN ReqGoTo(r, "pause") /\ GetPeer(r)
                             ELSE ReqGoTo(r, "each") /\ UNCHANGED peerVars
    /\ UNCHANGED <<roomVars, hostVars, ws>>

\* A peer that was replaced or closed meanwhile is paused or unpaused in vain.
PauseSession(r) ==
    /\ step[r] = "pause"
    /\ IF r \in holds THEN SetPaused(target[r], r \in hides)
                      ELSE UNCHANGED <<paused, muted, unasked>>
    /\ holds' = holds \ {r}
    /\ ReqGoTo(r, "each")
    /\ UNCHANGED <<roomVars, hostVars, live, disabled, ws>>

AllSessionsDone(r) ==
    /\ step[r] = "each"
    /\ todo[r] = {}
    /\ IF r \in locks THEN ReqGoTo(r, "locked") ELSE Return(r)
    /\ UNCHANGED <<roomVars, hostVars, peerVars, ws>>

\* mutant of CheckLockedHost: administrators lose the control, members keep it
CheckLockedAdmin(r) ==
    /\ step[r] = "locked"
    /\ IF host # NoHost /\ profile[host].admin THEN ReqGoTo(r, "clearHost")
                                               ELSE Return(r)
    /\ UNCHANGED <<roomVars, hostVars, peerVars, ws>>

\* A host that is no administrator loses the control when controls are locked.
CheckLockedHost(r) ==
    /\ step[r] = "locked"
    /\ IF host # NoHost /\ ~profile[host].admin THEN ReqGoTo(r, "clearHost")
                                                ELSE Return(r)
    /\ UNCHANGED <<roomVars, hostVars, peerVars, ws>>

ClearAnyHost(r) ==
    /\ step[r] = "clearHost"
    /\ ClearHost
    /\ Return(r)
    /\ UNCHANGED <<roomVars, peerVars, ws>>

-----------------------------------------------------------------------------
\* SessionManagerCtx.Update and profileChanged

\* Only canHost is looked at: an administrator that is demoted stays the host.
UpdateProfile(r, s, new) ==
    /\ "profile" \in Messages
    /\ Begin(r, "profile", s)
    /\ profile' = [profile EXCEPT ![s] = new]
    /\ granted' = IF host = s /\ profile[s].admin /\ ~new.admin THEN TRUE
                                                            ELSE granted
    /\ UNCHANGED <<settings, host, peerVars, ws>>

\* A host that may not host any more loses the control.
CheckProfileHost(r) ==
    /\ step[r] = "profile"
    /\ ReqGoTo(r, IF ~profile[target[r]].canHost /\ host = target[r]
                  THEN "lostHost" ELSE "profilePeer")
    /\ UNCHANGED <<roomVars, hostVars, peerVars, ws>>

ClearProfileHost(r) ==
    /\ step[r] = "lostHost"
    /\ ClearHost
    /\ ReqGoTo(r, "profilePeer")
    /\ UNCHANGED <<roomVars, peerVars, ws>>

\* Here the peer is read before the setting.
FindProfilePeer(r) ==
    /\ step[r] = "profilePeer"
    /\ IF target[r] \in live THEN ReqGoTo(r, "readPrivate") /\ GetPeer(r)
                             ELSE Return(r) /\ UNCHANGED peerVars
    /\ UNCHANGED <<roomVars, hostVars, ws>>

ReadPrivateMode(r) ==
    /\ step[r] = "readPrivate"
    /\ step' = [step EXCEPT ![r] = "pause"]
    /\ ReadEnabled(r, target[r])
    /\ UNCHANGED <<roomVars, hostVars, peerVars, ws, target, todo, locks>>

-----------------------------------------------------------------------------
\* POST /api/room/control/...

\* request: CanHostOnly, then controlRequest.
PostRequest(r, s) ==
    /\ "post" \in Messages
    /\ profile[s].canHost
    /\ ~PrivateModeEnabled(s)
    /\ Begin(r, "hosted", s)
    /\ UNCHANGED <<roomVars, hostVars, peerVars, ws>>

PostCheckHosted(r) ==
    /\ step[r] = "hosted"
    /\ IF host # NoHost THEN Return(r) ELSE ReqGoTo(r, "mayHost")
    /\ UNCHANGED <<roomVars, hostVars, peerVars, ws>>

PostCheckLocked(r) ==
    /\ step[r] = "mayHost"
    /\ IF settings.locked /\ ~profile[target[r]].admin
       THEN Return(r)
       ELSE ReqGoTo(r, "request")
    /\ UNCHANGED <<roomVars, hostVars, peerVars, ws>>

PostBecomesHost(r) ==
    /\ step[r] = "request"
    /\ SetHost(target[r], FALSE)
    /\ Return(r)
    /\ UNCHANGED <<roomVars, peerVars, ws>>

\* give: the administrator's target must be allowed to host; take: the target
\* is the administrator, whom CanHostOnly let through.
PostGive(r, s) ==
    /\ "give" \in Messages
    /\ profile[s].canHost
    /\ Begin(r, "give", s)
    /\ UNCHANGED <<roomVars, hostVars, peerVars, ws>>

GiveHost(r) ==
    /\ step[r] = "give"
    /\ SetHost(target[r], TRUE)
    /\ Return(r)
    /\ UNCHANGED <<roomVars, peerVars, ws>>

\* reset, and release by the host.
PostReset(r) ==
    /\ "give" \in Messages
    /\ host # NoHost
    /\ Begin(r, "clearHost", NoSession)
    /\ UNCHANGED <<roomVars, hostVars, peerVars, ws>>

-----------------------------------------------------------------------------

WsStep(s) ==
    \/ CreatePeer(s)
    \/ OfferFails(s)
    \/ ClosePeer(s)
    \/ CheckPrivate(s)
    \/ PauseNewPeer(s)
    \/ \E isOff \in BOOLEAN : SetVideo(s, isOff) \/ SetAudio(s, isOff)
    \/ \E m \in Media, isOff \in BOOLEAN : SignalMedia(s, m, isOff)
    \/ RequestControl(s)
    \/ CheckNotHost(s)
    \/ CheckLocked(s)
    \/ CheckImplicit(s)
    \/ CheckHosted(s)
    \/ BecomeHost(s)
    \/ ReleaseControl(s)
    \/ GiveUpHost(s)

ReqStep(r) ==
    \/ \E new \in Settings : SettingsSet(r, new)
    \/ \E s \in Sessions : NextSession(r, s)
    \/ CheckPrivateHost(r)
    \/ ClearPrivateHost(r)
    \/ FindPeer(r)
    \/ PauseSession(r)
    \/ AllSessionsDone(r)
    \/ CheckLockedHost(r)
    \/ ClearAnyHost(r)
    \/ \E s \in Sessions, new \in Profiles : UpdateProfile(r, s, new)
    \/ CheckProfileHost(r)
    \/ ClearProfileHost(r)
    \/ FindProfilePeer(r)
    \/ ReadPrivateMode(r)
    \/ \E s \in Sessions : PostRequest(r, s) \/ PostGive(r, s)
    \/ PostCheckHosted(r)
    \/ PostCheckLocked(r)
    \/ PostBecomesHost(r)
    \/ GiveHost(r)
    \/ PostReset(r)

Next == \/ \E s \in Sessions : WsStep(s)
        \/ \E r \in Requests : ReqStep(r)

Spec == Init /\ [][Next]_vars

-----------------------------------------------------------------------------
\* Whoever watches in private mode and is no administrator is silent and dark,
\* once no handler is under way: signalRequest registers its peer before it
\* looks at the setting, UpdateSettings sets it before it looks for peers.
\* Excepted is a peer whose offer failed in private mode, which signalRequest
\* leaves behind unpaused.
PrivateHides ==
    Rest => \A s \in live \ unasked : PrivateModeEnabled(s) => muted[s] = Media

\* Every track is silent while its peer is paused or its member has turned it
\* off: neither the one nor the other, nor a pipeline that fails to start,
\* makes audible what the other asked to be silent.
SilentAsAsked ==
    \A s \in live :
        (IF s \in paused THEN Media ELSE disabled[s]) \subseteq muted[s]

\* When all is quiet the host is allowed to host, and in private mode or under
\* locked controls it is an administrator or has its control from one.
HostEntitled ==
    Rest /\ host # NoHost =>
        /\ profile[host].canHost
        /\ \/ profile[host].admin
           \/ granted
           \/ ~settings.private /\ ~settings.locked
=============================================================================
