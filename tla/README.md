# TLA+ models of neko

neko streams one desktop to many browsers and lets one of its members control
it.  This directory holds TLA+ specifications of the parts of the server
(`src/internal`, `src/pkg`) in which several goroutines share state, the TLC
configurations that check them on small instances, and proofs, checked by
TLAPS, for instances of any size.

## 1. Inventory

One Go process.  `cmd/serve.go` builds the managers and starts them in order;
afterwards everything happens in goroutines:

* one per websocket connection (`connect`/`handle`, plus a reader), which runs
  the handlers of the messages of *its* session one at a time;
* one per HTTP request (REST API, batch), any number at once;
* one per event of a webrtc peer (pion starts a goroutine for every state
  change), one per remote track, one sample reader per local track;
* one emitter per running capture pipeline, and timers and tickers.

Emitters of events (`created`, `connected`, `disconnected`, `host_changed`,
`settings_changed`, ...) call their listeners synchronously, in the goroutine
that emits.

| Component | State | Operations | Hard because | Correct when | Modelled by |
|---|---|---|---|---|---|
| Capture sinks and tracks (`capture/streamsink.go`, `webrtc/track.go`) | per sink: listeners, keyframe lobby, pipeline; per track: stream, paused | AddListener, RemoveListener, MoveListenerTo, onSample; SetStream, SetPaused, RemoveStream, Shutdown | four kinds of mutex; an emitter that moves listeners under another lock than the callers'; starts that fail | a track hears what it is set to, from one encoder; pipelines run for listeners and only for them; no deadlock; a keyframe comes | `StreamSinks` |
| Capture manager, broadcast, screencast (`capture/`) | a pipeline, a started flag, a url, an image | Start, Stop, Image, ticker, resize, Shutdown | two flags that fail apart, timeouts, a resize against everything else | flags and pipeline agree and fit the screen; an idle screencast stops; resizes and shutdowns end | `CapturePipelines` |
| Webcam and microphone (`capture/streamsrc.go`) | a pipeline | Start, Push, Stop | tracks of several peers share it without a lock | it runs only while a track feeds it | `SharedMedia` |
| Stream selector, bandwidth estimation (`capture/streamselector.go`, `webrtc/peer.go`) | times, a trend | GetStream, estimatorReader | bitrates not yet known, ends of the list, times never noted | lower is lower; changes fit the estimate | `Estimator` |
| Websocket connections (`websocket/manager.go`, `session/session.go`) | peer, IsConnected, delayed timer; per connection two goroutines | connect, handle, Connect/Disconnect/DestroyWebSocketPeer, Shutdown | locks cover single reads and writes; timers; a replaced connection that ends later; unbuffered channels | state, peer and host agree; replaced connections are closed; dead ones leave; goroutines end | `WsSession`, `Connections` |
| Room control (`session/manager.go`, `handler/control.go`, `api/room/control.go`, `api/room/settings.go`) | settings, profiles, hostId | control request, release, take, give, reset; UpdateSettings; Update | each check is a read of its own, no handler locks the room | the host is entitled to be; private mode hides the room | `RoomControl` |
| WebRTC peers (`webrtc/peer.go`, `webrtc/manager.go`) | session's peer, IsWatching, tracks, channels, goroutines | CreatePeer, signal messages, SetVideo, SetAudio, SetPaused, state callbacks, Destroy | callbacks in unordered goroutines, check then act, channels closed under their senders | only the current peer lives; IsWatching only with a peer; all its goroutines end | `WebRTCPeers`, `RoomControl` |
| Cursor images (`webrtc/cursor`) | cache, current image, listeners | OnCursorChanged, GetCurrent, OnOpen | fetched later than the event that asks | clients show the cursor X shows | `PeerCursors` |
| Session store, members (`session/`, `member/`) | sessions, tokens, two files | Create, Update, Delete, save, load; Login, Logout, Insert, ... | unlocked save, crash during a write, two mutexes | what was answered survives; sessions are members' | `Accounts` |
| Desktop input (`desktop/`, `pkg/xorg`, `pkg/xinput`, `pkg/drop`) | keys, buttons and touches down, keycodes, drop window | KeyDown, KeyUp, KeyPress, ResetKeys, CheckKeys, Touch..., DropFiles | host changes between reset and key; a key changes its code while it is down; late events | no key stays down, least of all for another host | `DesktopInput` |
| File chooser (`websocket/filechooserdialog.go`, `pkg/xevent`) | the dialog, its owner | opened, closed, connected, disconnected | the owner is read without a lock by every connection | all are told, and the dialog goes with its owner | `FileDialog` |
| Plugins (`plugins/`) | graph of dependencies | addPlugin, InitConfigs, Start | cycles, plugins added late | dependencies start first | `Plugins` |
| HTTP, API routes, clipboard, configuration, metrics, GStreamer and X11 bindings | none that other parts rely on | | | | |

How they interact: a websocket message reaches a handler, which reads the
session and the room, sets the host, presses keys or drives the session's webrtc peer;
the peer's tracks attach to capture sinks, and its estimator moves them; the settings
and profiles changed over REST clear the host and pause peers; a disconnecting session
clears the host and closes its dialog; a change of the screen size recreates the
pipelines of all; a login creates the session that the others are about.
`PROJECT.json` lists every component with its status and every hazard with its line and
the properties that cover it, or the reason why none does.

## 2. Plan

Written, in this order:

1. `StreamSinks`, with its abstract specification `Switchboard` and the
   refinement `StreamSinksRefine`: what viewers see, and the only code here with
   a locking protocol of its own.  Proved.
2. `WsSession`: who is connected.  Proved but for liveness.
3. `RoomControl`: who controls and who may watch.  Proved.
4. `CapturePipelines`: the pipelines under a resize, with failures and timeouts.
   Proved but for liveness.
5. `WebRTC`, composed of `WebRTCPeers`, `SharedMedia`, `PeerCursors`, `Estimator`.
   Proved but for liveness.
6. `Service`, composed of `Accounts`, `DesktopInput`, `FileDialog`, `Connections`,
   `Plugins`.  Proved.

Left: the composition of `Accounts` with the host, for the one hazard about a host's id
that outlives its session.  Broadcast and screencast in the same behaviour are beyond a
run (the states of one multiply those of the other beyond five minutes); the proofs
about `CapturePipelines` are for that too.

Each run holds the properties of one module or of parts that share no state; there is
at most one run per real disagreement between code and comment.

## 3. Modules

| Module | Content |
|---|---|
| `Switchboard` | abstract: a track is tuned to at most one sink, leaves the old one first, and a guarded sink is not switched off under it |
| `StreamSinks` | the code of tracks and sinks, lock by lock |
| `StreamSinksRefine` | `StreamSinks` implements `Switchboard`: a track is tuned to the sink whose maps hold it, audio sinks are guarded |
| `WsSession` | one session, its connections, their disconnects and timers |
| `RoomControl` | settings, host, private mode, paused peers |
| `CapturePipelines` | broadcast, screencast and a video stream under a change of the screen size, and their shutdown |
| `WebRTCPeers` | the peers of one session: CreatePeer, callbacks, goroutines, channels |
| `SharedMedia` | the microphone (or webcam) that the tracks of all peers share |
| `PeerCursors` | the image of the cursor and the data channels that are sent it |
| `Estimator` | GetStream, the trend detector, estimatorReader |
| `WebRTC` | the four above side by side |
| `Accounts` | members, sessions, their files, logins, crashes |
| `DesktopInput` | keys, buttons, touches, drops, and the host they belong to |
| `FileDialog` | the file chooser dialog and its owner |
| `Connections` | readers and loops, the inactive cursors, the order of the shutdown |
| `Plugins` | the graph of plugins and their start |
| `Service` | the five above side by side |
| `...Proofs` | proofs about `StreamSinks` with its refinement, `WsSession`, `RoomControl`, `CapturePipelines`, `WebRTC` with its parts, `Accounts`, `DesktopInput`, and `Service` with `FileDialog`, `Connections` and `Plugins` |
| `MC...` | constants of the runs |

A definition whose comment begins "mutant of" is not part of a model: it is a bug
the code could have had, which some property has to notice.  A variable marked
"history" is not part of the program either: it records what a property excepts or
refers to, and no guard reads it.

`WebRTC` and `Service` compose parts that have no state in common: a behaviour looks at
one of them, `view` or `part`, and leaves the others as they start.  That makes one run
of several small ones and loses nothing, since no step of one part can change or
enable a step of another.  What does join parts is inside a module: the host in
`DesktopInput`, the callbacks of a session in `WebRTCPeers`, the peers in `RoomControl`.

### StreamSinks

The threads are the tracks: `Track.streamMu` is held for the whole of SetStream,
SetPaused and RemoveStream, so a track has at most one call in progress, and
`pc[t]` is its position.  A step ends where another goroutine may come in:
at every lock, and at each of the two map lengths that `start` and `stop` add up
without `listenersMu`.  `start` is one step although it reads both maps: no
keyframe can empty the sum, since onSample only moves listeners from the lobby.
`stop` is two (`Count`, `Stop`), because there the order of reading can make a
listener invisible.  `AddListener` is a call without `src`, `RemoveListener` one
without `dst`, `MoveListenerTo` has both.  `Keyframe` is the encoder, `OnSample`
the emitter goroutine, which may deliver a keyframe after its pipeline was destroyed.
Pipelines are a boolean: GStreamer is modelled by how the sink uses it.

### WsSession

`stage[c]` is the position of `connect()`, `call` the DisconnectWebSocketPeer calls
in progress: one of the connection's own goroutine, one of its timer, one per
administrator's DestroyWebSocketPeer.  Every read or write of `websocketPeer`,
`state.IsConnected` and `wsDelayedTimer` is a step.  The messages of the connection
are reduced to becoming the host.  `mode` is fixed at the start: `merciful` is
the setting, `orderly` says that the client opens a connection after the server
has done with the last one and that nobody calls DestroyWebSocketPeer.

### RoomControl

`ws[s]` is the position of the session's websocket goroutine, `step[r]` that of an
administrator's REST request.  Each read of settings, profile or host that decides
something is a step, with three exceptions: the two reads of PrivateModeEnabled,
a guard evaluated together with the first read of its handler, and in
CheckLockedHost the host with that host's profile.  The local `enabled` of
UpdateSettings is `hides`.  A webrtc peer closes at any moment and is replaced by
the next `signal/request`, also under a request that has found it already: `holds`
says whose local `webrtcPeer` is still the session's.  When its offer fails, the peer is
registered already and stays (`OfferFails`).  A track whose pipeline does not
start again stays paused (`SetTracks`), so nothing claims that an unpaused peer plays.  `muted[s]` is the paused flag of each track,
which is how private mode reaches `StreamSinks`: a muted track is one that is paused
there.  `granted` is history: an administrator may give the control to anyone, and
one who is demoted keeps it, because profileChanged looks at CanHost only;
`HostEntitled` excepts both.

### CapturePipelines

A resize is a SetScreenSize that holds desktop's `mu`: its listeners go over the parts
twice, before and after the change, and for each the question `Started()` (`See`) and
the act (`DestroyForResize`, `Recreate`) are steps of their own, because the code holds
no lock from one to the other.  `req[a]` and `view[v]` are REST requests, `ticker`
the goroutine of the screencast, `first` whoever waits, with the mutexes, for the
first image.  What cannot be created may fail anywhere it is created; in a resize that is a
panic, which the router recovers, but the deferred function that panicked was the one to
unlock `mu`, so that no request ever changes the size again (`phase = "stuck"`).
Each pipeline records the size it was started at and how: `missed` and `orphan` name
the two races that the properties except, `~reads` a screencast whose first image came too
late.  The broadcast's pipeline is created for the url of the start *before*
(`BroadcastCreate`, `broadcast.go:81`).  The video stream is reduced to its listeners and its
pipeline; `StreamSinks` has the rest.

### WebRTC

*WebRTCPeers*: `req[r]` is the message loop of one of the session's websockets, `onConnected`,
`onGone` and `onClosed` the callbacks of each peer's connection, which pion starts as
goroutines without an order.  CreateOffer holds the peer's `mu` while candidates are
gathered, so Destroy waits (`PeerFree`).  SetWebRTCPeer and SetWebRTCConnected are cut where
they release their lock.  Two scenes: two peers of two requests without their insides, and
one peer with tracks, RTCP, tickers and the requests that use it.  A send on a
closed channel ends the process (`crashed`); `late` and `overtaken` are history, and say
when the two known races have happened.

*SharedMedia*: `remote[t].pc` is where OnTrack of a track is: looking at `micStop`, calling
the stop function of another track, setting its own, starting the source, reading.

*PeerCursors*: an image stands for the serial it was fetched with, and X may show another
cursor by the time it is asked.

*Estimator*: time is counted in ticks of ReadInterval, and a time that was never noted is
older than any duration, as Go's zero time is.  Bitrates and estimates are small numbers; the
threshold and Kendall's tau are compared in whole numbers.  `auto` stands for all that makes
the reader skip a tick: video off or paused, no estimation, a passive estimator.  A
negative threshold turns the comparison with the bitrate off, and
`ChangesFitEstimate` is about those that are not negative.  The list of ids may be in
either order: the code and its comments disagree about which (see `estimator_lower`).

### Service

*Accounts*: `pc` and `call` are the thread that holds loginMu and the one that holds
providerMu; a logout of the API is one of the first.  `save()` is three steps (the map is
walked, the file truncated, the file written), without a lock, so two saves may
interleave and leave the longer text of one under the other's.  The walk is taken at once: one
that sees, or misses, a single change of the other thread gives what a walk after or
before it gives, and between two changes of a thread lies a save of its own, which then
overlaps and is excused (`stale`).  If Go ends the process because the map is changed under the walk,
that is a `Crash`.  `Crash` takes the process away
at any moment and starts it from the files.

*DesktopInput*: a caller is a client's websocket, its data channel, or the administrator:
each looks whether it is the host and then uses the desktop, in two steps, with a third
one between them when a message makes its client the host (`BecomeHost`).  A listener of a drop
may still move the mouse when the drop is over, and release the button then
(`moving`).  `held` are the
three tables of pressed codes with their age in seconds; `keyboard` is what xorg.c does with
keysyms: which keycode makes them under the present modifiers, the last free keycode that is
mapped for one that none makes, and the list of keycodes that were pressed.  Shift is a key like the
others, so that a key may be released under other modifiers than it was pressed.  The
ticker is assumed to run once a second.  `owner` is history: for whom a code was pressed, if
that client was then the host and not on its way out.  A touch is not released by
ResetKeys, and `KeysAreHosts` says nothing of touches.  Moving and scrolling keep no state.

*FileDialog*: the X event loop, the goroutines of the connections and those that
broadcast meet at `active`, which none of them locks.  The host is any session or none.
FILE_CHOOSER_DIALOG_CLOSED is not modelled: `heard` says only which dialogs a session was told of.

*Connections*: per connection the loop of handle() and the reader that hands over to it;
the goroutine of the inactive cursors with the channel that ends it; two requests for the
settings, each of which reads, stores and notifies; and serve.Shutdown in its order.

*Plugins*: `deps` maps names to objects, and an object of a plugin that was not added yet has
no plugin.  A name has two objects at most: the one made first, and another one if that was
taken out of the map, with its plugin, in a cycle.  `findPlugin` is the recursive
function `Finds(name)`.

## 4. Runs

| Run | Instance | Shows |
|---|---|---|
| `sinks_video` | 2 tracks, 2 video sinks, fair | HeardAsSet, OneFeed, NoIdlePipeline, KeyframeComing, NoCircularWait, and that calls return and lobbies empty |
| `sinks_refine` | 3 tracks: 1 video on 2 sinks, 2 audio on 1 | TypeOK, AudioHasPipeline, the refinement |
| `ws_session` | 2 connections, 1 administrator, three modes, fair | StateMatchesPeer, NoGhost, HostLeaves, NoOrphan, DeadLeaves |
| `room` | 2 sessions, 1 administrator request at a time, all settings, 3 profiles | TypeOK, PrivateHides, SilentAsAsked, HostEntitled |
| `capture` | each part by itself with a resize: 2 administrators, 2 viewers or 2 listeners, 2 sizes, fair | RunsAsStarted, FitsScreen, and that resizes end, an unwatched screencast idles and a shutdown ends |
| `webrtc` | 2 peers by 2 requests; 1 peer with its goroutines; 3 remote tracks; 2 data channels, 2 cursors; 3 streams; fair | OnlyCurrentLives, WatchingHasPeer, CrashNeedsLateCall, ClosedEnds; SourceHasReader; CursorShown; SelectsNearest, ChangesFitEstimate |
| `service` | 1 or 2 members, 1 crash, 2 tokens; 2 clients with 3 keysyms on 3 keycodes, a button, a touch, 2 drops; 2 viewers, 2 dialogs; 1 connection, 3 requests, a shutdown; 3 plugins | LoginsSurvive, SessionsAreMembers; KeysEnd, KeysAreHosts; DialogIsTold; ReadersEnd, CursorsFollow; DependenciesFirst |

Five runs end in a counterexample, each against a comment of the code:

* `sinks_keyframe_race`: a keyframe between the two reads of `stop` makes it destroy
  a video pipeline with a listener (`streamsink.go:168`).  Audio sinks have no
  lobby, and there `AudioHasPipeline` holds and is proved.
* `ws_stale_disconnect`: with merciful reconnect, the delayed disconnect of the old
  connection passes its comparison just before the new one becomes the peer, and
  marks the session disconnected (`session.go:126`).
* `room_host_race`: a control request that was allowed before private mode was
  switched on sets the host after UpdateSettings has looked for one
  (`handler/control.go:35`).  `HostEntitled` therefore is checked in a run in which
  handlers that read or set the host run one by one (`Serial`); peers come, go
  and change their media at any moment there too.
* `estimator_lower`: the comments of GetStream take the ids to be ordered from the lowest
  stream up; then a downgrade selects the next *higher* stream (`streamselector.go:76`).  In the
  other order `ChangesFitEstimate` holds, but the selection by bitrate takes the
  lowest stream of those below.
* `estimator_stalled`: `stalledSince` starts as the zero time, so that a peer whose first
  estimate is low is downgraded at once (`webrtc/peer.go:204`).

**What the properties except.**  Several properties of `capture`, `webrtc` and `service` hold
but for cases they name, and so does `PrivateHides` of `room`; each is a state the code does reach, found by TLC before it was
excepted:

* a pipeline that a resize recreated after its part was stopped, or that started
  between the resize's question and the change, or that a listener lost because it was not yet
  in the map (`orphan`, `missed`, `lost`; `capture/manager.go:198`);
* a Connected that writes IsWatching after Closed has taken the peer away (`overtaken`), and a
  sample sent on a channel that Shutdown has closed, after a late SetStream (`late`);
* a source started by a track that another one had stopped on its way (`belated`);
* logins that a torn or overlapping save of the sessions file loses or revives (`stale`), and a
  login that read the member while it was changed (`raced`);
* keys pressed by a message that was found to be the host's before it ceased to be, by a
  drop, or for a host who lost the control without a reset: implicit hosting, take, give
  and changed settings move the host and leave the keys to the ticker;
* a peer whose offer failed while private mode was on: signalRequest returns before it would
  pause it (`webrtc/manager.go:535`), so that it is unpaused until a request pauses it, and a
  later `signal/restart` with a `signal/video` could show the room (`unasked` in `RoomControl`);
* a dialog whose owner had left before it was stored, or that five attempts do not close;
* a reader whose loop left by the shutdown or a failed ping stays at `cancel <- err` for
  ever, and Shutdown waits for it: with a connected client the server does not
  end by itself;
* requests for the settings that overlap, or follow so fast that the sender of the
  cursors has not seen its channel closed (`disturbed`);
* plugins of a cycle: the one that is refused may be started without configuration by those
  that were linked to it before.  A dependency that is never added ends the process in InitConfigs.

Other behaviour a reader of the models will meet: a dialog that is closed between the two reads
of its owner makes the goroutine of a new connection panic, and leaves a session that is
connected and not read (`presence = "lost"`); letters pressed under Shift may take a
new keycode each time, until none is free; with two administrators' requests at once
`PrivateHides` is false, because the one that switched private mode off still holds its answer
when it unpauses a member the other one has paused (`session/manager.go:377`).

**Bounds.**  *Sinks*: two tracks and two sinks are the smallest instance with moves in opposite
directions, a shared lobby and a last listener that leaves while another comes; three
tracks add the case that two leave one sink together with a third elsewhere.  The
invariants checked there are proved for any number.  *Websocket*: two connections are enough for
a replacement, a late timer and a late disconnect of the first under the second.
*Room*: two sessions are needed for a host to be replaced; one kind of media is enough
because the flags of a peer's two tracks are independent (both were tried, with three
times the states); a request can be repeated without
end, so one administrator makes any sequence of changes.  *Capture*: two sizes, two of
each kind of request, repeated without end; one url, since which one is no question of a property.
*WebRTC*: two peers are the smallest number that replace each other; three tracks make a
chain of stop functions; two cursors of which one has a serial that is cached, and two events
that wait; three streams have one in the middle, and the durations differ from each
other.  *Service*: `MaxTokens`, `MaxCrashes`, `MaxDrops`, `MaxDialogs`, `MaxEvents`
and `MaxRequests` bound what can happen without end: two tokens are a login and the one that
replaces it, one crash is enough because a restarted state is one that was reached before
without its history, two dialogs can be open at once, three
requests can overlap and be followed by one alone.  `Attempts` is 2 instead of 5, and
`Hold` is 1 second instead of ten: nothing compares them with another constant, and the
proofs are for any.  One connection is enough, because connections share only the shutdown and
`ReadersEnd` is proved for any number.  Three plugins give every cycle of two and three, and
chains.  The viewers of the dialog are interchangeable (`SameViewers`); the properties of
the run are invariants, for which that symmetry is sound.  The other models' state is finite by itself.

**Deadlock** is checked for the sinks, where it means a circle of locks.  A session whose
connections are used up, a room nobody acts on, a server that was shut down and a process
that crashed may stop.

**Fairness.**  *Sinks*: strong fairness of each track's next step, because a lock step
is enabled again and again and not all the time: a Go mutex passes to a waiter that
has starved for a millisecond; weak fairness of the emitter goroutine and of the
encoder when it was asked for a keyframe.  No call is ever required to be made.  *Websocket*:
goroutines run, an armed timer fires, and `handle()` returns once its socket is closed.
Opening a connection, its breaking and an administrator's actions are not fair.
`DeadLeaves` is claimed for orderly clients without merciful reconnect: otherwise a
connection whose disconnect was stopped by another's may stay.  *Capture*: strong fairness of
the resize and the ticker, which wait for mutexes; weak fairness of who holds one and of the
wait for a first image, which ends by an image or its timeout.  No request is
required to be made, nor a shutdown to begin.  *WebRTC*: weak fairness of each peer's
callbacks and goroutines, and of the gathering of candidates, which pion ends by a timeout;
nothing is asked of the client or the network.  `service` and the two estimator runs check safety only.

## 5. Proofs

For every number of tracks and sinks (`StreamSinksProofs`): type correctness,
HeardAsSet, OneFeed, AudioHasPipeline, NoIdlePipeline, KeyframeComing and
NoCircularWait.  The inductive invariant ties each position of a call to the locks it
holds and to where its track is: between calls a track is in the maps of exactly the
sink it wants; in a call, up to `remove`, it is where it was, from `add` on where it goes.
From that a sink's maps change, apart from the lobby's move, only by the holder of
its `mu`, which is why the pipeline cannot change between `start` and `add`.
NoCircularWait rests on: who waits for a source's lock in a move holds the global mutex,
and who waits for a target's lock holds that mutex or nothing.

From that invariant follows too, step by step, that `StreamSinks` implements
`Switchboard`.

For every set of sessions, media, settings and profiles (`RoomControlProofs`):
type correctness and SilentAsAsked with any number of administrators at once, and
PrivateHides under the assumption `OneAdmin`: at most one REST request runs at a
time (any number of websocket handlers do, and peers come and go).  The invariant
(`PauseInv`) says of a session with an unpaused peer that private mode hides: someone
has still to look.  Either its own goroutine, which registers a peer before it reads the
setting; or a request that has it in `todo` or as `target` and has not looked for its
peer yet; or one that has, and holds the peer of now.  Or nobody, if its offer has
failed (`unasked`).  Without `OneAdmin` it is false (see 4).
HostEntitled is proved under `Serial`, without which `room_host_race` refutes it: a host that
should not be one is about to be cleared by profileChanged or by an UpdateSettings that has still
to come to it (`HostInv`), and what a handler has found of the session it is about
to make the host is still so (`AskedInv`), because no other one is under way (`Alone`).

For every set of connections and of requests that disconnect them (`WsSessionProofs`):
NoOrphan in every mode; NoGhost, HostLeaves and StateMatchesPeer in the modes they speak
of.  `SessionInv` says that a connection's own call and its timer's are about that
connection and come after its end, and that what is served without being the peer is being closed.
`OrderlyInv` adds, for orderly clients, that only one connection is anything but new or gone
at a time, and that a session that is connected or host without a peer has a disconnect
under way that will say so.

For every set of clients, keys, touches and scenes, every layout of the keyboard and
debounceDuration (`DesktopInputProofs`): KeysEnd and KeysAreHosts.  `DesktopInv` has four
parts: who is about to use codes has some (`CallersInv`); each keycode that is down is that of a
key of the tables (`TablesInv`); no age is more than a second over the duration, and none is
over it once the ticker has done its part (`TickerInv`); of a host that is about
to be cleared nothing but touches is down (`OwnerInv`).  The lemmas about Release, Press, Touch and Expire
are the only place where the keyboard is opened.

For every number of requests, listeners, sizes and urls, and with all parts used at once
(`CapturePipelinesProofs`): type correctness, RunsAsStarted and FitsScreen.  Neither is
inductive.  `Fits` marks every pipeline the resize in progress will not see; `VideoRuns`,
`BroadcastRuns` and `ScreencastRuns` say that a part's flag, or its listeners, and its pipeline
agree, unless the resize has `Taken` the pipeline and has still to give it back, or a
request is between creating it and setting the flag, which one at a time is (`Alone`).  For each
action there is a lemma that says what it changes of one part.

For every set of members, profiles, tokens and restarts (`AccountsProofs`): LoginsSurvive and
SessionsAreMembers.  No token is given twice, not even after a restart (`TokensInv`).  A save
that no other one overlaps is the only one, and what it has to write holds the logins
that were answered and none that were ended (`SavesInv`): so does the file once it
is written.  For SessionsAreMembers a session's profile is the one its member has *after*
what is under way (`Agrees`), and the same holds of the sessions that a save will leave in the
file and of those in it (`DataInv`, `FileInv`), because a restart brings them back.

For every number of viewers, dialogs, events and attempts (`ServiceProofs`):
DialogIsTold.  A dialog that is known is on the display, or the queue has its unmapping after
anything else about it (`EventsInv`); the owner is that of the known dialog until it
is forgotten (`OwnerInv`); who is connected has been told or is still in a broadcast
(`TellInv`); an owner who is gone has closed the dialog or is excused (`CloseInv`).

For every number of connections and requests (`ServiceProofs`): ReadersEnd and
CursorsFollow.  A loop that runs has a reader, so none runs once Shutdown has waited for the
readers (`ReadersInv`); while nothing is disturbed the channel, the sender and the setting
agree, with the difference that the one request under way is about to make (`CursorsInv`).

For every finite set of plugins with any dependencies (`ServiceProofs`): DependenciesFirst.
`addPlugin` never closes a cycle (`Acyclic`: among any objects one is linked to none of
them), for which `findPlugin` may say "nothing" only when no path of links leads to the
plugin.  That is shown of the recursive function itself: on a graph without cycles its
equation has a solution, or the objects without an answer would be a set that contradicts
`Acyclic`.  The rest follows the calls: they go along links (`CallsInv`), and a call that
has returned has started its plugin after those of all its links (`OrderInv`), which are what the plugin
depends on (`LinksInv`).

For every number of peers, message loops, remote tracks, data channels, cursors and
streams (`WebRTCProofs`): OnlyCurrentLives, WatchingHasPeer, CrashNeedsLateCall,
SourceHasReader, CursorShown, ChangesFitEstimate and SelectsNearest.  None of the
invariants but CrashNeedsLateCall is inductive.  `PeersInv` adds: a peer that never was the
session's is as CreatePeer made it (`Stages`); two loops never hold one fresh peer
(`Loops`); a replaced peer lives only while the loop that replaced it has still to close
it (`Replaced`); the session watches only a peer whose `Closed` has not yet come to the
point where it is taken away (`Watched`); a track that a sink feeds has an open channel until `Shutdown`
comes to it, unless the call was late (`Fed`).  `MediaInv` says who owns the source's pipeline:
the track that started it, unstopped or about to halt it.  `CursorInv` says that the last event names the cursor
that is shown, and follows its image from the emitter into the cache and to each channel.
ChangesFitEstimate needs only that the stream gone to is a neighbour in `StreamIDs`.
SelectsNearest is a fact about GetStream, whatever the state: that a set of positions
which is not empty has a least and a greatest member is drawn from the library's theorem that
the strict subsets of a finite set are well-founded, where an induction would be out of reach.

The only assumptions about constants are the named ASSUMEs of the modules: finite sets, bounds
that are numbers, values like "no pipeline" that are none of what they stand beside.

`DesktopSpec`, `DialogSpec`, `ConnectionsSpec`, `AccountsSpec` and `PluginsSpec` are the parts that
`Service` composes, each by itself.  `PartsImplemented` says that a behaviour of the composed
`Spec` is one of all five, so that what is proved of a part holds of the whole.  The
theorems of `WebRTCProofs` are about the composed `Spec` of `WebRTC` directly.

Every invariant and every action property of the passing runs is stated by a theorem, and so is
the refinement.  Model-checked only is liveness (CallsReturn, LobbyEmpties, DeadLeaves, ResizeEnds,
CastIdles, ShutdownEnds, ClosedEnds), since fairness and ENABLED are beyond the prover.
The type invariants of `WsSession`, `WebRTC` and `Service` were checked by TLC on the
instances of the runs and are no property of one, nor is that of `CapturePipelines`, which is
proved (`CaptureTypes`); what the other proofs need of types is part of their inductive
invariants.

## 6. Not modelled

* Contents of messages, media, images, passwords and profiles; formats of the data channel; JSON.
* The clipboard: it calls xclip and keeps no state.  HTTP routing, decoding and the batch
  endpoint: no state.  Reading the configuration and starting the managers: one goroutine, once.
* Counters of the metrics; the bitrate buckets of a sink (the estimator takes any bitrates).
* What each client has been told, and in which order, but for the file dialog.
* Locked logins, control protection, and other settings and profile fields than those named.
* ICE and SDP (pion), GStreamer, X11: modelled by how the code uses them.  The table of
  keysyms (`pkg/xorg/keysymdef.go`) is generated constants.
* The host's id that outlives its session (`session/manager.go:216`), and the url of the broadcast
  that was asked for: see the hazards.
