--------------------------- MODULE CapturePipelines ---------------------------
(***************************************************************************)
(* The pipelines of neko that follow the size of the screen: the broadcast *)
(* (internal/capture/broadcast.go), the screencast (screencast.go) and a   *)
(* video stream with its listeners (streamselector.go, streamsink.go), and *)
(* the change of the screen size that destroys them and creates them anew  *)
(* (CaptureManagerCtx.Start, DesktopManagerCtx.SetScreenSize).             *)
(*                                                                         *)
(* The resize asks each pipeline whether it is started and acts on the     *)
(* answer later, with no lock held in between; requests for a broadcast or *)
(* for an image, the screencast's ticker and the listeners of the stream   *)
(* may fall between any two of its steps.                                  *)
(***************************************************************************)
EXTENDS Naturals, FiniteSets

CONSTANTS Admins,       \* REST requests about the broadcast
          Viewers,      \* REST requests for a screencast image
          Tracks,       \* listeners of the video stream
          Sizes,        \* screen sizes
          Urls,         \* broadcast targets
          None,         \* no pipeline, no URL, no image, no owner
          Modes         \* the parts that are used in a behaviour

Parts == {"video", "broadcast", "screencast"}

\* missed: the resize in progress will not see it; orphan: created by a resize
\* that was told "started" before the part was stopped; reads: it has a reader.
Pipes == [size : Sizes, url : Urls \cup {None}, missed : BOOLEAN,
          orphan : BOOLEAN, reads : BOOLEAN]

ASSUME CaptureAssumption ==
    /\ None \notin Admins \cup Viewers \cup Tracks \cup Sizes \cup Urls
    /\ "resize" \notin Viewers \cup {None}
    /\ None \notin Pipes
    /\ Sizes # {} /\ Urls # {}
    /\ Modes \subseteq SUBSET Parts

VARIABLES
    mode,       \* one of Modes
    screen,     \* the size X has
    resize,     \* where the SetScreenSize is that holds desktop's mu
    pipe,       \* each part's pipeline
    url,        \* broadcast.url
    live,       \* broadcast.started
    bMu,        \* owner of broadcast.mu
    req,        \* where each broadcast request is
    viewing,    \* screencast.started
    expired,    \* screencast.expired
    image,      \* screencast.image holds an image
    inHand,     \* a reader has received an image and not stored it yet
    castMu,     \* owner of screencast.mu
    view,       \* where each Image() call is
    first,      \* who waits in createPipeline for the first image
    ticker,     \* where the screencast's ticker goroutine is
    attached,   \* the stream's listeners
    track,      \* where each AddListener or RemoveListener is
    lost,       \* history: a resize took the pipeline of an AddListener that
                \* it then did not find started
    down        \* how far CaptureManagerCtx.Shutdown is

screenVars == <<mode, screen, resize>>
castVars == <<viewing, expired, image, inHand, castMu, view, first, ticker>>
bcastVars == <<url, live, bMu, req>>
sinkVars == <<attached, track, lost>>
vars == <<screenVars, castVars, bcastVars, sinkVars, pipe, down>>

Idle == [phase |-> "idle", part |-> "video", act |-> "see"]
Quiet == [pc |-> "idle", url |-> None]

\* A pipeline that starts now captures the screen as it is now.
Created(u, orphan) ==
    [size |-> screen, url |-> u, orphan |-> orphan, reads |-> FALSE,
     missed |-> resize.phase \in {"before", "change"}]

Flags ==
    /\ live \in BOOLEAN /\ viewing \in BOOLEAN /\ expired \in BOOLEAN
    /\ image \in BOOLEAN /\ inHand \in BOOLEAN /\ lost \in BOOLEAN

Places ==
    /\ mode \in Modes
    /\ screen \in Sizes
    /\ resize \in [phase : {"idle", "before", "change", "after", "stuck"},
                   part : Parts, act : {"see", "do", "first"}]
    /\ pipe \in [Parts -> Pipes \cup {None}]
    /\ url \in Urls \cup {None}
    /\ bMu \in Admins \cup {None}
    /\ req \in [Admins -> [pc : {"idle", "start", "url", "stop", "status"},
                           url : Urls \cup {None}]]
    /\ castMu \in Viewers \cup {None}
    /\ view \in [Viewers -> {"idle", "start", "first", "image"}]
    /\ first \in Viewers \cup {"resize", None}
    /\ ticker \in {"wait", "cas", "stop", "over"}
    /\ attached \in SUBSET Tracks
    /\ track \in [Tracks -> {"idle", "add", "stop"}]
    /\ down \in {"up", "screencast", "wait", "video", "down"}

\* The variables stay in their types.
TypeOK == Flags /\ Places

\* broadcastNew(): a broadcast that the configuration names counts as started.
BroadcastNew ==
    /\ url \in IF "broadcast" \in mode THEN Urls \cup {None} ELSE {None}
    /\ live = (url # None)
    /\ bMu = None
    /\ req = [a \in Admins |-> Quiet]

ScreencastNew ==
    /\ viewing = FALSE
    /\ expired = FALSE
    /\ image = FALSE
    /\ inHand = FALSE
    /\ castMu = None
    /\ view = [v \in Viewers |-> "idle"]
    /\ first = None
    /\ ticker = "wait"

\* Start() creates the pipeline of a broadcast that counts as started.
Init ==
    /\ mode \in Modes
    /\ screen \in Sizes
    /\ resize = Idle
    /\ BroadcastNew
    /\ ScreencastNew
    /\ pipe = [p \in Parts |->
                  IF p = "broadcast" /\ live THEN Created(url, FALSE)
                  ELSE None]
    /\ attached = {}
    /\ track = [t \in Tracks |-> "idle"]
    /\ lost = FALSE
    /\ down = "up"

\* Requests arrive while the HTTP server runs, of the parts in use.
Serving(p) == down = "up" /\ p \in mode

Started == [p \in Parts |-> CASE p = "video" -> attached # {}
                              [] p = "broadcast" -> live
                              [] p = "screencast" -> viewing]

\* What Started() needs: the mutex that start and stop hold to their end.
MayAsk(p) == CASE p = "video" -> TRUE
               [] p = "broadcast" -> bMu = None
               [] p = "screencast" -> castMu = None

\* pipelineMu; only the screencast keeps it for longer than a step.
PipeFree(p) == p = "screencast" => first = None

\* A reader goroutine receives from the screencast's pipeline.
CastReads == IF pipe["screencast"] = None THEN FALSE
             ELSE pipe["screencast"].reads

\* No listener is being added or removed: the video sink's mu is free.
SinkFree == \A t \in Tracks : track[t] = "idle"

Stopped(p) == pipe' = [pipe EXCEPT ![p] = None]

-----------------------------------------------------------------------------
\* SetScreenSize

NextPart == [video |-> "broadcast", broadcast |-> "screencast"]

At(phase, part, act) == [phase |-> phase, part |-> part, act |-> act]

\* The listener has done with a part; after the last the event is over.
Advance(phase, part) ==
    IF part # "screencast" THEN At(phase, NextPart[part], "see")
    ELSE IF phase = "before" THEN At("change", "video", "see") ELSE Idle

\* A request takes desktop's mu.
BeginResize ==
    /\ resize = Idle
    /\ down = "up"
    /\ resize' = At("before", "video", "see")
    /\ UNCHANGED <<mode, screen, castVars, bcastVars, sinkVars,
                   pipe, down>>

\* The listener asks a part whether it is started.
See ==
    /\ resize.phase \in {"before", "after"}
    /\ resize.act = "see"
    /\ MayAsk(resize.part)
    /\ IF Started[resize.part]
       THEN /\ resize' = [resize EXCEPT !.act = "do"]
            /\ UNCHANGED <<pipe, lost>>
       ELSE /\ resize' = Advance(resize.phase, resize.part)
            /\ lost' = IF resize.part = "video" /\ resize.phase = "after"
                       THEN pipe["video"] = None /\ ~SinkFree ELSE lost
            /\ pipe' = IF pipe[resize.part] = None THEN pipe
                       ELSE [pipe EXCEPT ![resize.part].missed = TRUE]
    /\ UNCHANGED <<mode, screen, castVars, bcastVars, attached,
                   track, down>>

\* mutant of DestroyForResize: only the video streams are destroyed
DestroyVideoOnly ==
    /\ resize.phase = "before"
    /\ resize.act = "do"
    /\ PipeFree(resize.part)
    /\ IF resize.part = "video" THEN Stopped("video") ELSE pipe' = pipe
    /\ resize' = Advance("before", resize.part)
    /\ UNCHANGED <<mode, screen, castVars, bcastVars, sinkVars,
                   down>>

DestroyForResize ==
    /\ resize.phase = "before"
    /\ resize.act = "do"
    /\ PipeFree(resize.part)
    /\ Stopped(resize.part)
    /\ resize' = Advance("before", resize.part)
    /\ UNCHANGED <<mode, screen, castVars, bcastVars, sinkVars,
                   down>>

\* xorg.ChangeScreenSize sets the size, or creates a mode and sets that; a
\* failure leaves the screen as it was.
Change(s, ok) ==
    /\ resize.phase = "change"
    /\ screen' = IF ok THEN s ELSE screen
    /\ resize' = At("after", "video", "see")
    /\ UNCHANGED <<mode, castVars, bcastVars, sinkVars, pipe, down>>

\* createPipeline; "already exists" is tolerated.  The screencast's waits for
\* an image before it returns.
Recreate ==
    /\ resize.phase = "after" /\ resize.act = "do"
    /\ PipeFree(resize.part)
    /\ IF pipe[resize.part] # None
       THEN /\ resize' = Advance("after", resize.part)
            /\ UNCHANGED <<pipe, first>>
       ELSE /\ pipe' = [pipe EXCEPT ![resize.part] =
                   Created(IF resize.part = "broadcast" THEN url ELSE None,
                           ~Started[resize.part])]
            /\ IF resize.part = "screencast"
               THEN /\ first' = "resize"
                    /\ resize' = [resize EXCEPT !.act = "first"]
               ELSE /\ resize' = Advance("after", resize.part)
                    /\ first' = first
    /\ UNCHANGED <<mode, screen, viewing, expired, image, inHand,
                   castMu, view, ticker, bcastVars, sinkVars, down>>

\* The pipeline cannot be created: the listener panics.  The recoverer of the
\* router catches that, but the deferred function that would unlock desktop's
\* mu is the one that panicked: nobody sets a screen size any more.
RecreatePanics ==
    /\ resize.phase = "after" /\ resize.act = "do"
    /\ PipeFree(resize.part)
    /\ pipe[resize.part] = None
    /\ resize' = [resize EXCEPT !.phase = "stuck"]
    /\ UNCHANGED <<mode, screen, castVars, bcastVars, sinkVars,
                   pipe, down>>

-----------------------------------------------------------------------------
\* The broadcast

Goto(a, pc) == req' = [req EXCEPT ![a].pc = pc]

\* boradcastStart: a running broadcast is answered with an error.
StartRequest(a, u) ==
    /\ Serving("broadcast")
    /\ req[a].pc = "idle"
    /\ bMu = None /\ ~live
    /\ req' = [req EXCEPT ![a] = [pc |-> "start", url |-> u]]
    /\ UNCHANGED <<screenVars, castVars, url, live, bMu, sinkVars,
                   pipe, down>>

\* Start(url) creates the pipeline with the URL the manager had before.
BroadcastCreate(a) ==
    /\ req[a].pc = "start"
    /\ bMu = None
    /\ pipe["broadcast"] = None
    /\ pipe' = [pipe EXCEPT !["broadcast"] = Created(url, FALSE)]
    /\ bMu' = a
    /\ Goto(a, "url")
    /\ UNCHANGED <<screenVars, castVars, url, live, sinkVars, down>>

\* The pipeline exists already, or cannot be created.
BroadcastFails(a) ==
    /\ req[a].pc = "start"
    /\ bMu = None
    /\ req' = [req EXCEPT ![a] = Quiet]
    /\ UNCHANGED <<screenVars, castVars, url, live, bMu, sinkVars,
                   pipe, down>>

\* mutant of BroadcastStarted: the mutex is not released
BroadcastStartedLocked(a) ==
    /\ req[a].pc = "url"
    /\ url' = req[a].url
    /\ live' = TRUE
    /\ Goto(a, "status")
    /\ UNCHANGED <<screenVars, castVars, bMu, sinkVars, pipe, down>>

BroadcastStarted(a) ==
    /\ req[a].pc = "url"
    /\ url' = req[a].url
    /\ live' = TRUE
    /\ bMu' = None
    /\ Goto(a, "status")
    /\ UNCHANGED <<screenVars, castVars, sinkVars, pipe, down>>

\* boradcastStop: a broadcast that does not run is answered with an error.
StopRequest(a) ==
    /\ Serving("broadcast")
    /\ req[a].pc = "idle"
    /\ bMu = None /\ live
    /\ Goto(a, "stop")
    /\ UNCHANGED <<screenVars, castVars, url, live, bMu, sinkVars,
                   pipe, down>>

\* mutant of BroadcastStop: the pipeline is left to run
BroadcastForget(a) ==
    /\ req[a].pc = "stop"
    /\ bMu = None
    /\ live' = FALSE
    /\ Goto(a, "status")
    /\ UNCHANGED <<screenVars, castVars, url, bMu, sinkVars, pipe,
                   down>>

BroadcastStop(a) ==
    /\ req[a].pc = "stop"
    /\ bMu = None
    /\ live' = FALSE
    /\ Stopped("broadcast")
    /\ Goto(a, "status")
    /\ UNCHANGED <<screenVars, castVars, url, bMu, sinkVars, down>>

\* The administrators are sent what is the case by then.
SendStatus(a) ==
    /\ req[a].pc = "status"
    /\ bMu = None
    /\ req' = [req EXCEPT ![a] = Quiet]
    /\ UNCHANGED <<screenVars, castVars, url, live, bMu, sinkVars, pipe, down>>

-----------------------------------------------------------------------------
\* The screencast

Look(v, pc) == view' = [view EXCEPT ![v] = pc]

\* Image() first takes the mark of the ticker away.
ImageRequest(v) ==
    /\ Serving("screencast")
    /\ view[v] = "idle"
    /\ expired' = FALSE
    /\ Look(v, "start")
    /\ UNCHANGED <<screenVars, viewing, image, inHand, castMu, first, ticker,
                   bcastVars, sinkVars, pipe, down>>

\* start() finds a pipeline, and the image that is there will do.
CastRuns(v) ==
    /\ view[v] = "start"
    /\ castMu = None /\ first = None
    /\ pipe["screencast"] # None
    /\ Look(v, "image")
    /\ UNCHANGED <<screenVars, viewing, expired, image, inHand, castMu, first,
                   ticker, bcastVars, sinkVars, pipe, down>>

\* start() creates one and waits, with both mutexes.
CastCreate(v) ==
    /\ view[v] = "start"
    /\ castMu = None /\ first = None
    /\ pipe["screencast"] = None
    /\ pipe' = [pipe EXCEPT !["screencast"] = Created(None, FALSE)]
    /\ castMu' = v
    /\ first' = v
    /\ Look(v, "first")
    /\ UNCHANGED <<screenVars, viewing, expired, image, inHand, ticker,
                   bcastVars, sinkVars, down>>

\* The pipeline cannot be created.
CastFails(v) ==
    /\ view[v] = "start"
    /\ castMu = None /\ first = None
    /\ pipe["screencast"] = None
    /\ Look(v, "idle")
    /\ UNCHANGED <<screenVars, viewing, expired, image, inHand, castMu, first,
                   ticker, bcastVars, sinkVars, pipe, down>>

\* The first image has come: it is stored and a reader goroutine started.
\* The screencast is the last part a resize recreates.
FirstImage ==
    /\ first # None
    /\ image' = TRUE
    /\ pipe' = [pipe EXCEPT !["screencast"].reads = TRUE]
    /\ first' = None
    /\ IF first = "resize"
       THEN resize' = Idle /\ UNCHANGED <<viewing, view, castMu>>
       ELSE /\ viewing' = TRUE
            /\ castMu' = None
            /\ Look(first, "image")
            /\ resize' = resize
    /\ UNCHANGED <<mode, screen, expired, inHand, ticker,
                   bcastVars, sinkVars, down>>

\* It has not come in a second: the pipeline stays without a reader.  For a
\* request that is an error, for a resize a panic.
FirstImageLate ==
    /\ first # None
    /\ first' = None
    /\ IF first = "resize"
       THEN /\ resize' = [resize EXCEPT !.phase = "stuck"]
            /\ UNCHANGED <<view, castMu>>
       ELSE Look(first, "idle") /\ castMu' = None /\ resize' = resize
    /\ UNCHANGED <<mode, screen, viewing, expired, image, inHand,
                   ticker, bcastVars, sinkVars, pipe, down>>

\* Image() returns what is there, or an error when there is nothing.
ReturnImage(v) ==
    /\ view[v] = "image"
    /\ Look(v, "idle")
    /\ UNCHANGED <<screenVars, viewing, expired, image, inHand, castMu, first,
                   ticker, bcastVars, sinkVars, pipe, down>>

\* The reader goroutine receives an image...
Receive ==
    /\ CastReads
    /\ inHand' = TRUE
    /\ UNCHANGED <<screenVars, viewing, expired, image, castMu, view, first,
                   ticker, bcastVars, sinkVars, pipe, down>>

\* ... and stores it, perhaps when its pipeline is no more.
Store ==
    /\ inHand
    /\ image' = TRUE
    /\ inHand' = FALSE
    /\ UNCHANGED <<screenVars, viewing, expired, castMu, view, first, ticker,
                   bcastVars, sinkVars, pipe, down>>

\* Every five seconds: is it started...
Tick ==
    /\ ticker = "wait"
    /\ castMu = None /\ viewing
    /\ ticker' = "cas"
    /\ UNCHANGED <<screenVars, viewing, expired, image, inHand, castMu, view,
                   first, bcastVars, sinkVars, pipe, down>>

\* mutant of Mark: the mark is set and never found
MarkAgain ==
    /\ ticker = "cas"
    /\ expired' = TRUE
    /\ ticker' = "wait"
    /\ UNCHANGED <<screenVars, viewing, image, inHand, castMu, view, first,
                   bcastVars, sinkVars, pipe, down>>

\* ... and was the mark of the last time taken away?
Mark ==
    /\ ticker = "cas"
    /\ expired' = TRUE
    /\ ticker' = IF expired THEN "stop" ELSE "wait"
    /\ UNCHANGED <<screenVars, viewing, image, inHand, castMu, view, first,
                   bcastVars, sinkVars, pipe, down>>

CastStop ==
    /\ ticker = "stop"
    /\ castMu = None /\ first = None
    /\ viewing' = FALSE
    /\ Stopped("screencast")
    /\ ticker' = "wait"
    /\ UNCHANGED <<screenVars, expired, image, inHand, castMu, view, first,
                   bcastVars, sinkVars, down>>

-----------------------------------------------------------------------------
\* A video stream's listeners; StreamSinks has the detail.

\* AddListener: the first one starts the pipeline, which may exist already.
AddListener(t) ==
    /\ Serving("video")
    /\ SinkFree /\ t \notin attached
    /\ pipe' = IF attached = {} /\ pipe["video"] = None
               THEN [pipe EXCEPT !["video"] = Created(None, FALSE)]
               ELSE pipe
    /\ lost' = (lost /\ attached # {})
    /\ track' = [track EXCEPT ![t] = "add"]
    /\ UNCHANGED <<screenVars, castVars, bcastVars, attached, down>>

Add(t) ==
    /\ track[t] = "add"
    /\ attached' = attached \cup {t}
    /\ track' = [track EXCEPT ![t] = "idle"]
    /\ UNCHANGED <<screenVars, castVars, bcastVars, lost, pipe, down>>

RemoveListener(t) ==
    /\ Serving("video")
    /\ SinkFree /\ t \in attached
    /\ attached' = attached \ {t}
    /\ track' = [track EXCEPT ![t] = "stop"]
    /\ UNCHANGED <<screenVars, castVars, bcastVars, lost, pipe, down>>

StopSink(t) ==
    /\ track[t] = "stop"
    /\ IF attached = {} THEN Stopped("video") ELSE pipe' = pipe
    /\ track' = [track EXCEPT ![t] = "idle"]
    /\ UNCHANGED <<screenVars, castVars, bcastVars, attached, lost, down>>

-----------------------------------------------------------------------------
\* Shutdown; the HTTP server has waited for its requests.

NoRequest ==
    /\ resize.phase \in {"idle", "stuck"}
    /\ \A a \in Admins : req[a].pc = "idle"
    /\ \A v \in Viewers : view[v] = "idle"
    /\ SinkFree

ShutBroadcast ==
    /\ down = "up" /\ NoRequest
    /\ Stopped("broadcast")
    /\ down' = "screencast"
    /\ UNCHANGED <<screenVars, castVars, bcastVars, sinkVars>>

\* mutant of ShutScreencast: the pipeline is left running
ShutTickerOnly ==
    /\ down = "screencast" /\ first = None
    /\ down' = "wait"
    /\ UNCHANGED <<screenVars, castVars, bcastVars, sinkVars, pipe>>

\* The pipeline is destroyed and tickerStop closed...
ShutScreencast ==
    /\ down = "screencast" /\ first = None
    /\ Stopped("screencast")
    /\ down' = "wait"
    /\ UNCHANGED <<screenVars, castVars, bcastVars, sinkVars>>

TickerEnds ==
    /\ down \notin {"up", "screencast"}
    /\ ticker = "wait"
    /\ ticker' = "over"
    /\ UNCHANGED <<screenVars, viewing, expired, image, inHand, castMu, view,
                   first, bcastVars, sinkVars, pipe, down>>

\* ... wg.Wait() is for the ticker and the readers.
WaitScreencast ==
    /\ down = "wait"
    /\ ticker = "over" /\ ~inHand
    /\ ~CastReads
    /\ down' = "video"
    /\ UNCHANGED <<screenVars, castVars, bcastVars, sinkVars, pipe>>

\* streamselector's shutdown destroys the pipeline of a stream that has
\* listeners, and leaves them.
ShutVideo ==
    /\ down = "video"
    /\ IF attached # {} THEN Stopped("video") ELSE pipe' = pipe
    /\ down' = "down"
    /\ UNCHANGED <<screenVars, castVars, bcastVars, sinkVars>>

-----------------------------------------------------------------------------
Resizing ==
    \/ See \/ DestroyForResize \/ Recreate \/ RecreatePanics
    \/ \E s \in Sizes, ok \in BOOLEAN : Change(s, ok)

Admin(a) == BroadcastCreate(a) \/ BroadcastFails(a) \/ BroadcastStarted(a)
              \/ BroadcastStop(a) \/ SendStatus(a)

Viewer(v) == CastRuns(v) \/ CastCreate(v) \/ CastFails(v) \/ ReturnImage(v)

Ticker == Tick \/ Mark \/ CastStop \/ TickerEnds

Track(t) == Add(t) \/ StopSink(t)

Shutdown == ShutBroadcast \/ ShutScreencast \/ WaitScreencast \/ ShutVideo

Next ==
    \/ BeginResize \/ Resizing
    \/ \E a \in Admins : Admin(a) \/ StopRequest(a)
                         \/ \E u \in Urls : StartRequest(a, u)
    \/ \E v \in Viewers : Viewer(v) \/ ImageRequest(v)
    \/ FirstImage \/ FirstImageLate \/ Receive \/ Store \/ Ticker
    \/ \E t \in Tracks : Track(t) \/ AddListener(t) \/ RemoveListener(t)
    \/ Shutdown

Spec == Init /\ [][Next]_vars

\* Goroutines run, a mutex is handed to a goroutine that has starved, the
\* pipeline yields an image or the wait for it times out.  No request
\* is required to be made, nor a shutdown to begin; of those made only
\* who holds a mutex must go on.
FairSpec ==
    /\ Spec
    /\ SF_vars(Resizing)
    /\ SF_vars(Ticker)
    /\ WF_vars(\E a \in Admins : BroadcastStarted(a))
    /\ WF_vars(FirstImage \/ FirstImageLate)
    /\ WF_vars(Store)
    /\ WF_vars(ShutScreencast \/ WaitScreencast \/ ShutVideo)

-----------------------------------------------------------------------------
AtRest ==
    /\ resize.phase = "idle" /\ down = "up" /\ first = None /\ SinkFree
    /\ \A a \in Admins : req[a].pc = "idle"

\* When nothing is under way, a part runs a pipeline exactly when it is started,
\* whatever resizes, starts and stops crossed each other, but for one that a
\* resize created after it was told "started" and the part was stopped
\* (capture/manager.go, OnAfterScreenSizeChange), a screencast whose first
\* image came too late, and a listener whose pipeline a resize destroyed and
\* did not create again because it was not yet in the map.  And who waits for a
\* first image waits at a pipeline that is not taken away (createPipeline).
RunsAsStarted ==
    /\ first # None => pipe["screencast"] # None
    /\ AtRest => \A p \in Parts :
        /\ Started[p] => pipe[p] # None \/ (p = "video" /\ lost)
        /\ pipe[p] # None => \/ Started[p] \/ pipe[p].orphan
                             \/ p = "screencast" /\ ~pipe[p].reads

\* When no resize is under way, every pipeline captures the screen of its
\* present size, but for those that came between the resize's question and the
\* change (OnBeforeScreenSizeChange holds no lock of the parts).
FitsScreen ==
    resize.phase = "idle" => \A p \in Parts :
        pipe[p] # None => pipe[p].missed \/ pipe[p].size = screen

\* A change of the screen size comes to its end or to a panic: no circle of the
\* desktop's, the broadcast's and the screencast's mutexes holds it up.
ResizeEnds == (resize.phase # "idle") ~> (resize.phase \in {"idle", "stuck"})

\* A screencast nobody asks for any more is stopped by the ticker.
CastIdles ==
    <>[](\A v \in Viewers : view[v] = "idle") /\ <>[](resize.phase = "idle")
        => []<>(viewing => down # "up")

\* A shutdown ends: the readers and the ticker that wg.Wait() waits for do.
ShutdownEnds == (down = "screencast") ~> (down = "down")
=============================================================================
