------------------------- MODULE CapturePipelinesProofs -------------------------
(***************************************************************************)
(* The pipelines under a resize, for any number of requests, listeners,    *)
(* sizes and URLs, and with the parts used together: what                  *)
(* CapturePipelines's run shows for one part at a time.                    *)
(***************************************************************************)
EXTENDS CapturePipelines, TLAPS

\* The resize in progress has been through with the part.
Handled(p) == \/ resize.part = "broadcast" /\ p = "video"
              \/ resize.part = "screencast" /\ p # "screencast"

\* A pipeline that the resize in progress will not destroy is marked so.
Fits ==
    \A p \in Parts : pipe[p] # None =>
        \/ pipe[p].missed
        \/ /\ pipe[p].size = screen
           /\ resize.phase # "change"
           /\ resize.phase = "before" => ~Handled(p)

\* The resize may have taken the part's pipeline and has still to give it back.
Taken(p) == \/ resize.phase \in {"change", "stuck"}
            \/ resize.phase = "before" /\ Handled(p)
            \/ resize.phase = "after" /\ ~Handled(p)
            \/ down # "up"

\* A listener is added or removed at a time, and a broadcast started.
Alone ==
    /\ \A t, u \in Tracks : track[t] # "idle" /\ track[u] # "idle" => t = u
    /\ \A a \in Admins : req[a].pc = "url" => bMu = a

VideoRuns ==
    /\ attached # {} \/ (\E t \in Tracks : track[t] = "add")
          => pipe["video"] # None \/ lost \/ Taken("video")
    /\ pipe["video"] # None =>
          attached # {} \/ pipe["video"].orphan \/ ~SinkFree

BroadcastRuns ==
    /\ live \/ (\E a \in Admins : req[a].pc = "url")
          => pipe["broadcast"] # None \/ Taken("broadcast")
    /\ pipe["broadcast"] # None =>
          \/ live \/ pipe["broadcast"].orphan
          \/ \E a \in Admins : req[a].pc = "url"

\* The resize that waits for a first image has come to its last step.
Waiting == first = "resize" => resize = At("after", "screencast", "first")

\* An image is waited for at a pipeline; one that the resize has created
\* is wanted, or was when the resize asked.
ScreencastRuns ==
    /\ first # None => pipe["screencast"] # None
    /\ first = "resize" => viewing \/ pipe["screencast"].orphan
    /\ viewing => pipe["screencast"] # None \/ Taken("screencast")
    /\ pipe["screencast"] # None =>
          \/ viewing \/ pipe["screencast"].orphan
          \/ ~pipe["screencast"].reads

IInv == /\ TypeOK /\ Fits /\ Alone /\ Waiting
        /\ VideoRuns /\ BroadcastRuns /\ ScreencastRuns
-----------------------------------------------------------------------------
(* What the operators of the specification say of one part.                 *)

LEMMA StartedIs ==
    /\ Started["video"] = (attached # {})
    /\ Started["broadcast"] = live
    /\ Started["screencast"] = viewing
BY DEF Started, Parts

\* What Advance leads to, part by part.
LEMMA AdvanceIs ==
    ASSUME NEW phase \in {"before", "after"}, NEW part \in Parts
    PROVE  /\ part = "video" =>
                 Advance(phase, part) = At(phase, "broadcast", "see")
           /\ part = "broadcast" =>
                 Advance(phase, part) = At(phase, "screencast", "see")
           /\ part = "screencast" =>
                 Advance(phase, part) = IF phase = "before"
                                        THEN At("change", "video", "see")
                                        ELSE Idle
BY DEF Advance, NextPart, Parts

\* A new pipeline is one, and has what it was given.
LEMMA CreatedIs ==
    ASSUME screen \in Sizes, NEW u \in Urls \cup {None},
           NEW orphan \in BOOLEAN
    PROVE  /\ Created(u, orphan) \in Pipes
           /\ Created(u, orphan) # None
           /\ Created(u, orphan).size = screen
           /\ Created(u, orphan).orphan = orphan
           /\ ~Created(u, orphan).reads
           /\ Created(u, orphan).missed =
                  (resize.phase \in {"before", "change"})
<1> DEFINE missed == resize.phase \in {"before", "change"}
<1>1. missed \in BOOLEAN /\ None \notin Pipes
  BY CaptureAssumption
<1>2. Created(u, orphan)
          = [size |-> screen, url |-> u, orphan |-> orphan, reads |-> FALSE,
             missed |-> missed]
  BY DEF Created
<1> HIDE DEF missed
<1>3. Created(u, orphan) \in Pipes
  BY <1>1, <1>2 DEF Pipes
<1>4. /\ Created(u, orphan).size = screen
      /\ Created(u, orphan).orphan = orphan
      /\ ~Created(u, orphan).reads
      /\ Created(u, orphan).missed = missed
  BY <1>2
<1> QED
  BY <1>1, <1>3, <1>4 DEF missed

\* A pipeline stays one when it is marked, and nothing else changes.
LEMMA Marked ==
    ASSUME pipe \in [Parts -> Pipes \cup {None}], NEW p \in Parts,
           pipe[p] # None, pipe' = [pipe EXCEPT ![p].missed = TRUE]
    PROVE  /\ pipe' \in [Parts -> Pipes \cup {None}]
           /\ pipe'[p] # None /\ pipe'[p].missed
           /\ pipe'[p].size = pipe[p].size
           /\ pipe'[p].orphan = pipe[p].orphan
           /\ pipe'[p].reads = pipe[p].reads
           /\ \A q \in Parts : q # p => pipe'[q] = pipe[q]
<1> DEFINE m == [pipe[p] EXCEPT !.missed = TRUE]
<1>1. pipe[p] \in Pipes /\ None \notin Pipes
  BY CaptureAssumption
<1>2. /\ m \in Pipes /\ m.missed /\ m.size = pipe[p].size
      /\ m.orphan = pipe[p].orphan /\ m.reads = pipe[p].reads
  BY <1>1 DEF Pipes
<1>3. pipe' = [pipe EXCEPT ![p] = m]
  OBVIOUS
<1> HIDE DEF m
<1> QED
  BY <1>1, <1>2, <1>3

\* The same of one that gets its reader.
LEMMA Read ==
    ASSUME pipe \in [Parts -> Pipes \cup {None}], NEW p \in Parts,
           pipe[p] # None, pipe' = [pipe EXCEPT ![p].reads = TRUE]
    PROVE  /\ pipe' \in [Parts -> Pipes \cup {None}]
           /\ pipe'[p] # None /\ pipe'[p].reads
           /\ pipe'[p].missed = pipe[p].missed
           /\ pipe'[p].size = pipe[p].size
           /\ pipe'[p].orphan = pipe[p].orphan
           /\ \A q \in Parts : q # p => pipe'[q] = pipe[q]
<1> DEFINE r == [pipe[p] EXCEPT !.reads = TRUE]
<1>1. pipe[p] \in Pipes /\ None \notin Pipes
  BY CaptureAssumption
<1>2. /\ r \in Pipes /\ r.reads /\ r.missed = pipe[p].missed
      /\ r.size = pipe[p].size /\ r.orphan = pipe[p].orphan
  BY <1>1 DEF Pipes
<1>3. pipe' = [pipe EXCEPT ![p] = r]
  OBVIOUS
<1> HIDE DEF r
<1> QED
  BY <1>1, <1>2, <1>3


-----------------------------------------------------------------------------
(* What a step leaves true, action by action. *)

LEMMA FlagsStep ==
    Flags /\ [Next]_vars => Flags'
<1> SUFFICES ASSUME Flags, [Next]_vars
             PROVE  Flags'
  OBVIOUS
<1> USE DEF Flags, screenVars, castVars, bcastVars, sinkVars
<1>1. CASE UNCHANGED vars
  BY <1>1 DEF vars
<1>2. CASE BeginResize
  BY <1>2 DEF BeginResize
<1>3. CASE See
  BY <1>3 DEF See
<1>4. CASE DestroyForResize
  BY <1>4 DEF DestroyForResize
<1>5. CASE Recreate
  BY <1>5 DEF Recreate
<1>6. CASE RecreatePanics
  BY <1>6 DEF RecreatePanics
<1>7. ASSUME NEW s \in Sizes, NEW ok \in BOOLEAN, Change(s, ok) PROVE Flags'
  BY <1>7 DEF Change
<1>8. ASSUME NEW a \in Admins, BroadcastCreate(a) PROVE Flags'
  BY <1>8 DEF BroadcastCreate
<1>9. ASSUME NEW a \in Admins, BroadcastFails(a) PROVE Flags'
  BY <1>9 DEF BroadcastFails
<1>10. ASSUME NEW a \in Admins, BroadcastStarted(a) PROVE Flags'
  BY <1>10 DEF BroadcastStarted
<1>11. ASSUME NEW a \in Admins, BroadcastStop(a) PROVE Flags'
  BY <1>11 DEF BroadcastStop
<1>12. ASSUME NEW a \in Admins, SendStatus(a) PROVE Flags'
  BY <1>12 DEF SendStatus
<1>13. ASSUME NEW a \in Admins, StopRequest(a) PROVE Flags'
  BY <1>13 DEF StopRequest
<1>14. ASSUME NEW a \in Admins, NEW u \in Urls, StartRequest(a, u)
       PROVE Flags'
  BY <1>14 DEF StartRequest
<1>15. ASSUME NEW v \in Viewers, CastRuns(v) PROVE Flags'
  BY <1>15 DEF CastRuns
<1>16. ASSUME NEW v \in Viewers, CastCreate(v) PROVE Flags'
  BY <1>16 DEF CastCreate
<1>17. ASSUME NEW v \in Viewers, CastFails(v) PROVE Flags'
  BY <1>17 DEF CastFails
<1>18. ASSUME NEW v \in Viewers, ReturnImage(v) PROVE Flags'
  BY <1>18 DEF ReturnImage
<1>19. ASSUME NEW v \in Viewers, ImageRequest(v) PROVE Flags'
  BY <1>19 DEF ImageRequest
<1>20. CASE FirstImage
  BY <1>20 DEF FirstImage
<1>21. CASE FirstImageLate
  BY <1>21 DEF FirstImageLate
<1>22. CASE Receive
  BY <1>22 DEF Receive
<1>23. CASE Store
  BY <1>23 DEF Store
<1>24. CASE Tick
  BY <1>24 DEF Tick
<1>25. CASE Mark
  BY <1>25 DEF Mark
<1>26. CASE CastStop
  BY <1>26 DEF CastStop
<1>27. CASE TickerEnds
  BY <1>27 DEF TickerEnds
<1>28. ASSUME NEW t \in Tracks, Add(t) PROVE Flags'
  BY <1>28 DEF Add
<1>29. ASSUME NEW t \in Tracks, StopSink(t) PROVE Flags'
  BY <1>29 DEF StopSink
<1>30. ASSUME NEW t \in Tracks, AddListener(t) PROVE Flags'
  BY <1>30 DEF AddListener
<1>31. ASSUME NEW t \in Tracks, RemoveListener(t) PROVE Flags'
  BY <1>31 DEF RemoveListener
<1>32. CASE ShutBroadcast
  BY <1>32 DEF ShutBroadcast
<1>33. CASE ShutScreencast
  BY <1>33 DEF ShutScreencast
<1>34. CASE WaitScreencast
  BY <1>34 DEF WaitScreencast
<1>35. CASE ShutVideo
  BY <1>35 DEF ShutVideo
<1> QED
  BY <1>1, <1>2, <1>3, <1>4, <1>5, <1>6, <1>7, <1>8, <1>9, <1>10, <1>11,
     <1>12, <1>13, <1>14, <1>15, <1>16, <1>17, <1>18, <1>19, <1>20,
     <1>21, <1>22, <1>23, <1>24, <1>25, <1>26, <1>27, <1>28, <1>29,
     <1>30, <1>31, <1>32, <1>33, <1>34, <1>35
     DEF Next, Resizing, Admin, Viewer, Ticker, Track, Shutdown

LEMMA PlacesStep ==
    Places /\ ScreencastRuns /\ [Next]_vars => Places'
<1> SUFFICES ASSUME Places /\ ScreencastRuns, [Next]_vars
             PROVE  Places'
  OBVIOUS
<1> USE CaptureAssumption DEF Places, Quiet, Idle, Parts,
      screenVars, castVars, bcastVars, sinkVars, Stopped, Goto, Look
<1>1. CASE UNCHANGED vars
  BY <1>1 DEF vars
<1>2. CASE BeginResize
  BY <1>2 DEF BeginResize, At, Advance, NextPart
<1>3. CASE See
  <2>1. resize' \in [phase : {"idle", "before", "change", "after", "stuck"},
                     part : Parts, act : {"see", "do", "first"}]
    BY <1>3 DEF See, At, Advance, NextPart
  <2>2. resize.part \in Parts
    OBVIOUS
  <2>3. pipe' \in [Parts -> Pipes \cup {None}]
    <3>1. CASE pipe' = pipe
      BY <3>1
    <3>2. CASE /\ pipe[resize.part] # None
               /\ pipe' = [pipe EXCEPT ![resize.part].missed = TRUE]
      <4> QED
        BY <2>2, <3>2, Marked
    <3> QED
      BY <1>3, <3>1, <3>2 DEF See
  <2> QED
    BY <1>3, <2>1, <2>3 DEF See
<1>4. CASE DestroyForResize
  BY <1>4 DEF DestroyForResize, At, Advance, NextPart
<1>5. CASE Recreate
  <2>1. CASE pipe[resize.part] # None
    BY <1>5, <2>1 DEF Recreate, At, Advance, NextPart
  <2>2. CASE pipe[resize.part] = None
    <3>1. pipe' \in [Parts -> Pipes \cup {None}]
      <4>1. PICK u \in Urls \cup {None}, o \in BOOLEAN :
                pipe' = [pipe EXCEPT ![resize.part] = Created(u, o)]
        BY <1>5, <2>2 DEF Recreate
      <4> QED
        BY <4>1, CreatedIs
    <3>2. resize' \in [phase : {"idle", "before", "change", "after", "stuck"},
                       part : Parts, act : {"see", "do", "first"}]
      BY <1>5, <2>2 DEF Recreate, At, Advance, NextPart
    <3> QED
      BY <1>5, <2>2, <3>1, <3>2 DEF Recreate
  <2> QED
    BY <2>1, <2>2
<1>6. CASE RecreatePanics
  BY <1>6 DEF RecreatePanics
<1>7. ASSUME NEW s \in Sizes, NEW ok \in BOOLEAN, Change(s, ok) PROVE Places'
  BY <1>7 DEF Change, At, Advance, NextPart
<1>8. ASSUME NEW a \in Admins, BroadcastCreate(a) PROVE Places'
  <2>1. Created(url, FALSE) \in Pipes
    BY CreatedIs
  <2>2. pipe' \in [Parts -> Pipes \cup {None}]
    BY <1>8, <2>1 DEF BroadcastCreate
  <2>3. /\ bMu' = a /\ req' = [req EXCEPT ![a].pc = "url"]
        /\ UNCHANGED <<screenVars, castVars, url, live, sinkVars, down>>
    BY <1>8 DEF BroadcastCreate
  <2> QED
    BY <2>2, <2>3
<1>9. ASSUME NEW a \in Admins, BroadcastFails(a) PROVE Places'
  BY <1>9 DEF BroadcastFails
<1>10. ASSUME NEW a \in Admins, BroadcastStarted(a) PROVE Places'
  BY <1>10 DEF BroadcastStarted
<1>11. ASSUME NEW a \in Admins, BroadcastStop(a) PROVE Places'
  BY <1>11 DEF BroadcastStop
<1>12. ASSUME NEW a \in Admins, SendStatus(a) PROVE Places'
  BY <1>12 DEF SendStatus
<1>13. ASSUME NEW a \in Admins, StopRequest(a) PROVE Places'
  BY <1>13 DEF StopRequest
<1>14. ASSUME NEW a \in Admins, NEW u \in Urls, StartRequest(a, u)
       PROVE Places'
  <2>1. [pc |-> "start", url |-> u]
            \in [pc : {"idle", "start", "url", "stop", "status"},
                 url : Urls \cup {None}]
    OBVIOUS
  <2> QED
    BY <1>14, <2>1 DEF StartRequest
<1>15. ASSUME NEW v \in Viewers, CastRuns(v) PROVE Places'
  BY <1>15 DEF CastRuns
<1>16. ASSUME NEW v \in Viewers, CastCreate(v) PROVE Places'
  <2>1. Created(None, FALSE) \in Pipes
    BY CreatedIs
  <2>2. pipe' \in [Parts -> Pipes \cup {None}]
    BY <1>16, <2>1 DEF CastCreate
  <2>3. /\ castMu' = v /\ first' = v
        /\ view' = [view EXCEPT ![v] = "first"]
        /\ UNCHANGED <<screenVars, ticker, bcastVars, sinkVars, down>>
    BY <1>16 DEF CastCreate
  <2> QED
    BY <2>2, <2>3
<1>17. ASSUME NEW v \in Viewers, CastFails(v) PROVE Places'
  BY <1>17 DEF CastFails
<1>18. ASSUME NEW v \in Viewers, ReturnImage(v) PROVE Places'
  BY <1>18 DEF ReturnImage
<1>19. ASSUME NEW v \in Viewers, ImageRequest(v) PROVE Places'
  BY <1>19 DEF ImageRequest
<1>20. CASE FirstImage
  <2>1. pipe' \in [Parts -> Pipes \cup {None}]
    <3>1. "screencast" \in Parts /\ pipe["screencast"] # None
      BY <1>20 DEF FirstImage, ScreencastRuns
    <3> QED
      BY <1>20, <3>1, Read DEF FirstImage
  <2>2. CASE first = "resize"
    BY <1>20, <2>1, <2>2 DEF FirstImage
  <2>3. CASE first # "resize"
    BY <1>20, <2>1, <2>3 DEF FirstImage
  <2> QED
    BY <2>2, <2>3
<1>21. CASE FirstImageLate
  BY <1>21 DEF FirstImageLate
<1>22. CASE Receive
  BY <1>22 DEF Receive
<1>23. CASE Store
  BY <1>23 DEF Store
<1>24. CASE Tick
  BY <1>24 DEF Tick
<1>25. CASE Mark
  BY <1>25 DEF Mark
<1>26. CASE CastStop
  BY <1>26 DEF CastStop
<1>27. CASE TickerEnds
  BY <1>27 DEF TickerEnds
<1>28. ASSUME NEW t \in Tracks, Add(t) PROVE Places'
  BY <1>28 DEF Add
<1>29. ASSUME NEW t \in Tracks, StopSink(t) PROVE Places'
  BY <1>29 DEF StopSink
<1>30. ASSUME NEW t \in Tracks, AddListener(t) PROVE Places'
  <2>1. Created(None, FALSE) \in Pipes
    BY CreatedIs
  <2>2. pipe' \in [Parts -> Pipes \cup {None}]
    BY <1>30, <2>1 DEF AddListener
  <2>3. /\ track' = [track EXCEPT ![t] = "add"]
        /\ UNCHANGED <<screenVars, castVars, bcastVars, attached, down>>
    BY <1>30 DEF AddListener
  <2> QED
    BY <2>2, <2>3
<1>31. ASSUME NEW t \in Tracks, RemoveListener(t) PROVE Places'
  BY <1>31 DEF RemoveListener
<1>32. CASE ShutBroadcast
  BY <1>32 DEF ShutBroadcast
<1>33. CASE ShutScreencast
  BY <1>33 DEF ShutScreencast
<1>34. CASE WaitScreencast
  BY <1>34 DEF WaitScreencast
<1>35. CASE ShutVideo
  BY <1>35 DEF ShutVideo
<1> QED
  BY <1>1, <1>2, <1>3, <1>4, <1>5, <1>6, <1>7, <1>8, <1>9, <1>10, <1>11,
     <1>12, <1>13, <1>14, <1>15, <1>16, <1>17, <1>18, <1>19, <1>20,
     <1>21, <1>22, <1>23, <1>24, <1>25, <1>26, <1>27, <1>28, <1>29,
     <1>30, <1>31, <1>32, <1>33, <1>34, <1>35
     DEF Next, Resizing, Admin, Viewer, Ticker, Track, Shutdown

\* The first question of a resize marks what it will not destroy; what it
\* destroys is None; a pipeline made before the change is born with the mark.
LEMMA FitsStep ==
    Places /\ Fits /\ ScreencastRuns /\ [Next]_vars => Fits'
<1> SUFFICES ASSUME Places /\ Fits /\ ScreencastRuns, [Next]_vars
             PROVE  Fits'
  OBVIOUS
<1> USE CaptureAssumption DEF Places, Parts, Fits, Handled, Idle,
      screenVars, castVars, bcastVars, sinkVars, Stopped, ScreencastRuns
<1>1. CASE UNCHANGED vars
  BY <1>1 DEF vars
<1>2. CASE BeginResize
  BY <1>2 DEF BeginResize, At, Advance, NextPart
<1>3. CASE See
  <2>1. CASE Started[resize.part]
    BY <1>3, <2>1 DEF See
  <2>2. CASE ~Started[resize.part]
    <3> SUFFICES ASSUME NEW q \in Parts, pipe'[q] # None, ~pipe'[q].missed
                 PROVE  /\ pipe'[q].size = screen'
                        /\ resize'.phase # "change"
                        /\ resize'.phase = "before" => ~Handled(q)'
      OBVIOUS
    <3>1. resize.part \in Parts /\ screen' = screen
      BY <1>3 DEF See
    <3>2. q # resize.part
      BY <1>3, <2>2, <3>1, Marked DEF See
    <3>3. pipe'[q] = pipe[q]
      BY <1>3, <2>2, <3>1, <3>2, Marked DEF See
    <3>4. resize' = Advance(resize.phase, resize.part)
          /\ resize.phase \in {"before", "after"}
      BY <1>3, <2>2 DEF See
    <3>5. CASE resize.phase = "before"
      BY <3>1, <3>2, <3>3, <3>4, <3>5, AdvanceIs DEF At
    <3>6. CASE resize.phase = "after"
      BY <3>1, <3>3, <3>4, <3>6, AdvanceIs DEF At
    <3> QED
      BY <3>4, <3>5, <3>6
  <2> QED
    BY <2>1, <2>2
<1>4. CASE DestroyForResize
  BY <1>4 DEF DestroyForResize, At, Advance, NextPart
<1>5. CASE Recreate
  <2>1. /\ resize.phase = "after" /\ resize.part \in Parts
        /\ screen' = screen /\ resize'.phase \in {"after", "idle"}
    BY <1>5 DEF Recreate, At, Advance, NextPart
  <2>2. CASE pipe[resize.part] # None
    BY <1>5, <2>1, <2>2 DEF Recreate
  <2>3. CASE pipe[resize.part] = None
    <3>1. PICK u \in Urls \cup {None}, o \in BOOLEAN :
              pipe' = [pipe EXCEPT ![resize.part] = Created(u, o)]
      BY <1>5, <2>3 DEF Recreate
    <3>2. Created(u, o).size = screen
      BY CreatedIs
    <3> QED
      BY <2>1, <3>1, <3>2
  <2> QED
    BY <2>2, <2>3
<1>6. CASE RecreatePanics
  BY <1>6 DEF RecreatePanics
<1>7. ASSUME NEW s \in Sizes, NEW ok \in BOOLEAN, Change(s, ok) PROVE Fits'
  BY <1>7 DEF Change, At, Advance, NextPart
<1>8. ASSUME NEW a \in Admins, BroadcastCreate(a) PROVE Fits'
  <2>1. /\ Created(url, FALSE).size = screen
        /\ resize.phase \in {"before", "change"} => Created(url, FALSE).missed
    BY CreatedIs
  <2>2. /\ pipe' = [pipe EXCEPT !["broadcast"] = Created(url, FALSE)]
        /\ UNCHANGED <<screen, resize>>
    BY <1>8 DEF BroadcastCreate
  <2> QED
    BY <2>1, <2>2
<1>9. ASSUME NEW a \in Admins, BroadcastFails(a) PROVE Fits'
  BY <1>9 DEF BroadcastFails
<1>10. ASSUME NEW a \in Admins, BroadcastStarted(a) PROVE Fits'
  BY <1>10 DEF BroadcastStarted
<1>11. ASSUME NEW a \in Admins, BroadcastStop(a) PROVE Fits'
  BY <1>11 DEF BroadcastStop
<1>12. ASSUME NEW a \in Admins, SendStatus(a) PROVE Fits'
  BY <1>12 DEF SendStatus
<1>13. ASSUME NEW a \in Admins, StopRequest(a) PROVE Fits'
  BY <1>13 DEF StopRequest
<1>14. ASSUME NEW a \in Admins, NEW u \in Urls, StartRequest(a, u) PROVE Fits'
  BY <1>14 DEF StartRequest
<1>15. ASSUME NEW v \in Viewers, CastRuns(v) PROVE Fits'
  BY <1>15 DEF CastRuns
<1>16. ASSUME NEW v \in Viewers, CastCreate(v) PROVE Fits'
  <2>1. /\ Created(None, FALSE).size = screen
        /\ resize.phase \in {"before", "change"} => Created(None, FALSE).missed
    BY CreatedIs
  <2>2. /\ pipe' = [pipe EXCEPT !["screencast"] = Created(None, FALSE)]
        /\ UNCHANGED <<screen, resize>>
    BY <1>16 DEF CastCreate
  <2> QED
    BY <2>1, <2>2
<1>17. ASSUME NEW v \in Viewers, CastFails(v) PROVE Fits'
  BY <1>17 DEF CastFails
<1>18. ASSUME NEW v \in Viewers, ReturnImage(v) PROVE Fits'
  BY <1>18 DEF ReturnImage
<1>19. ASSUME NEW v \in Viewers, ImageRequest(v) PROVE Fits'
  BY <1>19 DEF ImageRequest
<1>20. CASE FirstImage
  BY <1>20 DEF FirstImage
<1>21. CASE FirstImageLate
  BY <1>21 DEF FirstImageLate
<1>22. CASE Receive
  BY <1>22 DEF Receive
<1>23. CASE Store
  BY <1>23 DEF Store
<1>24. CASE Tick
  BY <1>24 DEF Tick
<1>25. CASE Mark
  BY <1>25 DEF Mark
<1>26. CASE CastStop
  BY <1>26 DEF CastStop
<1>27. CASE TickerEnds
  BY <1>27 DEF TickerEnds
<1>28. ASSUME NEW t \in Tracks, Add(t) PROVE Fits'
  BY <1>28 DEF Add
<1>29. ASSUME NEW t \in Tracks, StopSink(t) PROVE Fits'
  BY <1>29 DEF StopSink
<1>30. ASSUME NEW t \in Tracks, AddListener(t) PROVE Fits'
  <2>1. /\ Created(None, FALSE).size = screen
        /\ resize.phase \in {"before", "change"} => Created(None, FALSE).missed
    BY CreatedIs
  <2>2. /\ pipe' = IF pipe["video"] # None \/ attached # {} THEN pipe
                   ELSE [pipe EXCEPT !["video"] = Created(None, FALSE)]
        /\ UNCHANGED <<screen, resize>>
    BY <1>30 DEF AddListener
  <2> QED
    BY <2>1, <2>2
<1>31. ASSUME NEW t \in Tracks, RemoveListener(t) PROVE Fits'
  BY <1>31 DEF RemoveListener
<1>32. CASE ShutBroadcast
  BY <1>32 DEF ShutBroadcast
<1>33. CASE ShutScreencast
  BY <1>33 DEF ShutScreencast
<1>34. CASE WaitScreencast
  BY <1>34 DEF WaitScreencast
<1>35. CASE ShutVideo
  BY <1>35 DEF ShutVideo
<1> QED
  BY <1>1, <1>2, <1>3, <1>4, <1>5, <1>6, <1>7, <1>8, <1>9, <1>10, <1>11,
     <1>12, <1>13, <1>14, <1>15, <1>16, <1>17, <1>18, <1>19, <1>20,
     <1>21, <1>22, <1>23, <1>24, <1>25, <1>26, <1>27, <1>28, <1>29,
     <1>30, <1>31, <1>32, <1>33, <1>34, <1>35
     DEF Next, Resizing, Admin, Viewer, Ticker, Track, Shutdown

\* The sink's mu and the broadcast's mu admit one at a time.
LEMMA AloneStep ==
    Places /\ Alone /\ [Next]_vars => Alone'
<1> SUFFICES ASSUME Places /\ Alone, [Next]_vars
             PROVE  Alone'
  OBVIOUS
<1> USE CaptureAssumption DEF Places, Parts, Alone, Quiet,
      screenVars, castVars, bcastVars, sinkVars, Goto, SinkFree
<1>1. CASE UNCHANGED vars
  BY <1>1 DEF vars
<1>2. CASE BeginResize
  BY <1>2 DEF BeginResize
<1>3. CASE See
  BY <1>3 DEF See
<1>4. CASE DestroyForResize
  BY <1>4 DEF DestroyForResize
<1>5. CASE Recreate
  BY <1>5 DEF Recreate
<1>6. CASE RecreatePanics
  BY <1>6 DEF RecreatePanics
<1>7. ASSUME NEW s \in Sizes, NEW ok \in BOOLEAN, Change(s, ok) PROVE Alone'
  BY <1>7 DEF Change
<1>8. ASSUME NEW a \in Admins, BroadcastCreate(a) PROVE Alone'
  BY <1>8 DEF BroadcastCreate
<1>9. ASSUME NEW a \in Admins, BroadcastFails(a) PROVE Alone'
  BY <1>9 DEF BroadcastFails
<1>10. ASSUME NEW a \in Admins, BroadcastStarted(a) PROVE Alone'
  BY <1>10 DEF BroadcastStarted
<1>11. ASSUME NEW a \in Admins, BroadcastStop(a) PROVE Alone'
  BY <1>11 DEF BroadcastStop
<1>12. ASSUME NEW a \in Admins, SendStatus(a) PROVE Alone'
  BY <1>12 DEF SendStatus
<1>13. ASSUME NEW a \in Admins, StopRequest(a) PROVE Alone'
  BY <1>13 DEF StopRequest
<1>14. ASSUME NEW a \in Admins, NEW u \in Urls, StartRequest(a, u)
       PROVE Alone'
  BY <1>14 DEF StartRequest
<1>15. ASSUME NEW v \in Viewers, CastRuns(v) PROVE Alone'
  BY <1>15 DEF CastRuns
<1>16. ASSUME NEW v \in Viewers, CastCreate(v) PROVE Alone'
  BY <1>16 DEF CastCreate
<1>17. ASSUME NEW v \in Viewers, CastFails(v) PROVE Alone'
  BY <1>17 DEF CastFails
<1>18. ASSUME NEW v \in Viewers, ReturnImage(v) PROVE Alone'
  BY <1>18 DEF ReturnImage
<1>19. ASSUME NEW v \in Viewers, ImageRequest(v) PROVE Alone'
  BY <1>19 DEF ImageRequest
<1>20. CASE FirstImage
  BY <1>20 DEF FirstImage
<1>21. CASE FirstImageLate
  BY <1>21 DEF FirstImageLate
<1>22. CASE Receive
  BY <1>22 DEF Receive
<1>23. CASE Store
  BY <1>23 DEF Store
<1>24. CASE Tick
  BY <1>24 DEF Tick
<1>25. CASE Mark
  BY <1>25 DEF Mark
<1>26. CASE CastStop
  BY <1>26 DEF CastStop
<1>27. CASE TickerEnds
  BY <1>27 DEF TickerEnds
<1>28. ASSUME NEW t \in Tracks, Add(t) PROVE Alone'
  BY <1>28 DEF Add
<1>29. ASSUME NEW t \in Tracks, StopSink(t) PROVE Alone'
  BY <1>29 DEF StopSink
<1>30. ASSUME NEW t \in Tracks, AddListener(t) PROVE Alone'
  BY <1>30 DEF AddListener
<1>31. ASSUME NEW t \in Tracks, RemoveListener(t) PROVE Alone'
  BY <1>31 DEF RemoveListener
<1>32. CASE ShutBroadcast
  BY <1>32 DEF ShutBroadcast
<1>33. CASE ShutScreencast
  BY <1>33 DEF ShutScreencast
<1>34. CASE WaitScreencast
  BY <1>34 DEF WaitScreencast
<1>35. CASE ShutVideo
  BY <1>35 DEF ShutVideo
<1> QED
  BY <1>1, <1>2, <1>3, <1>4, <1>5, <1>6, <1>7, <1>8, <1>9, <1>10, <1>11,
     <1>12, <1>13, <1>14, <1>15, <1>16, <1>17, <1>18, <1>19, <1>20,
     <1>21, <1>22, <1>23, <1>24, <1>25, <1>26, <1>27, <1>28, <1>29,
     <1>30, <1>31, <1>32, <1>33, <1>34, <1>35
     DEF Next, Resizing, Admin, Viewer, Ticker, Track, Shutdown

\* AddListener and RemoveListener start and stop with the listeners' map; a
\* resize that falls between the two finds the stream not started.
LEMMA VideoStep ==
    Places /\ Alone /\ Waiting /\ VideoRuns /\ [Next]_vars => VideoRuns'
<1> SUFFICES ASSUME Places /\ Alone /\ Waiting /\ VideoRuns, [Next]_vars
             PROVE  VideoRuns'
  OBVIOUS
<1> USE CaptureAssumption DEF Places, Parts, Alone, VideoRuns,
      Taken, Handled, Stopped, SinkFree, Idle,
      screenVars, castVars, bcastVars, sinkVars
<1>1. CASE UNCHANGED vars
  BY <1>1 DEF vars
<1>2. CASE BeginResize
  BY <1>2 DEF BeginResize, At, Advance, NextPart
<1>3. CASE See
  <2>1. CASE Started[resize.part]
    BY <1>3, <2>1 DEF See
  <2>2. CASE ~Started[resize.part] /\ resize.part # "video"
    <3>1. pipe'["video"] = pipe["video"]
      BY <1>3, <2>2 DEF See
    <3>2. resize' = Advance(resize.phase, resize.part) /\ lost' = lost
      BY <1>3, <2>2 DEF See
    <3> QED
      BY <1>3, <2>2, <3>1, <3>2, AdvanceIs DEF See, At
  <2>3. CASE ~Started[resize.part] /\ resize.part = "video"
    <3>1. attached = {}
      BY <2>3, StartedIs
    <3>2. resize' = At(resize.phase, "broadcast", "see")
      BY <1>3, <2>3, AdvanceIs DEF See
    <3>3. pipe["video"] # None =>
              pipe'["video"].orphan = pipe["video"].orphan
      BY <1>3, <2>3, Marked DEF See
    <3>4. pipe["video"] = None => pipe'["video"] = None
      BY <1>3, <2>3 DEF See
    <3>5. CASE resize.phase = "before"
      BY <1>3, <2>3, <3>1, <3>2, <3>3, <3>4, <3>5 DEF See, At
    <3>6. CASE resize.phase = "after"
      <4>1. lost' <=> (pipe["video"] = None /\ ~SinkFree)
        BY <1>3, <2>3, <3>6 DEF See
      <4>2. /\ pipe["video"] # None => pipe'["video"] # None
            /\ UNCHANGED <<attached, track, down>>
        BY <1>3, <2>3, Marked DEF See
      <4>3. SinkFree' <=> SinkFree
        BY <4>2
      <4>4. (\E x \in Tracks : track'[x] = "add") => ~SinkFree
        BY <4>2
      <4>5. CASE pipe["video"] = None
        BY <3>1, <3>4, <4>1, <4>2, <4>4, <4>5
      <4>6. CASE pipe["video"] # None
        BY <3>1, <3>3, <4>2, <4>3, <4>6
      <4> QED
        BY <4>5, <4>6
    <3> QED
      BY <1>3, <3>5, <3>6 DEF See
  <2> QED
    BY <2>1, <2>2, <2>3
<1>4. CASE DestroyForResize
  BY <1>4 DEF DestroyForResize, At, Advance, NextPart
<1>5. CASE Recreate
  <2>1. CASE pipe[resize.part] # None
    <3>1. resize' = Advance("after", resize.part) /\ pipe' = pipe
      BY <1>5, <2>1 DEF Recreate
    <3> QED
      BY <1>5, <2>1, <3>1, AdvanceIs DEF Recreate, At
  <2>2. CASE pipe[resize.part] = None /\ resize.part # "video"
    <3>1. /\ pipe'["video"] = pipe["video"]
          /\ resize' \in {Advance("after", resize.part),
                          [resize EXCEPT !.act = "first"]}
      BY <1>5, <2>2 DEF Recreate
    <3> QED
      BY <1>5, <2>2, <3>1, AdvanceIs DEF Recreate, At
  <2>3. CASE pipe[resize.part] = None /\ resize.part = "video"
    <3>1. pipe'["video"] = Created(None, ~Started["video"])
      BY <1>5, <2>3 DEF Recreate
    <3>2. pipe'["video"] # None /\ (attached = {} => pipe'["video"].orphan)
      <4> DEFINE o == ~Started["video"]
      <4>1. o \in BOOLEAN /\ (attached = {} => o)
        BY StartedIs
      <4>2. pipe'["video"] = Created(None, o)
        BY <3>1
      <4> HIDE DEF o
      <4>3. Created(None, o) # None /\ Created(None, o).orphan = o
        BY <4>1, CreatedIs
      <4> QED
        BY <4>1, <4>2, <4>3
    <3> QED
      BY <1>5, <2>3, <3>2 DEF Recreate
  <2> QED
    BY <2>1, <2>2, <2>3
<1>6. CASE RecreatePanics
  BY <1>6 DEF RecreatePanics
<1>7. ASSUME NEW s \in Sizes, NEW ok \in BOOLEAN, Change(s, ok)
      PROVE VideoRuns'
  BY <1>7 DEF Change, At, Advance, NextPart
<1>8. ASSUME NEW a \in Admins, BroadcastCreate(a) PROVE VideoRuns'
  BY <1>8 DEF BroadcastCreate
<1>9. ASSUME NEW a \in Admins, BroadcastFails(a) PROVE VideoRuns'
  BY <1>9 DEF BroadcastFails
<1>10. ASSUME NEW a \in Admins, BroadcastStarted(a) PROVE VideoRuns'
  BY <1>10 DEF BroadcastStarted
<1>11. ASSUME NEW a \in Admins, BroadcastStop(a) PROVE VideoRuns'
  BY <1>11 DEF BroadcastStop
<1>12. ASSUME NEW a \in Admins, SendStatus(a) PROVE VideoRuns'
  BY <1>12 DEF SendStatus
<1>13. ASSUME NEW a \in Admins, StopRequest(a) PROVE VideoRuns'
  BY <1>13 DEF StopRequest
<1>14. ASSUME NEW a \in Admins, NEW u \in Urls, StartRequest(a, u)
       PROVE VideoRuns'
  BY <1>14 DEF StartRequest
<1>15. ASSUME NEW v \in Viewers, CastRuns(v) PROVE VideoRuns'
  BY <1>15 DEF CastRuns
<1>16. ASSUME NEW v \in Viewers, CastCreate(v) PROVE VideoRuns'
  BY <1>16 DEF CastCreate
<1>17. ASSUME NEW v \in Viewers, CastFails(v) PROVE VideoRuns'
  BY <1>17 DEF CastFails
<1>18. ASSUME NEW v \in Viewers, ReturnImage(v) PROVE VideoRuns'
  BY <1>18 DEF ReturnImage
<1>19. ASSUME NEW v \in Viewers, ImageRequest(v) PROVE VideoRuns'
  BY <1>19 DEF ImageRequest
<1>20. CASE FirstImage
  <2>1. pipe'["video"] = pipe["video"]
    BY <1>20 DEF FirstImage
  <2>2. first = "resize" => ~Taken("video") \/ down # "up"
    BY DEF Waiting, At
  <2>3. resize' = IF first = "resize" THEN Idle ELSE resize
    BY <1>20 DEF FirstImage
  <2> QED
    BY <1>20, <2>1, <2>2, <2>3 DEF FirstImage
<1>21. CASE FirstImageLate
  BY <1>21 DEF FirstImageLate
<1>22. CASE Receive
  BY <1>22 DEF Receive
<1>23. CASE Store
  BY <1>23 DEF Store
<1>24. CASE Tick
  BY <1>24 DEF Tick
<1>25. CASE Mark
  BY <1>25 DEF Mark
<1>26. CASE CastStop
  BY <1>26 DEF CastStop
<1>27. CASE TickerEnds
  BY <1>27 DEF TickerEnds
<1>28. ASSUME NEW t \in Tracks, Add(t) PROVE VideoRuns'
  BY <1>28 DEF Add
<1>29. ASSUME NEW t \in Tracks, StopSink(t) PROVE VideoRuns'
  BY <1>29 DEF StopSink
<1>30. ASSUME NEW t \in Tracks, AddListener(t) PROVE VideoRuns'
  <2>1. attached' = attached /\ track'[t] = "add" /\ ~SinkFree'
    BY <1>30 DEF AddListener
  <2>2. CASE attached = {} /\ pipe["video"] = None
    <3> DEFINE new == Created(None, FALSE)
    <3>1. pipe'["video"] = new
      BY <1>30, <2>2 DEF AddListener
    <3>2. pipe'["video"] # None
      <4>1. new # None
        BY CreatedIs
      <4> HIDE DEF new
      <4> QED
        BY <3>1, <4>1
    <3> QED
      BY <1>30, <2>1, <3>2 DEF AddListener
  <2>3. CASE attached # {} \/ pipe["video"] # None
    <3>1. pipe' = pipe
      BY <1>30, <2>3 DEF AddListener
    <3> QED
      BY <1>30, <2>1, <2>3, <3>1 DEF AddListener
  <2> QED
    BY <2>2, <2>3
<1>31. ASSUME NEW t \in Tracks, RemoveListener(t) PROVE VideoRuns'
  BY <1>31 DEF RemoveListener
<1>32. CASE ShutBroadcast
  BY <1>32 DEF ShutBroadcast
<1>33. CASE ShutScreencast
  BY <1>33 DEF ShutScreencast
<1>34. CASE WaitScreencast
  BY <1>34 DEF WaitScreencast
<1>35. CASE ShutVideo
  BY <1>35 DEF ShutVideo
<1> QED
  BY <1>1, <1>2, <1>3, <1>4, <1>5, <1>6, <1>7, <1>8, <1>9, <1>10, <1>11,
     <1>12, <1>13, <1>14, <1>15, <1>16, <1>17, <1>18, <1>19, <1>20,
     <1>21, <1>22, <1>23, <1>24, <1>25, <1>26, <1>27, <1>28, <1>29,
     <1>30, <1>31, <1>32, <1>33, <1>34, <1>35
     DEF Next, Resizing, Admin, Viewer, Ticker, Track, Shutdown

\* Start and stop hold the mutex that the resize's question needs, not the one
\* its answer needs.
LEMMA BroadcastStep ==
    Places /\ Alone /\ Waiting /\ BroadcastRuns /\ [Next]_vars => BroadcastRuns'
<1> SUFFICES ASSUME Places /\ Alone /\ Waiting /\ BroadcastRuns, [Next]_vars
             PROVE  BroadcastRuns'
  OBVIOUS
<1> USE CaptureAssumption DEF Places, Parts, Alone, BroadcastRuns,
      Taken, Handled, Stopped, Idle, Goto, Quiet,
      screenVars, castVars, bcastVars, sinkVars
<1>1. CASE UNCHANGED vars
  BY <1>1 DEF vars
<1>2. CASE BeginResize
  BY <1>2 DEF BeginResize, At, Advance, NextPart
<1>3. CASE See
  <2>1. CASE Started[resize.part]
    BY <1>3, <2>1 DEF See
  <2>2. CASE ~Started[resize.part] /\ resize.part # "broadcast"
    <3>1. pipe'["broadcast"] = pipe["broadcast"]
      BY <1>3, <2>2 DEF See
    <3>2. resize' = Advance(resize.phase, resize.part)
      BY <1>3, <2>2 DEF See
    <3> QED
      BY <1>3, <2>2, <3>1, <3>2, AdvanceIs DEF See, At
  <2>3. CASE ~Started[resize.part] /\ resize.part = "broadcast"
    <3>1. ~live /\ bMu = None
      BY <1>3, <2>3, StartedIs DEF See, MayAsk
    <3>2. \A a \in Admins : req[a].pc # "url"
      BY <3>1
    <3>3. /\ pipe["broadcast"] # None =>
                /\ pipe'["broadcast"] # None
                /\ pipe'["broadcast"].orphan = pipe["broadcast"].orphan
          /\ pipe["broadcast"] = None => pipe'["broadcast"] = None
      BY <1>3, <2>3, Marked DEF See
    <3>4. UNCHANGED <<live, req>>
      BY <1>3 DEF See
    <3> QED
      BY <3>1, <3>2, <3>3, <3>4
  <2> QED
    BY <2>1, <2>2, <2>3
<1>4. CASE DestroyForResize
  BY <1>4 DEF DestroyForResize, At, Advance, NextPart
<1>5. CASE Recreate
  <2>1. CASE pipe[resize.part] # None
    <3>1. resize' = Advance("after", resize.part) /\ pipe' = pipe
      BY <1>5, <2>1 DEF Recreate
    <3> QED
      BY <1>5, <2>1, <3>1, AdvanceIs DEF Recreate, At
  <2>2. CASE pipe[resize.part] = None /\ resize.part # "broadcast"
    <3>1. /\ pipe'["broadcast"] = pipe["broadcast"]
          /\ resize' \in {Advance("after", resize.part),
                          [resize EXCEPT !.act = "first"]}
      BY <1>5, <2>2 DEF Recreate
    <3> QED
      BY <1>5, <2>2, <3>1, AdvanceIs DEF Recreate, At
  <2>3. CASE pipe[resize.part] = None /\ resize.part = "broadcast"
    <3>1. pipe'["broadcast"] = Created(url, ~Started["broadcast"])
      BY <1>5, <2>3 DEF Recreate
    <3>2. /\ pipe'["broadcast"] # None
          /\ ~live => pipe'["broadcast"].orphan
      <4> DEFINE o == ~Started["broadcast"]
      <4>1. o \in BOOLEAN /\ (~live => o)
        BY StartedIs
      <4>2. pipe'["broadcast"] = Created(url, o)
        BY <3>1
      <4> HIDE DEF o
      <4>3. Created(url, o) # None /\ Created(url, o).orphan = o
        BY <4>1, CreatedIs
      <4> QED
        BY <4>1, <4>2, <4>3
    <3> QED
      BY <1>5, <2>3, <3>2 DEF Recreate
  <2> QED
    BY <2>1, <2>2, <2>3
<1>6. CASE RecreatePanics
  BY <1>6 DEF RecreatePanics
<1>7. ASSUME NEW s \in Sizes, NEW ok \in BOOLEAN, Change(s, ok)
      PROVE BroadcastRuns'
  BY <1>7 DEF Change, At, Advance, NextPart
<1>8. ASSUME NEW a \in Admins, BroadcastCreate(a) PROVE BroadcastRuns'
  <2>1. pipe'["broadcast"] = Created(url, FALSE) /\ req'[a].pc = "url"
    BY <1>8 DEF BroadcastCreate
  <2>2. Created(url, FALSE) # None
    BY CreatedIs
  <2> QED
    BY <2>1, <2>2
<1>9. ASSUME NEW a \in Admins, BroadcastFails(a) PROVE BroadcastRuns'
  BY <1>9 DEF BroadcastFails
<1>10. ASSUME NEW a \in Admins, BroadcastStarted(a) PROVE BroadcastRuns'
  BY <1>10 DEF BroadcastStarted
<1>11. ASSUME NEW a \in Admins, BroadcastStop(a) PROVE BroadcastRuns'
  BY <1>11 DEF BroadcastStop
<1>12. ASSUME NEW a \in Admins, SendStatus(a) PROVE BroadcastRuns'
  BY <1>12 DEF SendStatus
<1>13. ASSUME NEW a \in Admins, StopRequest(a) PROVE BroadcastRuns'
  BY <1>13 DEF StopRequest
<1>14. ASSUME NEW a \in Admins, NEW u \in Urls, StartRequest(a, u)
       PROVE BroadcastRuns'
  BY <1>14 DEF StartRequest
<1>15. ASSUME NEW v \in Viewers, CastRuns(v) PROVE BroadcastRuns'
  BY <1>15 DEF CastRuns
<1>16. ASSUME NEW v \in Viewers, CastCreate(v) PROVE BroadcastRuns'
  BY <1>16 DEF CastCreate
<1>17. ASSUME NEW v \in Viewers, CastFails(v) PROVE BroadcastRuns'
  BY <1>17 DEF CastFails
<1>18. ASSUME NEW v \in Viewers, ReturnImage(v) PROVE BroadcastRuns'
  BY <1>18 DEF ReturnImage
<1>19. ASSUME NEW v \in Viewers, ImageRequest(v) PROVE BroadcastRuns'
  BY <1>19 DEF ImageRequest
<1>20. CASE FirstImage
  <2>1. pipe'["broadcast"] = pipe["broadcast"]
    BY <1>20 DEF FirstImage
  <2>2. first = "resize" => ~Taken("broadcast") \/ down # "up"
    BY DEF Waiting, At
  <2>3. resize' = IF first = "resize" THEN Idle ELSE resize
    BY <1>20 DEF FirstImage
  <2> QED
    BY <1>20, <2>1, <2>2, <2>3 DEF FirstImage
<1>21. CASE FirstImageLate
  BY <1>21 DEF FirstImageLate
<1>22. CASE Receive
  BY <1>22 DEF Receive
<1>23. CASE Store
  BY <1>23 DEF Store
<1>24. CASE Tick
  BY <1>24 DEF Tick
<1>25. CASE Mark
  BY <1>25 DEF Mark
<1>26. CASE CastStop
  BY <1>26 DEF CastStop
<1>27. CASE TickerEnds
  BY <1>27 DEF TickerEnds
<1>28. ASSUME NEW t \in Tracks, Add(t) PROVE BroadcastRuns'
  BY <1>28 DEF Add
<1>29. ASSUME NEW t \in Tracks, StopSink(t) PROVE BroadcastRuns'
  BY <1>29 DEF StopSink
<1>30. ASSUME NEW t \in Tracks, AddListener(t) PROVE BroadcastRuns'
  BY <1>30 DEF AddListener
<1>31. ASSUME NEW t \in Tracks, RemoveListener(t) PROVE BroadcastRuns'
  BY <1>31 DEF RemoveListener
<1>32. CASE ShutBroadcast
  BY <1>32 DEF ShutBroadcast, NoRequest
<1>33. CASE ShutScreencast
  BY <1>33 DEF ShutScreencast
<1>34. CASE WaitScreencast
  BY <1>34 DEF WaitScreencast
<1>35. CASE ShutVideo
  BY <1>35 DEF ShutVideo
<1> QED
  BY <1>1, <1>2, <1>3, <1>4, <1>5, <1>6, <1>7, <1>8, <1>9, <1>10, <1>11,
     <1>12, <1>13, <1>14, <1>15, <1>16, <1>17, <1>18, <1>19, <1>20,
     <1>21, <1>22, <1>23, <1>24, <1>25, <1>26, <1>27, <1>28, <1>29,
     <1>30, <1>31, <1>32, <1>33, <1>34, <1>35
     DEF Next, Resizing, Admin, Viewer, Ticker, Track, Shutdown

\* The pipeline mutex is kept while an image is waited for, so nobody takes
\* that pipeline away.
LEMMA ScreencastStep ==
    Places /\ ScreencastRuns /\ [Next]_vars => ScreencastRuns'
<1> SUFFICES ASSUME Places /\ ScreencastRuns, [Next]_vars
             PROVE  ScreencastRuns'
  OBVIOUS
<1> USE CaptureAssumption DEF Places, Parts, ScreencastRuns, Taken, Handled,
      screenVars, castVars, bcastVars, sinkVars, Stopped, Idle
<1>1. CASE UNCHANGED vars
  BY <1>1 DEF vars
<1>2. CASE BeginResize
  BY <1>2 DEF BeginResize, At, Advance, NextPart
<1>3. CASE See
  <2>1. CASE Started[resize.part]
    BY <1>3, <2>1 DEF See
  <2>2. CASE ~Started[resize.part] /\ resize.part # "screencast"
    <3>1. pipe'["screencast"] = pipe["screencast"]
      BY <1>3, <2>2 DEF See
    <3>2. resize' = Advance(resize.phase, resize.part)
      BY <1>3, <2>2 DEF See
    <3> QED
      BY <1>3, <2>2, <3>1, <3>2, AdvanceIs DEF See, At
  <2>3. CASE ~Started[resize.part] /\ resize.part = "screencast"
    <3>1. ~viewing
      BY <2>3, StartedIs
    <3>2. /\ pipe["screencast"] # None =>
                /\ pipe'["screencast"] # None
                /\ pipe'["screencast"].orphan = pipe["screencast"].orphan
                /\ pipe'["screencast"].reads = pipe["screencast"].reads
          /\ pipe["screencast"] = None => pipe'["screencast"] = None
      BY <1>3, <2>3, Marked DEF See
    <3>3. UNCHANGED <<viewing, first>>
      BY <1>3 DEF See
    <3> QED
      BY <3>1, <3>2, <3>3
  <2> QED
    BY <2>1, <2>2, <2>3
<1>4. CASE DestroyForResize
  BY <1>4 DEF DestroyForResize, At, Advance, NextPart, PipeFree
<1>5. CASE Recreate
  <2>1. CASE pipe[resize.part] # None
    <3>1. resize' = Advance("after", resize.part) /\ pipe' = pipe
      BY <1>5, <2>1 DEF Recreate
    <3> QED
      BY <1>5, <2>1, <3>1, AdvanceIs DEF Recreate, At
  <2>2. CASE pipe[resize.part] = None /\ resize.part # "screencast"
    <3>1. /\ pipe'["screencast"] = pipe["screencast"]
          /\ first' = first
          /\ resize' = Advance("after", resize.part)
      BY <1>5, <2>2 DEF Recreate
    <3> QED
      BY <1>5, <2>2, <3>1, AdvanceIs DEF Recreate, At
  <2>3. CASE pipe[resize.part] = None /\ resize.part = "screencast"
    <3>1. pipe'["screencast"] = Created(None, ~Started["screencast"])
      BY <1>5, <2>3 DEF Recreate
    <3>2. /\ pipe'["screencast"] # None
          /\ ~viewing => pipe'["screencast"].orphan
      <4> DEFINE o == ~Started["screencast"]
      <4>1. o \in BOOLEAN /\ (~viewing => o)
        BY StartedIs
      <4>2. pipe'["screencast"] = Created(None, o)
        BY <3>1
      <4> HIDE DEF o
      <4>3. Created(None, o) # None /\ Created(None, o).orphan = o
        BY <4>1, CreatedIs
      <4> QED
        BY <4>1, <4>2, <4>3
    <3>3. UNCHANGED viewing
      BY <1>5 DEF Recreate
    <3> QED
      BY <3>2, <3>3
  <2> QED
    BY <2>1, <2>2, <2>3
<1>6. CASE RecreatePanics
  BY <1>6 DEF RecreatePanics
<1>7. ASSUME NEW s \in Sizes, NEW ok \in BOOLEAN, Change(s, ok)
      PROVE ScreencastRuns'
  BY <1>7 DEF Change, At, Advance, NextPart
<1>8. ASSUME NEW a \in Admins, BroadcastCreate(a) PROVE ScreencastRuns'
  BY <1>8 DEF BroadcastCreate
<1>9. ASSUME NEW a \in Admins, BroadcastFails(a) PROVE ScreencastRuns'
  BY <1>9 DEF BroadcastFails
<1>10. ASSUME NEW a \in Admins, BroadcastStarted(a) PROVE ScreencastRuns'
  BY <1>10 DEF BroadcastStarted
<1>11. ASSUME NEW a \in Admins, BroadcastStop(a) PROVE ScreencastRuns'
  BY <1>11 DEF BroadcastStop
<1>12. ASSUME NEW a \in Admins, SendStatus(a) PROVE ScreencastRuns'
  BY <1>12 DEF SendStatus
<1>13. ASSUME NEW a \in Admins, StopRequest(a) PROVE ScreencastRuns'
  BY <1>13 DEF StopRequest
<1>14. ASSUME NEW a \in Admins, NEW u \in Urls, StartRequest(a, u)
       PROVE ScreencastRuns'
  BY <1>14 DEF StartRequest
<1>15. ASSUME NEW v \in Viewers, CastRuns(v) PROVE ScreencastRuns'
  BY <1>15 DEF CastRuns
<1>16. ASSUME NEW v \in Viewers, CastCreate(v) PROVE ScreencastRuns'
  <2> DEFINE new == Created(None, FALSE)
  <2>1. /\ pipe'["screencast"] = new
        /\ first' # "resize" /\ UNCHANGED <<viewing, resize, down>>
    BY <1>16 DEF CastCreate
  <2>2. new # None /\ ~new.reads
    BY CreatedIs
  <2> HIDE DEF new
  <2> QED
    BY <2>1, <2>2
<1>17. ASSUME NEW v \in Viewers, CastFails(v) PROVE ScreencastRuns'
  BY <1>17 DEF CastFails
<1>18. ASSUME NEW v \in Viewers, ReturnImage(v) PROVE ScreencastRuns'
  BY <1>18 DEF ReturnImage
<1>19. ASSUME NEW v \in Viewers, ImageRequest(v) PROVE ScreencastRuns'
  BY <1>19 DEF ImageRequest
<1>20. CASE FirstImage
  <2>1. /\ pipe'["screencast"] # None
        /\ pipe'["screencast"].orphan = pipe["screencast"].orphan
    BY <1>20, Read DEF FirstImage
  <2>2. CASE first = "resize"
    BY <1>20, <2>1, <2>2 DEF FirstImage
  <2>3. CASE first # "resize"
    BY <1>20, <2>1, <2>3 DEF FirstImage
  <2> QED
    BY <2>2, <2>3
<1>21. CASE FirstImageLate
  BY <1>21 DEF FirstImageLate
<1>22. CASE Receive
  BY <1>22 DEF Receive
<1>23. CASE Store
  BY <1>23 DEF Store
<1>24. CASE Tick
  BY <1>24 DEF Tick
<1>25. CASE Mark
  BY <1>25 DEF Mark
<1>26. CASE CastStop
  BY <1>26 DEF CastStop
<1>27. CASE TickerEnds
  BY <1>27 DEF TickerEnds
<1>28. ASSUME NEW t \in Tracks, Add(t) PROVE ScreencastRuns'
  BY <1>28 DEF Add
<1>29. ASSUME NEW t \in Tracks, StopSink(t) PROVE ScreencastRuns'
  BY <1>29 DEF StopSink
<1>30. ASSUME NEW t \in Tracks, AddListener(t) PROVE ScreencastRuns'
  BY <1>30 DEF AddListener
<1>31. ASSUME NEW t \in Tracks, RemoveListener(t) PROVE ScreencastRuns'
  BY <1>31 DEF RemoveListener
<1>32. CASE ShutBroadcast
  BY <1>32 DEF ShutBroadcast
<1>33. CASE ShutScreencast
  BY <1>33 DEF ShutScreencast
<1>34. CASE WaitScreencast
  BY <1>34 DEF WaitScreencast
<1>35. CASE ShutVideo
  BY <1>35 DEF ShutVideo
<1> QED
  BY <1>1, <1>2, <1>3, <1>4, <1>5, <1>6, <1>7, <1>8, <1>9, <1>10, <1>11,
     <1>12, <1>13, <1>14, <1>15, <1>16, <1>17, <1>18, <1>19, <1>20,
     <1>21, <1>22, <1>23, <1>24, <1>25, <1>26, <1>27, <1>28, <1>29,
     <1>30, <1>31, <1>32, <1>33, <1>34, <1>35
     DEF Next, Resizing, Admin, Viewer, Ticker, Track, Shutdown

\* Only the resize itself moves on from its wait.
LEMMA WaitingStep ==
    Places /\ Waiting /\ [Next]_vars => Waiting'
<1> SUFFICES ASSUME Places /\ Waiting, [Next]_vars
             PROVE  Waiting'
  OBVIOUS
<1> USE CaptureAssumption DEF Places, Parts, Waiting,
      screenVars, castVars, bcastVars, sinkVars, Idle, At
<1>1. CASE UNCHANGED vars
  BY <1>1 DEF vars
<1>2. CASE BeginResize
  BY <1>2 DEF BeginResize, At, Advance, NextPart
<1>3. CASE See
  BY <1>3 DEF See, At, Advance, NextPart
<1>4. CASE DestroyForResize
  BY <1>4 DEF DestroyForResize, At, Advance, NextPart
<1>5. CASE Recreate
  BY <1>5 DEF Recreate, At, Advance, NextPart
<1>6. CASE RecreatePanics
  BY <1>6 DEF RecreatePanics
<1>7. ASSUME NEW s \in Sizes, NEW ok \in BOOLEAN, Change(s, ok) PROVE Waiting'
  BY <1>7 DEF Change, At, Advance, NextPart
<1>8. ASSUME NEW a \in Admins, BroadcastCreate(a) PROVE Waiting'
  BY <1>8 DEF BroadcastCreate
<1>9. ASSUME NEW a \in Admins, BroadcastFails(a) PROVE Waiting'
  BY <1>9 DEF BroadcastFails
<1>10. ASSUME NEW a \in Admins, BroadcastStarted(a) PROVE Waiting'
  BY <1>10 DEF BroadcastStarted
<1>11. ASSUME NEW a \in Admins, BroadcastStop(a) PROVE Waiting'
  BY <1>11 DEF BroadcastStop
<1>12. ASSUME NEW a \in Admins, SendStatus(a) PROVE Waiting'
  BY <1>12 DEF SendStatus
<1>13. ASSUME NEW a \in Admins, StopRequest(a) PROVE Waiting'
  BY <1>13 DEF StopRequest
<1>14. ASSUME NEW a \in Admins, NEW u \in Urls, StartRequest(a, u)
       PROVE Waiting'
  BY <1>14 DEF StartRequest
<1>15. ASSUME NEW v \in Viewers, CastRuns(v) PROVE Waiting'
  BY <1>15 DEF CastRuns
<1>16. ASSUME NEW v \in Viewers, CastCreate(v) PROVE Waiting'
  BY <1>16 DEF CastCreate
<1>17. ASSUME NEW v \in Viewers, CastFails(v) PROVE Waiting'
  BY <1>17 DEF CastFails
<1>18. ASSUME NEW v \in Viewers, ReturnImage(v) PROVE Waiting'
  BY <1>18 DEF ReturnImage
<1>19. ASSUME NEW v \in Viewers, ImageRequest(v) PROVE Waiting'
  BY <1>19 DEF ImageRequest
<1>20. CASE FirstImage
  BY <1>20 DEF FirstImage
<1>21. CASE FirstImageLate
  BY <1>21 DEF FirstImageLate
<1>22. CASE Receive
  BY <1>22 DEF Receive
<1>23. CASE Store
  BY <1>23 DEF Store
<1>24. CASE Tick
  BY <1>24 DEF Tick
<1>25. CASE Mark
  BY <1>25 DEF Mark
<1>26. CASE CastStop
  BY <1>26 DEF CastStop
<1>27. CASE TickerEnds
  BY <1>27 DEF TickerEnds
<1>28. ASSUME NEW t \in Tracks, Add(t) PROVE Waiting'
  BY <1>28 DEF Add
<1>29. ASSUME NEW t \in Tracks, StopSink(t) PROVE Waiting'
  BY <1>29 DEF StopSink
<1>30. ASSUME NEW t \in Tracks, AddListener(t) PROVE Waiting'
  BY <1>30 DEF AddListener
<1>31. ASSUME NEW t \in Tracks, RemoveListener(t) PROVE Waiting'
  BY <1>31 DEF RemoveListener
<1>32. CASE ShutBroadcast
  BY <1>32 DEF ShutBroadcast
<1>33. CASE ShutScreencast
  BY <1>33 DEF ShutScreencast
<1>34. CASE WaitScreencast
  BY <1>34 DEF WaitScreencast
<1>35. CASE ShutVideo
  BY <1>35 DEF ShutVideo
<1> QED
  BY <1>1, <1>2, <1>3, <1>4, <1>5, <1>6, <1>7, <1>8, <1>9, <1>10, <1>11,
     <1>12, <1>13, <1>14, <1>15, <1>16, <1>17, <1>18, <1>19, <1>20,
     <1>21, <1>22, <1>23, <1>24, <1>25, <1>26, <1>27, <1>28, <1>29,
     <1>30, <1>31, <1>32, <1>33, <1>34, <1>35
     DEF Next, Resizing, Admin, Viewer, Ticker, Track, Shutdown

-----------------------------------------------------------------------------
(* The inductive invariant and what follows from it. *)

LEMMA InitIInv == Init => IInv
<1> SUFFICES ASSUME Init PROVE IInv
  OBVIOUS
<1> USE CaptureAssumption DEF Init, BroadcastNew, ScreencastNew, Idle, Quiet
<1>1. url \in Urls \cup {None} /\ screen \in Sizes /\ resize.phase = "idle"
  OBVIOUS
<1>2. /\ Created(url, FALSE) \in Pipes /\ Created(url, FALSE) # None
      /\ Created(url, FALSE).size = screen
  BY <1>1, CreatedIs
<1>3. /\ pipe \in [Parts -> Pipes \cup {None}]
      /\ pipe["video"] = None /\ pipe["screencast"] = None
      /\ live => pipe["broadcast"] # None
      /\ ~live => pipe["broadcast"] = None
      /\ \A p \in Parts : pipe[p] # None => pipe[p].size = screen
  BY <1>2 DEF Parts
<1>4. Flags
  BY DEF Flags
<1>5. Places
  <2>1. req \in [Admins -> [pc : {"idle", "start", "url", "stop", "status"},
                            url : Urls \cup {None}]]
    OBVIOUS
  <2> QED
    BY <1>1, <1>3, <2>1 DEF Places, Parts
<1>6. Fits
  BY <1>3 DEF Fits
<1>7. Alone /\ Waiting
  BY DEF Alone, Waiting
<1>8. VideoRuns /\ ScreencastRuns
  BY <1>3 DEF VideoRuns, ScreencastRuns
<1>9. BroadcastRuns
  BY <1>3 DEF BroadcastRuns
<1> QED
  BY <1>4, <1>5, <1>6, <1>7, <1>8, <1>9 DEF IInv, TypeOK

LEMMA InductiveInvariant == Spec => []IInv
<1>1. IInv /\ [Next]_vars => IInv'
  BY FlagsStep, PlacesStep, FitsStep, AloneStep, WaitingStep, VideoStep,
     BroadcastStep, ScreencastStep
     DEF IInv, TypeOK
<1> QED
  BY InitIInv, <1>1, PTL DEF Spec

\* The variables stay in their types.
THEOREM CaptureTypes == Spec => []TypeOK
<1>1. IInv => TypeOK
  BY DEF IInv
<1> QED
  BY InductiveInvariant, <1>1, PTL

\* When nothing is under way, a part runs a pipeline exactly when it is
\* started, but for the exceptions RunsAsStarted names, and who waits for a
\* first image waits at a pipeline that is not taken away.
THEOREM RunsAsStartedCorrect == Spec => []RunsAsStarted
<1>1. IInv => RunsAsStarted
  <2> SUFFICES ASSUME IInv PROVE RunsAsStarted
    OBVIOUS
  <2>1. first # None => pipe["screencast"] # None
    BY DEF IInv, ScreencastRuns
  <2>2. ASSUME AtRest, NEW p \in Parts
        PROVE  /\ Started[p] => pipe[p] # None \/ (p = "video" /\ lost)
               /\ pipe[p] # None => \/ Started[p] \/ pipe[p].orphan
                                    \/ p = "screencast" /\ ~pipe[p].reads
    <3>1. \A q \in Parts : ~Taken(q)
      BY <2>2 DEF AtRest, Taken
    <3>2. CASE p = "video"
      BY <2>2, <3>1, <3>2, StartedIs DEF IInv, VideoRuns, AtRest
    <3>3. CASE p = "broadcast"
      BY <2>2, <3>1, <3>3, StartedIs DEF IInv, BroadcastRuns, AtRest
    <3>4. CASE p = "screencast"
      BY <2>2, <3>1, <3>4, StartedIs DEF IInv, ScreencastRuns, AtRest
    <3> QED
      BY <3>2, <3>3, <3>4 DEF Parts
  <2> QED
    BY <2>1, <2>2 DEF RunsAsStarted
<1> QED
  BY InductiveInvariant, <1>1, PTL

\* When no resize is under way, every pipeline captures the screen of its
\* present size, but for those that the resize could not see.
THEOREM FitsScreenCorrect == Spec => []FitsScreen
<1>1. IInv => FitsScreen
  BY DEF IInv, Fits, FitsScreen
<1> QED
  BY InductiveInvariant, <1>1, PTL
=============================================================================
