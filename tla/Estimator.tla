------------------------------- MODULE Estimator -------------------------------
(***************************************************************************)
(* Which video stream a peer is sent: the selections of GetStream          *)
(* (capture/streamselector.go), the trend of the bandwidth that pion       *)
(* estimates (pkg/utils/trenddetector.go) and WebRTCPeerCtx's              *)
(* estimatorReader, which asks for a lower or a higher stream.             *)
(*                                                                         *)
(* Time is counted in ticks of ReadInterval: an age says how many ticks    *)
(* ago the reader noted a time, and stops growing when it exceeds every    *)
(* duration it is compared with.  Times that were never noted (the zero    *)
(* time.Time) are that old.                                                *)
(***************************************************************************)
EXTENDS Integers, Sequences, FiniteSets

CONSTANTS StreamIDs,        \* manager.streamIDs, in their order
          Rates,            \* bitrates that the sinks may have measured
          Followed,         \* those with which the reader is followed
          Targets,          \* bitrates that pion may estimate
          RequiredSamples,
          Percent,          \* 100 * (1 + conf.DiffThreshold), which is less than
                            \* 100 when it is negative
          StableDuration, UnstableDuration, StalledDuration,
          DowngradeBackoff, UpgradeBackoff, MaxAge

Streams == {StreamIDs[i] : i \in DOMAIN StreamIDs}

\* A selection of GetStream that finds no stream.
None == "none"

ASSUME EstimatorAssumption ==
    /\ StreamIDs \in Seq(Streams) /\ StreamIDs # <<>>
    /\ Cardinality(Streams) = Len(StreamIDs) /\ None \notin Streams
    /\ Rates \subseteq Nat /\ Targets \subseteq Nat
    /\ Rates # {} /\ Targets # {}
    /\ Followed \subseteq [Streams -> Rates]
    /\ RequiredSamples \in Nat \ {0} /\ Percent \in Int
    /\ \A d \in {StableDuration, UnstableDuration, StalledDuration,
                 DowngradeBackoff, UpgradeBackoff} : d \in 0..(MaxAge - 1)

VARIABLES
    rate,       \* the Bitrate() of each stream, 0 if not measured
    started,    \* the streams that are Started()
    stream,     \* the stream of the peer's video track
    auto,       \* videoAuto is on, the video is neither disabled nor paused,
                \* and the estimator is not Passive
    target,     \* the estimate
    values,     \* the trend detector's values
    direction,  \* and what it says
    age,        \* how long ago each time was noted
    low         \* history: since when the trend is neutral with an estimate
                \* that leaves no room above the stream

estimatorVars == <<rate, started, stream, auto, target, values, direction, age,
                   low>>

Times == {"stable", "unstable", "stalled", "upgrade", "downgrade"}
Directions == {"neutral", "upward", "downward"}

EstimatorTypeOK ==
    /\ rate \in [Streams -> Rates]
    /\ started \subseteq Streams
    /\ stream \in Streams
    /\ auto \in BOOLEAN
    /\ target \in Targets
    /\ values \in Seq(Targets) /\ Len(values) <= RequiredSamples
    /\ direction \in Directions
    /\ age \in [Times -> 0..MaxAge]
    /\ low \in 0..MaxAge

-----------------------------------------------------------------------------
\* GetStream.

Position(s) == CHOOSE i \in DOMAIN StreamIDs : StreamIDs[i] = s

\* By ID: from the end, the one visited before the stream itself...
LowerByID(s) ==
    IF Position(s) = Len(StreamIDs) THEN None ELSE StreamIDs[Position(s) + 1]

\* ... and from the front.
HigherByID(s) ==
    IF Position(s) = 1 THEN None ELSE StreamIDs[Position(s) - 1]

Considered(s) == rate[s] # 0 /\ s \in started

\* By bitrate: from the end the first that is lower...
LowerByRate(b) ==
    LET lower == {i \in DOMAIN StreamIDs :
                     Considered(StreamIDs[i]) /\ rate[StreamIDs[i]] < b}
    IN IF lower = {} THEN None
       ELSE StreamIDs[CHOOSE i \in lower : \A j \in lower : j <= i]

\* ... and from the front the first that is higher.
HigherByRate(b) ==
    LET higher == {i \in DOMAIN StreamIDs :
                      Considered(StreamIDs[i]) /\ rate[StreamIDs[i]] > b}
    IN IF higher = {} THEN None
       ELSE StreamIDs[CHOOSE i \in higher : \A j \in higher : i <= j]

\* sortDiff of nearestBitrate, on the differences b - rate: those that are not
\* negative come first, each kind from the smallest difference on.
SortsFirst(b, s, t) ==
    IF rate[s] > b THEN rate[t] > b /\ rate[s] < rate[t]
    ELSE rate[t] <= b => rate[s] >= rate[t]

\* mutant of NearestByRate: the streams that are not measured are sorted too
NearestOfAll(b) ==
    {s \in Streams : \A t \in Streams \ {s} :
                         SortsFirst(b, s, t) \/ ~SortsFirst(b, t, s)}

\* Equal bitrates may come in any order; with nothing to sort it is the first.
NearestByRate(b) ==
    LET diffs == {s \in Streams : Considered(s)}
    IN IF diffs = {} THEN {StreamIDs[1]}
       ELSE {s \in diffs : \A t \in diffs \ {s} :
                               SortsFirst(b, s, t) \/ ~SortsFirst(b, t, s)}

-----------------------------------------------------------------------------
\* TrendDetector

\* AddValue: a duplicate of the last value is ignored.
Added(v) ==
    IF values # <<>> /\ values[Len(values)] = v THEN values
    ELSE Append(IF Len(values) = RequiredSamples THEN Tail(values) ELSE values,
                v)

\* Pairs of values of which the first is in that relation to the second.
PairsOf(vs) == {p \in (DOMAIN vs) \X (DOMAIN vs) : p[1] < p[2]}
Rising(vs) == {p \in PairsOf(vs) : vs[p[1]] < vs[p[2]]}
Falling(vs) == {p \in PairsOf(vs) : vs[p[1]] > vs[p[2]]}

\* updateDirection with Kendall's tau, (c - d) / (c + d), against 0 and -0.5.
Trend(vs) ==
    LET c == Cardinality(Rising(vs))
        d == Cardinality(Falling(vs))
    IN IF Len(vs) < RequiredSamples THEN "neutral"
       ELSE IF c > d THEN "upward"
       ELSE IF 3 * c < d THEN "downward" ELSE "neutral"

-----------------------------------------------------------------------------
EstimatorInit ==
    /\ rate \in [Streams -> Rates]
    /\ started \in SUBSET Streams
    /\ stream \in Streams
    /\ auto = FALSE
    /\ target \in Targets
    /\ values = <<>>
    /\ direction = "neutral"
    /\ age = [t \in Times |-> IF t = "stable" THEN 0 ELSE MaxAge]
    /\ low = 0

Up(n) == IF n = MaxAge THEN n ELSE n + 1

Older == [t \in Times |-> Up(age[t])]

\* SetVideo of a client, or SetPaused: the estimation is switched on or off.
SetAuto ==
    /\ rate \in Followed /\ started = Streams
    /\ auto' = ~auto
    /\ UNCHANGED <<rate, started, stream, target, values, direction, age, low>>

\* A tick of which the reader makes nothing; time passes.
Skip ==
    /\ ~auto
    /\ rate \in Followed /\ started = Streams
    /\ age' = Older
    /\ low' = Up(low)
    /\ UNCHANGED <<rate, started, stream, auto, target, values, direction>>

\* The trend gets the estimate, but the stream has no bitrate yet, or the track
\* no stream, as before the first SetVideo.
Wait ==
    /\ auto /\ rate[stream] = 0
    /\ target' \in Targets
    /\ values' = Added(target')
    /\ direction' = IF values' = values THEN direction ELSE Trend(values')
    /\ age' = Older
    /\ low' = 0
    /\ UNCHANGED <<rate, started, stream, auto>>

\* diff > 1 + conf.DiffThreshold
Room(t) == 100 * t > Percent * rate[stream]

\* The estimate t has come with the direction dir; the times that this sets
\* before anything is decided.
Noted(t, dir) ==
    [Older EXCEPT !["stalled"] =
         IF dir # "neutral" \/ Room(t) THEN 0 ELSE Older["stalled"]]

Congesting(t, dir) ==
    dir = "downward" \/ (dir = "neutral"
                         /\ Noted(t, dir)["stalled"] > StalledDuration)

\* The estimate is compared with the bitrate unless the threshold is negative.
\* mutant of MayDowngrade: it is never compared
MayDowngradeAnyway(t) ==
    /\ Older["downgrade"] >= DowngradeBackoff
    /\ Older["unstable"] >= UnstableDuration

MayDowngrade(t) ==
    /\ Older["downgrade"] >= DowngradeBackoff
    /\ Older["unstable"] >= UnstableDuration
    /\ Percent >= 100 => ~Room(t)

MayUpgrade(t) ==
    /\ Older["upgrade"] >= UpgradeBackoff
    /\ Older["stable"] >= StableDuration
    /\ Percent >= 100 => 100 * t >= Percent * rate[stream]

\* SetVideo with a selector; an error leaves the stream.
Select(s) == stream' = IF s = None THEN stream ELSE s

Congested ==
    LET noted == Noted(target', direction') IN
    /\ Congesting(target', direction')
    /\ IF MayDowngrade(target')
       THEN /\ Select(LowerByID(stream))
            /\ age' = [noted EXCEPT !["stable"] = 0, !["downgrade"] = 0]
       ELSE /\ stream' = stream
            /\ age' = [noted EXCEPT !["stable"] = 0]

NotCongested ==
    LET noted == Noted(target', direction') IN
    /\ ~Congesting(target', direction')
    /\ IF MayUpgrade(target')
       THEN /\ Select(HigherByID(stream))
            /\ age' = [noted EXCEPT !["unstable"] = 0, !["upgrade"] = 0]
       ELSE /\ stream' = stream
            /\ age' = [noted EXCEPT !["unstable"] = 0]

Read ==
    /\ auto /\ rate[stream] # 0
    /\ target' \in Targets
    /\ values' = Added(target')
    /\ direction' = IF values' = values THEN direction ELSE Trend(values')
    /\ Congested \/ NotCongested
    /\ low' = IF direction' = "neutral" /\ ~Room(target') THEN Up(low) ELSE 0
    /\ UNCHANGED <<rate, started, auto>>

EstimatorNext == SetAuto \/ Skip \/ Wait \/ Read

-----------------------------------------------------------------------------
\* The bitrates rise with the position, which the comments of GetStream take
\* for granted ("start from the highest stream, and go down" from the end).
Ascending == \A i, j \in DOMAIN StreamIDs :
                i < j => rate[StreamIDs[i]] < rate[StreamIDs[j]]

\* When they do, a selection by bitrate finds the nearest stream below or above
\* among those that run and are measured, and the nearest one is the best that
\* fits or, failing that, the least that does not (streamselector.go,
\* GetStream and nearestBitrate).
SelectsNearest ==
    LET running == {s \in Streams : Considered(s)} IN
    Ascending => \A b \in Rates \ {0} :
        /\ LET l == LowerByRate(b)
               below == {s \in running : rate[s] < b}
           IN IF l = None THEN below = {}
              ELSE l \in below /\ \A s \in below : rate[s] <= rate[l]
        /\ LET h == HigherByRate(b)
               above == {s \in running : rate[s] > b}
           IN IF h = None THEN above = {}
              ELSE h \in above /\ \A s \in above : rate[s] >= rate[h]
        /\ \A n \in NearestByRate(b), s \in running :
              /\ n \in running
              /\ rate[n] <= b => rate[s] > b \/ rate[s] <= rate[n]
              /\ rate[n] > b => rate[s] >= rate[n]

\* Where the first ID is that of the highest stream, the estimator takes a
\* stream with a higher bitrate only when the estimate has room above the
\* present one, and one with a lower bitrate only when it has none, unless a
\* negative threshold says that it need not.
Descending == \A i, j \in DOMAIN StreamIDs :
                 i < j => rate[StreamIDs[i]] > rate[StreamIDs[j]]

ChangesFitEstimate ==
    [][Percent >= 100 /\ Descending /\ stream' # stream =>
          IF rate[stream'] > rate[stream]
          THEN 100 * target' >= Percent * rate[stream]
          ELSE 100 * target' <= Percent * rate[stream]]_estimatorVars

\* Where the last ID is that of the highest stream, a downgrade does not lead
\* to a stream with a higher bitrate (pkg/types/capture.go: "if exact stream is
\* found select the next lower stream").
DowngradesLower ==
    [][Ascending /\ Read /\ age'["downgrade"] = 0
          => rate[stream'] <= rate[stream]]_estimatorVars

\* In a neutral trend a stream is downgraded only when it was neutral, with
\* the estimate too low, for longer than StalledDuration (config/webrtc.go: "how
\* long to wait for stalled connection ... before downgrading").
StalledLongEnough ==
    [][direction' = "neutral" /\ age'["downgrade"] = 0 /\ Read
          => low' > StalledDuration]_estimatorVars
=============================================================================
