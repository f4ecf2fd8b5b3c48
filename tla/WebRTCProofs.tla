----------------------------- MODULE WebRTCProofs -----------------------------
(***************************************************************************)
(* For any number of peers, message loops, remote tracks, data channels,   *)
(* cursors and streams: the safety properties of the parts of WebRTC.      *)
(***************************************************************************)
EXTENDS WebRTC, FiniteSetTheorems, WellFoundedInduction, TLAPS

\* Each part of a behaviour is a behaviour of that part.
LEMMA PartsFact ==
    /\ Init => PeersInit /\ MediaInit /\ CursorsInit /\ EstimatorInit
    /\ [Next]_webrtcVars => /\ [PeersNext]_peersVars /\ [MediaNext]_mediaVars
                            /\ [CursorsNext]_cursorVars
                            /\ [EstimatorNext]_estimatorVars
BY DEF Init, Next, webrtcVars

-----------------------------------------------------------------------------
(***************************************************************************)
(* The shared source.  A track that feeds it has still to stop it, or one  *)
(* that has marked it stopped is about to.                                 *)
(***************************************************************************)
Owns(t) == remote[t].pc \in {"reads", "stop", "mark"} /\ remote[t].of = t

Owned ==
    /\ source \in RemoteTracks \cup {NoTrack}
    /\ source # NoTrack /\ ~belated =>
          \/ source \notin stopped /\ Owns(source)
          \/ \E u \in RemoteTracks : At(u, "halt") /\ remote[u].of = source

Places == {"no", "look", "call", "stop", "mark", "halt", "set", "start",
           "reads", "over"}

RemoteTypes ==
    remote \in [RemoteTracks -> [pc : Places, of : RemoteTracks \cup {NoTrack}]]

MediaInv == micStop \in RemoteTracks \cup {NoTrack} /\ RemoteTypes /\ Owned

LEMMA MediaStarts == MediaInit => MediaInv
BY DEF MediaInit, MediaInv, RemoteTypes, Places, Owned

\* Only the track that moves is at another place.
LEMMA MoveFact ==
    ASSUME RemoteTypes, NEW t \in RemoteTracks, NEW pc, NEW of, Move(t, pc, of)
    PROVE  /\ remote'[t].pc = pc /\ remote'[t].of = of
           /\ \A u \in RemoteTracks \ {t} : remote'[u] = remote[u]
BY DEF Move, RemoteTypes

LEMMA MediaTypes ==
    MediaInv /\ [MediaNext]_mediaVars
        => micStop' \in RemoteTracks \cup {NoTrack} /\ RemoteTypes'
<1> SUFFICES ASSUME micStop \in RemoteTracks \cup {NoTrack}, RemoteTypes,
                    [MediaNext]_mediaVars
             PROVE  micStop' \in RemoteTracks \cup {NoTrack} /\ RemoteTypes'
  BY DEF MediaInv
<1> USE DEF RemoteTypes
<1>1. micStop' \in RemoteTracks \cup {NoTrack}
  BY DEF MediaNext, mediaVars, OnTrack, LookForOther, CallOther, StopFn,
         MarkStopped, HaltSource, SetMicStop, StartSource, StartFails, ReadEnds
<1>2. ASSUME NEW t \in RemoteTracks, NEW pc \in Places,
             NEW of \in RemoteTracks \cup {NoTrack}, Move(t, pc, of)
      PROVE  RemoteTypes'
  BY <1>2 DEF Move
<1>3. CASE \E t \in RemoteTracks : OnTrack(t) \/ LookForOther(t) \/ CallOther(t)
  BY <1>2, <1>3 DEF Places, OnTrack, LookForOther, CallOther
<1>4. CASE \E t \in RemoteTracks : StopFn(t) \/ MarkStopped(t) \/ HaltSource(t)
  BY <1>2, <1>4 DEF Places, StopFn, MarkStopped, HaltSource, AfterStop
<1>5. CASE \E t \in RemoteTracks : \/ SetMicStop(t) \/ StartSource(t)
                                   \/ StartFails(t) \/ ReadEnds(t)
  BY <1>2, <1>5 DEF Places, SetMicStop, StartSource, StartFails, ReadEnds
<1>6. CASE UNCHANGED mediaVars
  BY <1>6 DEF mediaVars
<1> QED BY <1>3, <1>4, <1>5, <1>6 DEF MediaNext

LEMMA MediaStep == MediaInv /\ [MediaNext]_mediaVars => MediaInv'
<1> SUFFICES ASSUME RemoteTypes, Owned, [MediaNext]_mediaVars
             PROVE  Owned'
  BY MediaTypes DEF MediaInv
<1> USE MediaAssumption DEF Owned, Owns, At
<1>1. ASSUME NEW t \in RemoteTracks, OnTrack(t) PROVE Owned'
  BY <1>1, MoveFact DEF OnTrack
<1>2. ASSUME NEW t \in RemoteTracks, LookForOther(t) PROVE Owned'
  BY <1>2, MoveFact DEF LookForOther
<1>3. ASSUME NEW t \in RemoteTracks, CallOther(t) PROVE Owned'
  BY <1>3, MoveFact DEF CallOther
<1>4. ASSUME NEW t \in RemoteTracks, StopFn(t) PROVE Owned'
  BY <1>4, MoveFact DEF StopFn, AfterStop
<1>5. ASSUME NEW t \in RemoteTracks, MarkStopped(t) PROVE Owned'
  BY <1>5, MoveFact DEF MarkStopped
<1>6. ASSUME NEW t \in RemoteTracks, HaltSource(t) PROVE Owned'
  BY <1>6 DEF HaltSource
<1>7. ASSUME NEW t \in RemoteTracks, SetMicStop(t) PROVE Owned'
  BY <1>7, MoveFact DEF SetMicStop
<1>8. ASSUME NEW t \in RemoteTracks, StartSource(t) PROVE Owned'
  BY <1>8, MoveFact DEF StartSource
<1>9. ASSUME NEW t \in RemoteTracks, StartFails(t) PROVE Owned'
  BY <1>9, MoveFact DEF StartFails
<1>10. ASSUME NEW t \in RemoteTracks, ReadEnds(t) PROVE Owned'
  BY <1>10, MoveFact DEF ReadEnds
<1>11. CASE UNCHANGED mediaVars
  BY <1>11 DEF mediaVars
<1> QED BY <1>1, <1>2, <1>3, <1>4, <1>5, <1>6, <1>7, <1>8, <1>9, <1>10, <1>11
        DEF MediaNext

\* However many tracks come, go and replace each other at once: when all are
\* over, the source's pipeline is stopped, unless a track started it that
\* another one had stopped before.
THEOREM SourceHasReaderCorrect == Spec => []SourceHasReader
<1>1. MediaInv => SourceHasReader
  BY DEF MediaInv, RemoteTypes, Owned, SourceHasReader, Owns, At
<1> QED BY <1>1, MediaStarts, MediaStep, PartsFact, PTL DEF Spec

-----------------------------------------------------------------------------
(***************************************************************************)
(* The estimator.  The stream it goes to is the neighbour in StreamIDs.    *)
(***************************************************************************)
RateTypes == stream \in Streams /\ rate \in [Streams -> Rates]

LEMMA PositionFact ==
    ASSUME NEW s \in Streams
    PROVE  /\ Position(s) \in 1..Len(StreamIDs)
           /\ StreamIDs[Position(s)] = s
<1>1. DOMAIN StreamIDs = 1..Len(StreamIDs)
  BY EstimatorAssumption
<1>2. \E i \in DOMAIN StreamIDs : StreamIDs[i] = s
  BY DEF Streams
<1> QED BY <1>1, <1>2 DEF Position

LEMMA NeighbourFact ==
    ASSUME NEW s \in Streams
    PROVE  /\ LowerByID(s) # None =>
                 /\ Position(s) + 1 \in DOMAIN StreamIDs
                 /\ LowerByID(s) = StreamIDs[Position(s) + 1]
                 /\ LowerByID(s) \in Streams
           /\ HigherByID(s) # None =>
                 /\ Position(s) - 1 \in DOMAIN StreamIDs
                 /\ HigherByID(s) = StreamIDs[Position(s) - 1]
                 /\ HigherByID(s) \in Streams
<1>1. DOMAIN StreamIDs = 1..Len(StreamIDs) /\ Len(StreamIDs) \in Nat
  BY EstimatorAssumption
<1>2. LowerByID(s) # None => /\ Position(s) + 1 \in DOMAIN StreamIDs
                             /\ LowerByID(s) = StreamIDs[Position(s) + 1]
  BY <1>1, PositionFact DEF LowerByID
<1>3. HigherByID(s) # None => /\ Position(s) - 1 \in DOMAIN StreamIDs
                              /\ HigherByID(s) = StreamIDs[Position(s) - 1]
  BY <1>1, PositionFact DEF HigherByID
<1> QED BY <1>2, <1>3 DEF Streams

LEMMA RateStep == RateTypes /\ [EstimatorNext]_estimatorVars => RateTypes'
<1> SUFFICES ASSUME RateTypes, [EstimatorNext]_estimatorVars PROVE RateTypes'
  OBVIOUS
<1> USE DEF RateTypes
<1>1. CASE SetAuto \/ Skip \/ Wait \/ UNCHANGED estimatorVars
  BY <1>1 DEF SetAuto, Skip, Wait, estimatorVars
<1>2. CASE Read
  BY <1>2, NeighbourFact DEF Read, Congested, NotCongested, Select
<1> QED BY <1>1, <1>2 DEF EstimatorNext

\* The estimator goes to a stream with a higher bitrate only when the estimate
\* has room above the present one, and to one with a lower only when it has
\* none, if the streams are listed from the highest on: for any list of
\* streams, any measured bitrates, any durations of its configuration and any
\* threshold that is not negative.
THEOREM ChangesFitEstimateCorrect == Spec => ChangesFitEstimate
<1>1. EstimatorInit => RateTypes
  BY DEF EstimatorInit, RateTypes
<1>2. ASSUME RateTypes, [EstimatorNext]_estimatorVars, Percent >= 100, Descending,
             stream' # stream
      PROVE  IF rate[stream'] > rate[stream]
             THEN 100 * target' >= Percent * rate[stream]
             ELSE 100 * target' <= Percent * rate[stream]
  <2>1. Read
    BY <1>2 DEF EstimatorNext, SetAuto, Skip, Wait, estimatorVars
  <2>2. /\ ~Room(target') => 100 * target' <= Percent * rate[stream]
        /\ rate[stream] \in Nat
    <3>1. target' \in Nat /\ rate[stream] \in Nat /\ Percent \in Int
      BY <1>2, <2>1, EstimatorAssumption DEF Read, RateTypes
    <3> QED BY <3>1 DEF Room
  <2>3. CASE /\ ~Room(target') /\ stream' = LowerByID(stream)
             /\ LowerByID(stream) # None
    <3>1. rate[stream] > rate[stream']
      <4>1. /\ Position(stream) \in 1..Len(StreamIDs)
            /\ StreamIDs[Position(stream)] = stream
            /\ Position(stream) + 1 \in DOMAIN StreamIDs
            /\ stream' = StreamIDs[Position(stream) + 1]
        BY <1>2, <2>3, PositionFact, NeighbourFact DEF RateTypes
      <4>2. Position(stream) \in DOMAIN StreamIDs
            /\ Position(stream) < Position(stream) + 1
        BY <4>1, EstimatorAssumption
      <4> QED BY <1>2, <4>1, <4>2 DEF Descending
    <3>2. rate[stream'] \in Nat
      BY <1>2, <2>3, NeighbourFact, EstimatorAssumption DEF RateTypes
    <3> QED BY <2>2, <2>3, <3>1, <3>2 DEF Room
  <2>4. CASE /\ 100 * target' >= Percent * rate[stream]
             /\ stream' = HigherByID(stream) /\ HigherByID(stream) # None
    <3>1. rate[stream'] > rate[stream]
      BY <1>2, <2>4, PositionFact, NeighbourFact, EstimatorAssumption
         DEF RateTypes, Descending
    <3> QED BY <2>4, <3>1
  <2> QED BY <1>2, <2>1, <2>3, <2>4
          DEF Read, Congested, NotCongested, Select, MayDowngrade, MayUpgrade
<1>3. RateTypes /\ [EstimatorNext]_estimatorVars
        => [Percent >= 100 /\ Descending /\ stream' # stream =>
               IF rate[stream'] > rate[stream]
               THEN 100 * target' >= Percent * rate[stream]
               ELSE 100 * target' <= Percent * rate[stream]]_estimatorVars
  BY <1>2
<1> QED BY <1>1, <1>3, RateStep, PartsFact, PTL DEF Spec, ChangesFitEstimate

-----------------------------------------------------------------------------
(***************************************************************************)
(* The selections by bitrate.  The first place from the front, or from the *)
(* end, that satisfies the code's condition exists when any place does,    *)
(* and with rising bitrates it is that of the least, or the highest, one.  *)
(***************************************************************************)
\* A set of numbers that is not empty has a least element...
LEMMA LeastFact ==
    ASSUME NEW T \in SUBSET Nat, T # {}
    PROVE  \E i \in T : \A j \in T : i <= j
<1> DEFINE Below(i) == {j \in T : j < i}
           Family == {Below(i) : i \in T}
<1>1. \A i \in T : IsFiniteSet(Below(i))
  <2> TAKE i \in T
  <2>0. i \in Int /\ 0 \in Int /\ T \subseteq Nat
    OBVIOUS
  <2>1. IsFiniteSet(0..i)
    BY <2>0, FS_Interval
  <2>2. ASSUME NEW k \in Below(i) PROVE k \in 0..i
    <3>1. k \in Nat /\ k < i /\ i \in Nat
      BY <2>0
    <3> QED BY <3>1
  <2> HIDE DEF Below
  <2> QED BY <2>1, <2>2, FS_Subset
<1>2. Family \subseteq FiniteSubsetsOf(Nat) /\ Family # {}
  BY <1>1 DEF FiniteSubsetsOf
<1>3. PICK x \in Family :
          \A y \in Family : <<y, x>> \notin StrictSubsetOrdering(Nat)
  <2> HIDE DEF Family
  <2> QED BY <1>2, FS_StrictSubsetOrderingWellFounded, WFMin
<1>4. PICK i \in T : x = Below(i)
  OBVIOUS
<1>5. ASSUME NEW j \in T, j < i PROVE FALSE
  <2>1. \A k \in T : k \in Int
    OBVIOUS
  <2>2. j \in Below(i) /\ j \notin Below(j)
    BY <1>5, <2>1
  <2>3. ASSUME NEW k \in Below(j) PROVE k \in Below(i)
    <3>1. k \in T /\ k \in Int /\ j \in Int /\ i \in Int /\ k < j /\ j < i
      BY <2>1, <1>5
    <3> QED BY <3>1
  <2>4. Below(i) \in SUBSET Nat /\ Below(j) \in SUBSET Nat
    OBVIOUS
  <2>5. <<Below(j), x>> \in StrictSubsetOrdering(Nat)
    BY <2>2, <2>3, <2>4, <1>4 DEF StrictSubsetOrdering
  <2> QED BY <2>5, <1>3
<1> QED BY <1>5

\* ... and, if it is bounded, a greatest one.
LEMMA GreatestFact ==
    ASSUME NEW n \in Nat, NEW T \in SUBSET (1..n), T # {}
    PROVE  \E i \in T : \A j \in T : j <= i
<1> DEFINE Flipped == {n - i : i \in T}
<1>1. \A i \in T : i \in Nat /\ n - i \in Nat
  OBVIOUS
<1>2. Flipped \in SUBSET Nat /\ Flipped # {}
  BY <1>1
<1>3. PICK m \in Flipped : \A k \in Flipped : m <= k
  <2> HIDE DEF Flipped
  <2> QED BY <1>2, LeastFact
<1>4. PICK i \in T : m = n - i
  OBVIOUS
<1>5. ASSUME NEW j \in T PROVE j <= i
  <2>1. n - j \in Flipped
    OBVIOUS
  <2>2. n - i <= n - j
    BY <1>3, <1>4, <2>1
  <2> QED BY <1>1, <2>2
<1> QED BY <1>5

\* The places of the streams that are considered and have a property.
LEMMA PlacesFact ==
    ASSUME NEW S \in SUBSET Streams
    PROVE  LET T == {i \in DOMAIN StreamIDs : StreamIDs[i] \in S}
           IN /\ T \in SUBSET (1..Len(StreamIDs)) /\ T \in SUBSET Nat
              /\ Len(StreamIDs) \in Nat
              /\ T = {} => S = {}
BY EstimatorAssumption DEF Streams

\* With rising bitrates the place decides which of two streams has the higher.
LEMMA AscendingFact ==
    ASSUME RateTypes, Ascending,
           NEW i \in DOMAIN StreamIDs, NEW j \in DOMAIN StreamIDs, i <= j
    PROVE  rate[StreamIDs[i]] <= rate[StreamIDs[j]]
<1>1. i \in Nat /\ j \in Nat /\ StreamIDs[i] \in Streams /\ StreamIDs[j] \in Streams
  BY EstimatorAssumption DEF Streams
<1>2. rate[StreamIDs[i]] \in Nat /\ rate[StreamIDs[j]] \in Nat
  BY <1>1, EstimatorAssumption DEF RateTypes
<1>3. CASE i = j
  BY <1>2, <1>3
<1>4. CASE i < j
  BY <1>2, <1>4 DEF Ascending
<1> QED BY <1>1, <1>3, <1>4

\* The streams that a selection by bitrate looks at.
Running == {s \in Streams : Considered(s)}

\* From the end, the first that is lower is the highest of them.
LEMMA LowerByRateFact ==
    ASSUME RateTypes, Ascending, NEW b \in Nat
    PROVE  LET l == LowerByRate(b)
               below == {s \in Running : rate[s] < b}
           IN IF l = None THEN below = {}
              ELSE l \in below /\ \A s \in below : rate[s] <= rate[l]
<1> DEFINE below == {s \in Running : rate[s] < b}
           T == {i \in DOMAIN StreamIDs :
                    Considered(StreamIDs[i]) /\ rate[StreamIDs[i]] < b}
<1>1. T = {i \in DOMAIN StreamIDs : StreamIDs[i] \in below}
  BY DEF Running, Streams
<1>2. below \in SUBSET Streams
  BY DEF Running
<1>3. /\ T \in SUBSET (1..Len(StreamIDs)) /\ Len(StreamIDs) \in Nat
      /\ T = {} => below = {}
  <2> HIDE DEF below, T
  <2> QED BY <1>1, <1>2, PlacesFact
<1>4. LowerByRate(b) = IF T = {} THEN None
                       ELSE StreamIDs[CHOOSE i \in T : \A j \in T : j <= i]
  BY Zenon DEF LowerByRate
<1>5. CASE T = {}
  BY <1>3, <1>4, <1>5
<1>6. CASE T # {}
  <2> DEFINE i == CHOOSE i \in T : \A j \in T : j <= i
  <2>1. i \in T /\ \A j \in T : j <= i
    <3> HIDE DEF T
    <3>1. \E k \in T : \A j \in T : j <= k
      BY <1>3, <1>6, GreatestFact, Zenon
    <3> QED BY <3>1
  <2>2. LowerByRate(b) = StreamIDs[i]
    BY <1>4, <1>6
  <2> HIDE DEF i
  <2>3. LowerByRate(b) \in below /\ LowerByRate(b) # None
    <3> HIDE DEF T, below
    <3>1. StreamIDs[i] \in below
      BY <1>1, <2>1
    <3> QED BY <3>1, <2>2, <1>2, EstimatorAssumption
  <2>4. ASSUME NEW s \in below PROVE rate[s] <= rate[StreamIDs[i]]
    <3>1. PICK j \in T : StreamIDs[j] = s
      BY <1>1, <1>2 DEF Streams
    <3>2. j \in DOMAIN StreamIDs /\ i \in DOMAIN StreamIDs /\ j <= i
      BY <2>1
    <3> QED BY <3>1, <3>2, AscendingFact
  <2> QED BY <2>2, <2>3, <2>4
<1> QED BY <1>5, <1>6

\* From the front, the first that is higher is the lowest of them.
LEMMA HigherByRateFact ==
    ASSUME RateTypes, Ascending, NEW b \in Nat
    PROVE  LET h == HigherByRate(b)
               above == {s \in Running : rate[s] > b}
           IN IF h = None THEN above = {}
              ELSE h \in above /\ \A s \in above : rate[s] >= rate[h]
<1> DEFINE above == {s \in Running : rate[s] > b}
           T == {i \in DOMAIN StreamIDs :
                    Considered(StreamIDs[i]) /\ rate[StreamIDs[i]] > b}
<1>1. T = {i \in DOMAIN StreamIDs : StreamIDs[i] \in above}
  BY DEF Running, Streams
<1>2. above \in SUBSET Streams
  BY DEF Running
<1>3. T \in SUBSET Nat /\ (T = {} => above = {})
  <2> HIDE DEF above, T
  <2> QED BY <1>1, <1>2, PlacesFact
<1>4. HigherByRate(b) = IF T = {} THEN None
                        ELSE StreamIDs[CHOOSE i \in T : \A j \in T : i <= j]
  BY Zenon DEF HigherByRate
<1>5. CASE T = {}
  BY <1>3, <1>4, <1>5
<1>6. CASE T # {}
  <2> DEFINE i == CHOOSE i \in T : \A j \in T : i <= j
  <2>1. i \in T /\ \A j \in T : i <= j
    <3> HIDE DEF T
    <3>1. \E k \in T : \A j \in T : k <= j
      BY <1>3, <1>6, LeastFact, Zenon
    <3> QED BY <3>1
  <2>2. HigherByRate(b) = StreamIDs[i]
    BY <1>4, <1>6
  <2> HIDE DEF i
  <2>3. HigherByRate(b) \in above /\ HigherByRate(b) # None
    <3> HIDE DEF T, above
    <3>1. StreamIDs[i] \in above
      BY <1>1, <2>1
    <3> QED BY <3>1, <2>2, <1>2, EstimatorAssumption
  <2>4. ASSUME NEW s \in above PROVE rate[s] >= rate[StreamIDs[i]]
    <3>1. PICK j \in T : StreamIDs[j] = s
      BY <1>1, <1>2 DEF Streams
    <3>2. j \in DOMAIN StreamIDs /\ i \in DOMAIN StreamIDs /\ i <= j
      BY <2>1
    <3>3. rate[StreamIDs[i]] <= rate[StreamIDs[j]]
      BY <3>2, AscendingFact
    <3>4. StreamIDs[i] \in Streams /\ StreamIDs[j] \in Streams
      BY <3>2 DEF Streams
    <3>5. rate[StreamIDs[i]] \in Nat /\ rate[StreamIDs[j]] \in Nat
      BY <3>4, EstimatorAssumption DEF RateTypes
    <3> QED BY <3>1, <3>3, <3>5
  <2> QED BY <2>2, <2>3, <2>4
<1> QED BY <1>5, <1>6

\* The first of the sorted differences, whatever the order of the bitrates.
LEMMA NearestFact ==
    ASSUME RateTypes, NEW b \in Nat,
           NEW n \in NearestByRate(b), NEW s \in Running
    PROVE  /\ n \in Running
           /\ rate[n] <= b => rate[s] > b \/ rate[s] <= rate[n]
           /\ rate[n] > b => rate[s] >= rate[n]
<1>1. n \in Running /\ \A t \in Running \ {n} :
                           SortsFirst(b, n, t) \/ ~SortsFirst(b, t, n)
  BY DEF NearestByRate, Running
<1>2. rate[n] \in Nat /\ rate[s] \in Nat
  BY <1>1, EstimatorAssumption DEF RateTypes, Running
<1>3. CASE s = n
  BY <1>1, <1>2, <1>3
<1>4. CASE s # n
  BY <1>1, <1>2, <1>4 DEF SortsFirst
<1> QED BY <1>3, <1>4

\* A selection by bitrate finds the nearest stream below or above among those
\* that run and are measured, and the nearest one is the best that fits, if
\* the streams are listed with rising bitrates: for any list of streams and any
\* bitrates (streamselector.go, GetStream and nearestBitrate).
THEOREM SelectsNearestCorrect == Spec => []SelectsNearest
<1>1. EstimatorInit => RateTypes
  BY DEF EstimatorInit, RateTypes
<1>2. ASSUME RateTypes, Ascending, NEW b \in Rates \ {0}
      PROVE  /\ LET l == LowerByRate(b)
                    below == {s \in Running : rate[s] < b}
                IN IF l = None THEN below = {}
                   ELSE l \in below /\ \A s \in below : rate[s] <= rate[l]
             /\ LET h == HigherByRate(b)
                    above == {s \in Running : rate[s] > b}
                IN IF h = None THEN above = {}
                   ELSE h \in above /\ \A s \in above : rate[s] >= rate[h]
             /\ \A n \in NearestByRate(b), s \in Running :
                   /\ n \in Running
                   /\ rate[n] <= b => rate[s] > b \/ rate[s] <= rate[n]
                   /\ rate[n] > b => rate[s] >= rate[n]
  <2>1. b \in Nat
    BY EstimatorAssumption
  <2> QED BY <1>2, <2>1, LowerByRateFact, HigherByRateFact, NearestFact, Zenon
<1>3. RateTypes => SelectsNearest
  BY <1>2, Zenon DEF SelectsNearest, Running
<1> QED BY <1>1, <1>3, RateStep, PartsFact, PTL DEF Spec

-----------------------------------------------------------------------------
(***************************************************************************)
(* The cursor.  What is known of the images on their way: the last event   *)
(* names the cursor that X shows, so the image that follows it is that     *)
(* one, and a channel that keeps an image has read it since the last       *)
(* change unless an event follows.                                         *)
(***************************************************************************)
EmitterTypes ==
    /\ shown \in Serials /\ events \in Seq(Serials) /\ current \in Images
    /\ emitter \in [pc : {"idle", "store", "send"}, image : Images]
    /\ cache \in [Serials -> Images]

ChannelTypes ==
    /\ channel \in [Channels -> [pc : {"no", "get", "keep", "send", "open"},
                                 image : Images]]
    /\ seen \in [Channels -> Images]

LastEvent == events # <<>> => events[Len(events)] = shown

CacheOwn == \A s \in Serials : cache[s] \in {s, NoImage}

EmitterHas ==
    /\ emitter.pc # "idle" => emitter.image \in Serials
    /\ emitter.pc # "idle" /\ events = <<>> => emitter.image = shown
    /\ emitter.pc = "send" => current # NoImage
    /\ emitter.pc = "send" /\ ~undone => current = emitter.image

CurrentHas ==
    events = <<>> /\ emitter.pc # "store" /\ ~undone
        => current \in {NoImage, shown}

ChannelHas ==
    \A c \in Channels :
        /\ channel[c].pc = "keep" =>
              /\ channel[c].image \in Serials
              /\ events = <<>> /\ emitter.pc = "idle" /\ current = NoImage
                    => channel[c].image = shown
        /\ channel[c].pc \in {"send", "open"} => current # NoImage
        /\ channel[c].pc # "no" => c \in listeners
        /\ channel[c].pc = "open" /\ c \notin behind /\ ~undone
              /\ emitter.pc # "send" => seen[c] = current

CursorInv == /\ EmitterTypes /\ ChannelTypes
             /\ LastEvent /\ CacheOwn /\ EmitterHas /\ CurrentHas /\ ChannelHas

\* The first and the last of the events when the first is taken.
LEMMA TailFact ==
    ASSUME NEW q \in Seq(Serials), q # <<>>
    PROVE  /\ Head(q) \in Serials
           /\ Tail(q) = <<>> => Head(q) = q[Len(q)]
           /\ Tail(q) # <<>> => Tail(q)[Len(Tail(q))] = q[Len(q)]
<1>1. /\ Len(q) \in Nat \ {0} /\ Head(q) = q[1] /\ Head(q) \in Serials
      /\ Len(Tail(q)) = Len(q) - 1
      /\ Tail(q) \in Seq(Serials)
  OBVIOUS
<1>2. CASE Tail(q) = <<>>
  <2>1. Len(q) = 1
    BY <1>1, <1>2
  <2> QED BY <1>1, <1>2, <2>1
<1>3. CASE Tail(q) # <<>>
  <2>1. Len(q) > 1
    BY <1>1, <1>3
  <2>2. Tail(q)[Len(q) - 1] = q[(Len(q) - 1) + 1]
    BY <1>1, <2>1
  <2> QED BY <1>1, <1>3, <2>2
<1> QED BY <1>2, <1>3

LEMMA CursorStarts == CursorsInit => CursorInv
<1> SUFFICES ASSUME CursorsInit PROVE CursorInv
  OBVIOUS
<1>1. EmitterTypes
  BY DEF CursorsInit, EmitterTypes, Images
<1>2. ChannelTypes
  BY DEF CursorsInit, ChannelTypes, Images
<1>3. LastEvent /\ CacheOwn /\ EmitterHas /\ CurrentHas /\ ChannelHas
  BY DEF CursorsInit, LastEvent, CacheOwn, EmitterHas, CurrentHas, ChannelHas
<1> QED BY <1>1, <1>2, <1>3 DEF CursorInv

LEMMA EmitterTypesStep ==
    EmitterTypes /\ ChannelTypes /\ [CursorsNext]_cursorVars => EmitterTypes'
<1> SUFFICES ASSUME EmitterTypes, ChannelTypes, [CursorsNext]_cursorVars
             PROVE  EmitterTypes'
  OBVIOUS
<1> USE DEF EmitterTypes, Images
<1>1. ASSUME NEW s \in Serials, ChangeCursor(s) PROVE EmitterTypes'
  BY <1>1 DEF ChangeCursor
<1>2. CASE GetCached
  <2>1. Head(events) \in Serials /\ Tail(events) \in Seq(Serials)
    BY <1>2 DEF GetCached
  <2> QED BY <1>2, <2>1 DEF GetCached, Fetched
<1>3. CASE StoreCurrent
  BY <1>3 DEF StoreCurrent
<1>4. CASE SendToListeners
  BY <1>4 DEF SendToListeners
<1>5. ASSUME NEW c \in Channels, KeepFetched(c) PROVE EmitterTypes'
  BY <1>5 DEF KeepFetched, ChannelTypes
<1>6. ASSUME NEW c \in Channels,
             OnOpen(c) \/ GetCurrent(c) \/ SendInitial(c) \/ OnClose(c)
      PROVE  EmitterTypes'
  BY <1>6 DEF OnOpen, GetCurrent, SendInitial, OnClose
<1>7. CASE UNCHANGED cursorVars
  BY <1>7 DEF cursorVars
<1> QED BY <1>1, <1>2, <1>3, <1>4, <1>5, <1>6, <1>7 DEF CursorsNext

LEMMA ChannelTypesStep ==
    EmitterTypes /\ ChannelTypes /\ [CursorsNext]_cursorVars => ChannelTypes'
<1> SUFFICES ASSUME EmitterTypes, ChannelTypes, [CursorsNext]_cursorVars
             PROVE  ChannelTypes'
  OBVIOUS
<1> USE DEF ChannelTypes, Images
<1>1. ASSUME NEW s \in Serials, ChangeCursor(s) PROVE ChannelTypes'
  BY <1>1 DEF ChangeCursor
<1>2. CASE GetCached \/ StoreCurrent \/ UNCHANGED cursorVars
  BY <1>2 DEF GetCached, StoreCurrent, cursorVars
<1>3. CASE SendToListeners
  BY <1>3 DEF SendToListeners, EmitterTypes
<1>4. ASSUME NEW c \in Channels, OnOpen(c) \/ KeepFetched(c) PROVE ChannelTypes'
  BY <1>4 DEF OnOpen, KeepFetched
<1>5. ASSUME NEW c \in Channels, GetCurrent(c) PROVE ChannelTypes'
  BY <1>5 DEF GetCurrent, EmitterTypes, Fetched
<1>6. ASSUME NEW c \in Channels, SendInitial(c) PROVE ChannelTypes'
  BY <1>6 DEF SendInitial
<1>7. ASSUME NEW c \in Channels, OnClose(c) PROVE ChannelTypes'
  BY <1>7 DEF OnClose
<1> QED BY <1>1, <1>2, <1>3, <1>4, <1>5, <1>6, <1>7 DEF CursorsNext

\* What is known of the images, other than of the channels', survives a step.
LEMMA EmitterStep ==
    CursorInv /\ [CursorsNext]_cursorVars
        => LastEvent' /\ CacheOwn' /\ EmitterHas' /\ CurrentHas'
<1> SUFFICES ASSUME CursorInv, [CursorsNext]_cursorVars
             PROVE  LastEvent' /\ CacheOwn' /\ EmitterHas' /\ CurrentHas'
  OBVIOUS
<1> USE CursorsAssumption
    DEF CursorInv, LastEvent, CacheOwn, EmitterHas, CurrentHas
<1>0. EmitterTypes /\ ChannelTypes
  OBVIOUS
<1>1. ASSUME NEW s \in Serials, ChangeCursor(s)
      PROVE  LastEvent' /\ CacheOwn' /\ EmitterHas' /\ CurrentHas'
  <2>1. events' # <<>> /\ events'[Len(events')] = s
    BY <1>0, <1>1 DEF ChangeCursor, EmitterTypes
  <2> QED BY <1>0, <1>1, <2>1 DEF ChangeCursor
<1>2. CASE GetCached
  <2>1. /\ events' = Tail(events) /\ events # <<>> /\ emitter.pc = "idle"
        /\ emitter'.pc = "store"
        /\ UNCHANGED <<shown, current, undone>>
    BY <1>2 DEF GetCached
  <2>2. /\ Head(events) \in Serials
        /\ events' = <<>> => Head(events) = shown
        /\ events' # <<>> => events'[Len(events')] = events[Len(events)]
    BY <1>0, <2>1, TailFact DEF EmitterTypes
  <2>3. emitter'.image \in {Head(events), shown}
    BY <1>2, <2>2 DEF GetCached, Fetched
  <2>4. CacheOwn'
    BY <1>0, <1>2 DEF GetCached, Fetched, EmitterTypes
  <2> QED BY <1>0, <2>1, <2>2, <2>3, <2>4 DEF EmitterTypes
<1>3. CASE StoreCurrent
  BY <1>0, <1>3 DEF StoreCurrent, EmitterTypes
<1>4. CASE SendToListeners
  BY <1>0, <1>4 DEF SendToListeners, EmitterTypes
<1>5. ASSUME NEW c \in Channels, KeepFetched(c)
      PROVE  LastEvent' /\ CacheOwn' /\ EmitterHas' /\ CurrentHas'
  <2>1. channel[c].image \in Serials
        /\ (events = <<>> /\ emitter.pc = "idle" /\ current = NoImage
               => channel[c].image = shown)
    BY <1>5 DEF KeepFetched, ChannelHas
  <2>2. UNCHANGED <<shown, events, emitter, cache>>
        /\ current' = channel[c].image
        /\ undone' = (undone \/ current # NoImage)
    BY <1>5 DEF KeepFetched
  <2>3. emitter.pc \in {"idle", "store", "send"}
    BY <1>0 DEF EmitterTypes
  <2>4. ~undone' => ~undone /\ current = NoImage
    BY <2>2
  <2> QED BY <2>1, <2>2, <2>3, <2>4
<1>6. ASSUME NEW c \in Channels,
             OnOpen(c) \/ GetCurrent(c) \/ SendInitial(c) \/ OnClose(c)
      PROVE  LastEvent' /\ CacheOwn' /\ EmitterHas' /\ CurrentHas'
  BY <1>6 DEF OnOpen, GetCurrent, SendInitial, OnClose
<1>7. CASE UNCHANGED cursorVars
  BY <1>7 DEF cursorVars
<1> QED BY <1>1, <1>2, <1>3, <1>4, <1>5, <1>6, <1>7 DEF CursorsNext

\* ... and of the channels'.
LEMMA ChannelStep == CursorInv /\ [CursorsNext]_cursorVars => ChannelHas'
<1> SUFFICES ASSUME CursorInv, [CursorsNext]_cursorVars PROVE ChannelHas'
  OBVIOUS
<1> USE CursorsAssumption DEF CursorInv, ChannelHas
<1>0. EmitterTypes /\ ChannelTypes
  OBVIOUS
<1>1. ASSUME NEW s \in Serials, ChangeCursor(s) PROVE ChannelHas'
  <2>1. events' # <<>>
    BY <1>0, <1>1 DEF ChangeCursor, EmitterTypes
  <2> QED BY <1>1, <2>1 DEF ChangeCursor
<1>2. CASE GetCached
  BY <1>0, <1>2 DEF GetCached, EmitterTypes
<1>3. CASE StoreCurrent
  BY <1>0, <1>3 DEF StoreCurrent, EmitterTypes, EmitterHas
<1>4. CASE SendToListeners
  <2>1. emitter'.pc = "idle" /\ emitter.pc = "send"
    BY <1>0, <1>4 DEF SendToListeners, EmitterTypes
  <2>2. current # NoImage /\ (~undone => current = emitter.image)
    BY <2>1 DEF EmitterHas
  <2> QED BY <1>4, <2>1, <2>2 DEF SendToListeners
<1>5. ASSUME NEW c \in Channels, OnOpen(c) PROVE ChannelHas'
  BY <1>0, <1>5 DEF OnOpen, ChannelTypes
<1>6. ASSUME NEW c \in Channels, GetCurrent(c) PROVE ChannelHas'
  BY <1>0, <1>6 DEF GetCurrent, ChannelTypes, EmitterTypes, Fetched
<1>7. ASSUME NEW c \in Channels, KeepFetched(c) PROVE ChannelHas'
  <2>1. channel[c].image # NoImage /\ current' = channel[c].image
    BY <1>7 DEF KeepFetched
  <2>2. channel'[c].pc = "send"
        /\ \A d \in Channels \ {c} : channel'[d] = channel[d]
    BY <1>0, <1>7 DEF KeepFetched, ChannelTypes
  <2>3. \A d \in Channels : channel[d].pc = "open" => undone'
    BY <1>7 DEF KeepFetched
  <2> QED BY <1>7, <2>1, <2>2, <2>3 DEF KeepFetched
<1>8. ASSUME NEW c \in Channels, SendInitial(c) PROVE ChannelHas'
  <2>1. channel'[c].pc = "open"
        /\ \A d \in Channels \ {c} : channel'[d] = channel[d]
    BY <1>0, <1>8 DEF SendInitial, ChannelTypes
  <2>2. seen'[c] = channel[c].image
        /\ \A d \in Channels \ {c} : seen'[d] = seen[d]
    BY <1>0, <1>8 DEF SendInitial, ChannelTypes
  <2>3. c \notin behind' => channel[c].image = current
    BY <1>8 DEF SendInitial
  <2>4. \A d \in Channels \ {c} : d \notin behind' => d \notin behind
    BY <1>8 DEF SendInitial
  <2>5. c \in listeners
    BY <1>8 DEF SendInitial
  <2> QED BY <1>8, <2>1, <2>2, <2>3, <2>4, <2>5 DEF SendInitial
<1>9. ASSUME NEW c \in Channels, OnClose(c) PROVE ChannelHas'
  BY <1>0, <1>9 DEF OnClose, ChannelTypes
<1>10. CASE UNCHANGED cursorVars
  BY <1>10 DEF cursorVars
<1> QED BY <1>1, <1>2, <1>3, <1>4, <1>5, <1>6, <1>7, <1>8, <1>9, <1>10
        DEF CursorsNext

\* However the fetches, the events and the channels interleave, for any cursors,
\* cache limit and clients: when all events are handled each client has the
\* cursor that X shows, but for the two races that behind and undone name.
THEOREM CursorShownCorrect == Spec => []CursorShown
<1>1. CursorInv /\ [CursorsNext]_cursorVars => CursorInv'
  BY EmitterTypesStep, ChannelTypesStep, EmitterStep, ChannelStep DEF CursorInv
<1>2. CursorInv => CursorShown
  BY DEF CursorInv, CursorShown, EmitterHas, CurrentHas, ChannelHas
<1> QED BY <1>1, <1>2, CursorStarts, PartsFact, PTL DEF Spec

-----------------------------------------------------------------------------
(***************************************************************************)
(* The peers of a session.                                                 *)
(***************************************************************************)
PeerTypes ==
    /\ conn \in [Peers -> {"none", "new", "connected", "disconnected",
                           "closed"}]
    /\ made \in [Peers -> {"no", "made", "registered", "offered", "answered"}]
    /\ onGone \in [Peers -> BOOLEAN]
    /\ onClosed \in [Peers -> {"no", "check", "write", "clear", "audio",
                               "audio close", "video", "video close", "rtcp",
                               "over"}]

RequestTypes ==
    /\ webrtcPeer \in Peers \cup {NoPeer}
    /\ req \in [Requests -> [pc : {"idle", "swap", "replace", "offer",
                                   "gather", "first", "video", "audio"},
                             peer : Peers \cup {NoPeer},
                             old : Peers \cup {NoPeer}]]

SampleTypes ==
    /\ listens \in [Peers -> SUBSET Kinds]
    /\ open \in [Peers -> SUBSET Kinds]
    /\ tickers \in [Peers -> [Tickers -> {"no", "waits", "sets", "over"}]]

Registered(p) == p \in Peers /\ made[p] \notin {"no", "made"}

\* A peer that was never the session's is as CreatePeer made it.
Stages ==
    \A p \in Peers :
        /\ conn[p] = "none" => made[p] = "no"
        /\ made[p] \in {"no", "made"} =>
              conn[p] \in {"none", "new"} /\ onClosed[p] = "no" /\ ~onGone[p]
        /\ onClosed[p] # "no" => conn[p] = "closed"

\* A message loop has a peer that exists, and one that it has just made it has
\* for itself.
Loops ==
    /\ webrtcPeer # NoPeer => Registered(webrtcPeer)
    /\ \A r \in Requests :
          /\ req[r].pc # "idle" =>
                req[r].peer \in Peers /\ made[req[r].peer] # "no"
          /\ req[r].pc = "swap" => made[req[r].peer] = "made"
          /\ req[r].old # NoPeer => Registered(req[r].old)
    /\ \A r, q \in Requests :
          req[r].pc = "swap" /\ req[q].pc = "swap" /\ r # q
              => req[r].peer # req[q].peer

\* A peer that was replaced lives until the message loop that replaced it closes
\* it.
Replaced ==
    \A p \in Peers \ {webrtcPeer} :
        Registered(p) /\ conn[p] # "closed" =>
            \E r \in Requests : req[r].pc = "replace" /\ req[r].old = p

\* The session is not watching when its peer is about to be, or was, taken away.
Watched ==
    watching /\ ~overtaken =>
        webrtcPeer # NoPeer /\ onClosed[webrtcPeer] # "clear"

\* What can register a track, and where Shutdown is with it.
BeforeAudio == {"no", "check", "write", "clear", "audio"}
BeforeVideo == BeforeAudio \cup {"audio close", "video"}

Fed ==
    /\ \A r \in Requests :
          req[r].pc \in {"first", "video", "audio"} => scene.details
    /\ \A p \in Peers :
          /\ listens[p] # {} => made[p] # "no" /\ scene.details
          /\ \A t \in Tickers :
                tickers[p][t] # "no" => made[p] # "no" /\ scene.details
          /\ "audio" \in listens[p] => onClosed[p] \in BeforeAudio
          /\ "video" \in listens[p] => onClosed[p] \in BeforeVideo \/ late
          /\ made[p] # "no" /\ scene.details =>
                /\ onClosed[p] \in BeforeAudio => "audio" \in open[p]
                /\ onClosed[p] \in BeforeVideo => "video" \in open[p]

PeersInv == /\ PeerTypes /\ RequestTypes /\ SampleTypes
            /\ Stages /\ Loops /\ Replaced /\ Watched /\ Fed
            /\ CrashNeedsLateCall

\* The types of the peers' variables survive a step, ...
LEMMA PeerTypesStep ==
    PeerTypes /\ [PeersNext]_peersVars => PeerTypes'
<1> SUFFICES ASSUME PeerTypes, [PeersNext]_peersVars PROVE PeerTypes'
  OBVIOUS
<1> USE DEF PeerTypes
<1>1. ASSUME NEW r \in Requests, NEW pc \in {"offer", "video"},
             \/ CreateOffer(r) \/ SetVideo(r) \/ SetVideoFails(r)
             \/ SetAudio(r) \/ Fetch(r, pc)
      PROVE  PeerTypes'
  BY <1>1 DEF CreateOffer, Goto, Done, Quiet, peerVars, SetVideo, SetStream,
         SetVideoFails, SetAudio, Fetch
<1>2. ASSUME NEW p \in Peers, NEW t \in Tickers, NEW found \in BOOLEAN,
             \/ Connected(p) \/ WriteConnected(p) \/ ReadRtcp(p)
             \/ PutRtcp(p) \/ ReceiveRtcp(p) \/ Tick(p, t)
             \/ Estimate(p, found) \/ SendSample(p) \/ PutRtcpPanics(p)
      PROVE  PeerTypes'
  BY <1>2 DEF Connected, WriteConnected, ReadRtcp, RtcpStep, PutRtcp,
         ReceiveRtcp, Tick, TickerAt, Estimate, SetStream, SendSample,
         peerVars, PutRtcpPanics
<1>3. CASE \/ Evict \/ UNCHANGED peersVars
  BY <1>3 DEF Evict, peerVars, peersVars
<1>4. ASSUME NEW r \in Requests, NEW p \in Peers, NEW ok \in BOOLEAN,
             NewPeer(r, p, ok)
      PROVE  PeerTypes'
  BY <1>4 DEF NewPeer
<1>5. ASSUME NEW r \in Requests,
             \/ SwapPeer(r) \/ Gathered(r)
      PROVE  PeerTypes'
  BY <1>5 DEF SwapPeer, Gathered, Goto, Done, Quiet
<1>6. CASE Answer
  BY <1>6 DEF Answer
<1>7. ASSUME NEW r \in Requests, ReplacePeer(r) PROVE PeerTypes'
  BY <1>7 DEF ReplacePeer, Destroyed
<1>8. CASE EvictPeer
  BY <1>8 DEF EvictPeer, Destroyed
<1>9. ASSUME NEW p \in Peers, Gone(p) PROVE PeerTypes'
  BY <1>9 DEF Gone, Destroyed
<1>10. ASSUME NEW p \in Peers,
              \/ Connect(p) \/ Disconnect(p)
      PROVE  PeerTypes'
  BY <1>10 DEF Connect, Disconnect
<1>11. ASSUME NEW p \in Peers, CheckClosed(p) PROVE PeerTypes'
  BY <1>11 DEF CheckClosed, ClosedAt, Tracks
<1>12. ASSUME NEW p \in Peers,
              \/ WriteClosed(p) \/ ClearPeer(p) \/ CloseRtcp(p)
      PROVE  PeerTypes'
  BY <1>12 DEF WriteClosed, ClosedAt, ClearPeer, Tracks, CloseRtcp
<1>13. ASSUME NEW p \in Peers, NEW k \in Kinds,
              \/ RemoveStream(p, k) \/ CloseSample(p, k)
      PROVE  PeerTypes'
  BY <1>13 DEF RemoveStream, ClosedAt, CloseSample
<1> QED BY <1>1, <1>2, <1>3, <1>4, <1>5, <1>6, <1>7, <1>8, <1>9, <1>10, <1>11,
          <1>12, <1>13
        DEF PeersNext, Alive, Request, Callback, Goroutine, Kinds, Tickers

\* ... and those of the session and its message loops, ...
LEMMA RequestTypesStep ==
    RequestTypes /\ [PeersNext]_peersVars => RequestTypes'
<1> SUFFICES ASSUME RequestTypes, [PeersNext]_peersVars PROVE RequestTypes'
  OBVIOUS
<1> USE DEF RequestTypes, Peers, NoPeer
<1>1. CASE \/ Answer \/ Evict \/ EvictPeer \/ UNCHANGED peersVars
  BY <1>1 DEF Answer, Evict, peerVars, EvictPeer, Destroyed, peersVars
<1>2. ASSUME NEW p \in Peers,
             \/ Connect(p) \/ Disconnect(p) \/ Gone(p) \/ Connected(p)
             \/ WriteConnected(p)
      PROVE  RequestTypes'
  BY <1>2 DEF Connect, Disconnect, Gone, Destroyed, Connected, WriteConnected
<1>3. ASSUME NEW p \in Peers, NEW k \in Kinds,
             \/ CheckClosed(p) \/ WriteClosed(p) \/ CloseRtcp(p)
             \/ RemoveStream(p, k) \/ CloseSample(p, k)
      PROVE  RequestTypes'
  BY <1>3 DEF CheckClosed, ClosedAt, Tracks, WriteClosed, CloseRtcp,
         RemoveStream, CloseSample
<1>4. ASSUME NEW p \in Peers, NEW t \in Tickers, NEW found \in BOOLEAN,
             \/ ReadRtcp(p) \/ PutRtcp(p) \/ ReceiveRtcp(p) \/ Tick(p, t)
             \/ Estimate(p, found) \/ SendSample(p) \/ PutRtcpPanics(p)
      PROVE  RequestTypes'
  BY <1>4 DEF ReadRtcp, RtcpStep, PutRtcp, ReceiveRtcp, Tick, TickerAt,
         Estimate, SetStream, SendSample, peerVars, PutRtcpPanics
<1>5. ASSUME NEW r \in Requests, NEW p \in Peers, NEW ok \in BOOLEAN,
             NewPeer(r, p, ok)
      PROVE  RequestTypes'
  BY <1>5 DEF NewPeer
<1>6. ASSUME NEW r \in Requests, SwapPeer(r) \/ ReplacePeer(r)
      PROVE  RequestTypes'
  BY <1>6 DEF SwapPeer, ReplacePeer, Goto
<1>7. ASSUME NEW r \in Requests,
             \/ CreateOffer(r) \/ Gathered(r)
      PROVE  RequestTypes'
  BY <1>7 DEF CreateOffer, Goto, Done, Quiet, peerVars, Gathered
<1>8. ASSUME NEW r \in Requests,
             \/ SetVideo(r) \/ SetVideoFails(r) \/ SetAudio(r)
      PROVE  RequestTypes'
  <2>1. webrtcPeer' = webrtcPeer /\ (Goto(r, "audio") \/ Done(r))
    BY <1>8 DEF SetVideo, SetVideoFails, SetAudio
  <2> QED BY <2>1 DEF Goto, Done, Quiet
<1>9. ASSUME NEW r \in Requests, NEW pc \in {"offer", "video"}, Fetch(r, pc)
      PROVE  RequestTypes'
  BY <1>9 DEF Fetch, peerVars
<1>10. ASSUME NEW p \in Peers, ClearPeer(p) PROVE RequestTypes'
  BY <1>10 DEF ClearPeer, ClosedAt, Tracks
<1> QED BY <1>1, <1>2, <1>3, <1>4, <1>5, <1>6, <1>7, <1>8, <1>9, <1>10
        DEF PeersNext, Alive, Request, Callback, Goroutine, Kinds, Tickers

\* ... and those of the tracks and the tickers.
LEMMA SampleTypesStep ==
    SampleTypes /\ [PeersNext]_peersVars => SampleTypes'
<1> SUFFICES ASSUME SampleTypes, [PeersNext]_peersVars PROVE SampleTypes'
  OBVIOUS
<1> USE DEF SampleTypes, Kinds
<1>1. ASSUME NEW r \in Requests, NEW pc \in {"offer", "video"},
             \/ SwapPeer(r) \/ ReplacePeer(r) \/ CreateOffer(r)
             \/ SetVideoFails(r) \/ Fetch(r, pc)
      PROVE  SampleTypes'
  BY <1>1 DEF SwapPeer, ReplacePeer, Destroyed, CreateOffer, Goto, Done,
         Quiet, peerVars, SetVideoFails, Fetch
<1>2. CASE \/ Answer \/ Evict \/ EvictPeer \/ UNCHANGED peersVars
  BY <1>2 DEF Answer, Evict, peerVars, EvictPeer, Destroyed, peersVars
<1>3. ASSUME NEW p \in Peers,
             \/ Connect(p) \/ Disconnect(p) \/ Gone(p) \/ Connected(p)
             \/ WriteConnected(p)
      PROVE  SampleTypes'
  BY <1>3 DEF Connect, Disconnect, Gone, Destroyed, Connected, WriteConnected
<1>4. ASSUME NEW p \in Peers,
             \/ CheckClosed(p) \/ WriteClosed(p) \/ ClearPeer(p)
             \/ CloseRtcp(p)
      PROVE  SampleTypes'
  BY <1>4 DEF CheckClosed, ClosedAt, Tracks, WriteClosed, ClearPeer, CloseRtcp
<1>5. ASSUME NEW p \in Peers,
             \/ ReadRtcp(p) \/ PutRtcp(p) \/ ReceiveRtcp(p)
             \/ SendSample(p) \/ PutRtcpPanics(p)
      PROVE  SampleTypes'
  BY <1>5 DEF ReadRtcp, RtcpStep, PutRtcp, ReceiveRtcp, SendSample, peerVars,
         PutRtcpPanics
<1>6. ASSUME NEW r \in Requests, NEW p \in Peers, NEW ok \in BOOLEAN,
             NewPeer(r, p, ok)
      PROVE  SampleTypes'
  BY <1>6 DEF NewPeer
<1>7. ASSUME NEW r \in Requests, Gathered(r) PROVE SampleTypes'
  BY <1>7 DEF Gathered, Goto, Done, Quiet
<1>8. ASSUME NEW r \in Requests, SetVideo(r) PROVE SampleTypes'
  BY <1>8 DEF SetVideo, SetStream, Goto, Done, Quiet
<1>9. ASSUME NEW r \in Requests, SetAudio(r) PROVE SampleTypes'
  BY <1>9 DEF SetAudio, Done, Quiet
<1>10. ASSUME NEW p \in Peers, NEW k \in Kinds,
              \/ RemoveStream(p, k) \/ CloseSample(p, k)
      PROVE  SampleTypes'
  BY <1>10 DEF RemoveStream, ClosedAt, CloseSample
<1>11. ASSUME NEW p \in Peers, NEW t \in Tickers, Tick(p, t)
      PROVE  SampleTypes'
  BY <1>11 DEF Tick, TickerAt
<1>12. ASSUME NEW p \in Peers, NEW found \in BOOLEAN, Estimate(p, found)
      PROVE  SampleTypes'
  <2>1. UNCHANGED open /\ (listens' = listens \/ SetStream(p))
        /\ TickerAt(p, "estimatorReader", "waits")
    BY <1>12 DEF Estimate
  <2>2. listens' \in [Peers -> SUBSET Kinds]
    <3>1. listens \in [Peers -> SUBSET Kinds]
      OBVIOUS
    <3> HIDE DEF SampleTypes
    <3> QED BY <2>1, <3>1 DEF SetStream
  <2>3. "estimatorReader" \in Tickers
    BY DEF Tickers
  <2> QED BY <2>1, <2>2, <2>3 DEF TickerAt
<1> QED BY <1>1, <1>2, <1>3, <1>4, <1>5, <1>6, <1>7, <1>8, <1>9, <1>10, <1>11,
          <1>12
        DEF PeersNext, Alive, Request, Callback, Goroutine, Kinds, Tickers

\* No peer is not a peer.
LEMMA NoPeerFact == NoPeer \notin Peers
BY DEF NoPeer, Peers

(***************************************************************************)
(* What each kind of step does to the peers and to the message loops, for  *)
(* one peer or loop at a time.                                             *)
(***************************************************************************)
LEMMA DestroyedFact ==
    ASSUME PeerTypes, NEW d \in Peers \cup {NoPeer}, Destroyed(d)
    PROVE  \A q \in Peers :
              /\ q # d => conn'[q] = conn[q] /\ onClosed'[q] = onClosed[q]
              /\ q = d => /\ conn'[q] = "closed"
                          /\ conn[q] = "closed" => onClosed'[q] = onClosed[q]
                          /\ conn[q] # "closed" => onClosed'[q] = "check"
BY NoPeerFact DEF Destroyed, PeerTypes

LEMMA ClosedFact ==
    ASSUME PeerTypes, NEW p \in Peers, NEW from, NEW to, ClosedAt(p, from, to)
    PROVE  /\ onClosed[p] = from /\ onClosed'[p] = to
           /\ \A q \in Peers \ {p} : onClosed'[q] = onClosed[q]
           /\ UNCHANGED <<conn, made, tickers, onGone, req, late, overtaken>>
BY DEF ClosedAt, PeerTypes

LEMMA MadeFact ==
    ASSUME PeerTypes, NEW p, NEW v, made' = [made EXCEPT ![p] = v]
    PROVE  \A q \in Peers : made'[q] = IF q = p THEN v ELSE made[q]
<1>1. DOMAIN made = Peers
  BY DEF PeerTypes
<1> QED BY <1>1

LEMMA NewPeerFact ==
    ASSUME PeerTypes, RequestTypes,
           NEW r \in Requests, NEW p \in Peers, NEW ok \in BOOLEAN,
           NewPeer(r, p, ok)
    PROVE  /\ req[r].pc = "idle" /\ conn[p] = "none"
           /\ conn'[p] = "new" /\ made'[p] = "made"
           /\ \A q \in Peers \ {p} : conn'[q] = conn[q] /\ made'[q] = made[q]
           /\ \/ req' = req
              \/ /\ req'[r].pc = "swap" /\ req'[r].peer = p
                 /\ req'[r].old = NoPeer
                 /\ \A q \in Requests \ {r} : req'[q] = req[q]
           /\ UNCHANGED <<webrtcPeer, watching, listens, tickers, onGone,
                          onClosed, late, overtaken>>
BY DEF NewPeer, PeerTypes, RequestTypes

LEMMA SwapPeerFact ==
    ASSUME PeerTypes, RequestTypes, NEW r \in Requests, SwapPeer(r)
    PROVE  /\ req[r].pc = "swap"
           /\ webrtcPeer' = req[r].peer
           /\ req[r].peer \in Peers => made'[req[r].peer] = "registered"
           /\ \A q \in Peers : q # req[r].peer => made'[q] = made[q]
           /\ req'[r].pc = "replace" /\ req'[r].peer = req[r].peer
           /\ req'[r].old = webrtcPeer
           /\ \A q \in Requests \ {r} : req'[q] = req[q]
           /\ UNCHANGED <<watching, conn, listens, open, tickers, onGone,
                          onClosed, late, overtaken>>
BY DEF SwapPeer, PeerTypes, RequestTypes

LEMMA ReplacePeerFact ==
    ASSUME RequestTypes, NEW r \in Requests, ReplacePeer(r)
    PROVE  /\ req[r].pc = "replace"
           /\ Destroyed(IF req[r].old = webrtcPeer THEN NoPeer ELSE req[r].old)
           /\ req'[r].pc = "offer" /\ req'[r].peer = req[r].peer
           /\ req'[r].old = req[r].old
           /\ \A q \in Requests \ {r} : req'[q] = req[q]
           /\ UNCHANGED <<webrtcPeer, watching, made, listens, open, tickers,
                          onGone, late, overtaken>>
BY DEF ReplacePeer, Goto, RequestTypes

\* A loop that has got its peer goes on with it, or is done with it.
LEMMA GotoFact ==
    ASSUME RequestTypes, NEW r \in Requests, NEW pc, Goto(r, pc) \/ Done(r)
    PROVE  /\ \A q \in Requests \ {r} : req'[q] = req[q]
           /\ \/ /\ req'[r].pc = pc /\ req'[r].peer = req[r].peer
                 /\ req'[r].old = req[r].old
              \/ req'[r].pc = "idle" /\ req'[r].old = NoPeer
BY DEF Goto, Done, Quiet, RequestTypes

LEMMA CreateOfferFact ==
    ASSUME RequestTypes, NEW r \in Requests, CreateOffer(r)
    PROVE  /\ req[r].pc = "offer"
           /\ Goto(r, "gather") \/ Done(r)
           /\ UNCHANGED <<webrtcPeer, watching, peerVars, late, overtaken>>
BY DEF CreateOffer

LEMMA GatheredFact ==
    ASSUME PeerTypes, NEW r \in Requests, Gathered(r)
    PROVE  /\ req[r].pc = "gather"
           /\ \/ Goto(r, "first") /\ scene.details
              \/ Done(r)
           /\ \A q \in Peers :
                  \/ made'[q] = made[q]
                  \/ made[q] = "registered" /\ made'[q] = "offered"
           /\ UNCHANGED <<webrtcPeer, watching, conn, listens, open, onGone,
                          onClosed, late, overtaken>>
<1>1. /\ req[r].pc = "gather"
      /\ \/ Goto(r, "first") /\ scene.details
         \/ Done(r)
      /\ UNCHANGED <<webrtcPeer, watching, conn, listens, open, onGone,
                     onClosed, late, overtaken>>
  BY DEF Gathered
<1>2. \/ made' = made
      \/ /\ made[req[r].peer] = "registered"
         /\ made' = [made EXCEPT ![req[r].peer] = "offered"]
  BY DEF Gathered
<1>3. \A q \in Peers :
          \/ made'[q] = made[q]
          \/ made[q] = "registered" /\ made'[q] = "offered"
  BY <1>2, MadeFact
<1> QED BY <1>1, <1>3

SetMedia(r) == SetVideo(r) \/ SetVideoFails(r) \/ SetAudio(r)

LEMMA SetMediaFact ==
    ASSUME NEW r \in Requests, SetMedia(r)
    PROVE  /\ req[r].pc \in {"first", "video", "audio"}
           /\ Goto(r, "audio") \/ Done(r)
           /\ UNCHANGED <<webrtcPeer, watching, conn, made, open, tickers,
                          onGone, onClosed, overtaken>>
BY DEF SetMedia, SetVideo, SetVideoFails, SetAudio, peerVars

LEMMA FetchFact ==
    ASSUME RequestTypes, NEW r \in Requests, NEW pc, Fetch(r, pc)
    PROVE  /\ scene.details /\ webrtcPeer # NoPeer
           /\ req[r].pc = "idle"
           /\ req'[r].pc = pc /\ req'[r].peer = webrtcPeer
           /\ req'[r].old = NoPeer
           /\ \A q \in Requests \ {r} : req'[q] = req[q]
           /\ UNCHANGED <<webrtcPeer, watching, peerVars, late, overtaken>>
BY DEF Fetch, RequestTypes

LEMMA AnswerFact ==
    ASSUME PeerTypes, Answer
    PROVE  /\ \A q \in Peers :
                 \/ made'[q] = made[q]
                 \/ made[q] = "offered" /\ made'[q] = "answered"
           /\ UNCHANGED <<webrtcPeer, watching, conn, listens, open, tickers,
                          onGone, onClosed, req, late, overtaken>>
<1>1. /\ made[webrtcPeer] = "offered"
      /\ made' = [made EXCEPT ![webrtcPeer] = "answered"]
      /\ UNCHANGED <<webrtcPeer, watching, conn, listens, open, tickers,
                     onGone, onClosed, req, late, overtaken>>
  BY DEF Answer
<1>2. \A q \in Peers :
          \/ made'[q] = made[q]
          \/ made[q] = "offered" /\ made'[q] = "answered"
  BY <1>1, MadeFact
<1> QED BY <1>1, <1>2

LEMMA EvictPeerFact ==
    ASSUME EvictPeer
    PROVE  /\ Destroyed(webrtcPeer)
           /\ UNCHANGED <<webrtcPeer, watching, made, listens, open, tickers,
                          onGone, req, late, overtaken>>
BY DEF EvictPeer

LEMMA GoneFact ==
    ASSUME PeerTypes, NEW p \in Peers, Gone(p)
    PROVE  /\ onGone[p] /\ Destroyed(p)
           /\ ~onGone'[p]
           /\ \A q \in Peers \ {p} : onGone'[q] = onGone[q]
           /\ UNCHANGED <<webrtcPeer, watching, made, listens, open, tickers,
                          req, late, overtaken>>
BY DEF Gone, PeerTypes

LEMMA ConnectFact ==
    ASSUME PeerTypes, NEW p \in Peers, Connect(p) \/ Disconnect(p)
    PROVE  /\ made[p] = "answered" \/ conn[p] = "connected"
           /\ conn[p] # "closed" /\ conn'[p] \in {"connected", "disconnected"}
           /\ \A q \in Peers \ {p} :
                  conn'[q] = conn[q] /\ onGone'[q] = onGone[q]
           /\ UNCHANGED <<webrtcPeer, watching, made, listens, open, tickers,
                          onClosed, req, late, overtaken>>
BY DEF Connect, Disconnect, PeerTypes

\* The steps that leave all of this alone.
Still == \/ Evict \/ UNCHANGED peersVars
         \/ \E p \in Peers : \/ Connected(p) \/ ReadRtcp(p) \/ PutRtcp(p)
                             \/ ReceiveRtcp(p) \/ PutRtcpPanics(p)
                             \/ SendSample(p)

LEMMA StillFact ==
    ASSUME Still
    PROVE  UNCHANGED <<webrtcPeer, watching, conn, made, listens, open, tickers,
                       onGone, onClosed, req, late, overtaken>>
BY DEF Still, Evict, Connected, ReadRtcp, PutRtcp, ReceiveRtcp, RtcpStep,
       PutRtcpPanics, SendSample, peersVars, peerVars

Ticks(p) == \/ \E t \in Tickers : Tick(p, t)
            \/ \E found \in BOOLEAN : Estimate(p, found)

LEMMA TicksFact ==
    ASSUME NEW p \in Peers, Ticks(p)
    PROVE  UNCHANGED <<webrtcPeer, watching, conn, made, open, onGone, onClosed,
                       req, overtaken>>
BY DEF Ticks, Tick, Estimate

LEMMA WriteConnectedFact ==
    ASSUME NEW p \in Peers, WriteConnected(p)
    PROVE  /\ watching'
           /\ ~overtaken' => webrtcPeer = p
                             /\ onClosed[p] \in {"no", "check", "write"}
           /\ UNCHANGED <<webrtcPeer, conn, made, listens, open, tickers,
                          onGone, onClosed, req, late>>
BY DEF WriteConnected

\* The steps of the Closed callback.
Closes(p) ==
    \/ CheckClosed(p) \/ WriteClosed(p) \/ ClearPeer(p) \/ CloseRtcp(p)
    \/ \E k \in Kinds : RemoveStream(p, k) \/ CloseSample(p, k)

LEMMA ClosesFact ==
    ASSUME PeerTypes, NEW p \in Peers, Closes(p)
    PROVE  /\ onClosed[p] # "no" /\ onClosed'[p] # "no"
           /\ \A q \in Peers \ {p} : onClosed'[q] = onClosed[q]
           /\ UNCHANGED <<conn, made, tickers, onGone, req, late, overtaken>>
           /\ \/ webrtcPeer' = webrtcPeer
              \/ webrtcPeer = p /\ webrtcPeer' = NoPeer
<1>1. ASSUME NEW from, NEW to, ClosedAt(p, from, to), from # "no", to # "no",
             \/ webrtcPeer' = webrtcPeer
             \/ webrtcPeer = p /\ webrtcPeer' = NoPeer
      PROVE  /\ onClosed[p] # "no" /\ onClosed'[p] # "no"
             /\ \A q \in Peers \ {p} : onClosed'[q] = onClosed[q]
             /\ UNCHANGED <<conn, made, tickers, onGone, req, late, overtaken>>
             /\ \/ webrtcPeer' = webrtcPeer
                \/ webrtcPeer = p /\ webrtcPeer' = NoPeer
  BY <1>1, ClosedFact
<1>2. CASE CheckClosed(p)
  BY <1>1, <1>2 DEF CheckClosed, Tracks
<1>3. CASE WriteClosed(p)
  BY <1>1, <1>3 DEF WriteClosed
<1>4. CASE ClearPeer(p)
  BY <1>1, <1>4 DEF ClearPeer, Tracks
<1>5. CASE CloseRtcp(p)
  BY <1>1, <1>5 DEF CloseRtcp
<1>6. CASE \E k \in Kinds : RemoveStream(p, k)
  BY <1>1, <1>6 DEF RemoveStream, Kinds
<1>7. CASE \E k \in Kinds : CloseSample(p, k)
  BY <1>1, <1>7 DEF CloseSample
<1> QED BY <1>2, <1>3, <1>4, <1>5, <1>6, <1>7 DEF Closes

\* Every step is of one of these kinds.
OfLoop(r) ==
    \/ \E p \in Peers, ok \in BOOLEAN : NewPeer(r, p, ok)
    \/ SwapPeer(r) \/ ReplacePeer(r) \/ CreateOffer(r) \/ Gathered(r)
    \/ SetMedia(r) \/ \E pc \in {"offer", "video"} : Fetch(r, pc)

OfPeer(p) ==
    \/ Connect(p) \/ Disconnect(p) \/ Gone(p) \/ WriteConnected(p)
    \/ Closes(p) \/ Ticks(p)

LEMMA KindsFact ==
    ASSUME [PeersNext]_peersVars
    PROVE  \/ Still \/ Answer \/ EvictPeer
           \/ \E r \in Requests : OfLoop(r)
           \/ \E p \in Peers : OfPeer(p)
<1>1. ASSUME NEW r \in Requests, Request(r) PROVE OfLoop(r)
  BY <1>1 DEF Request, OfLoop, SetMedia
<1>2. ASSUME NEW p \in Peers, Callback(p) \/ Goroutine(p)
      PROVE  Still \/ OfPeer(p)
  BY <1>2 DEF Callback, Goroutine, OfPeer, Closes, Ticks, Still
<1> QED BY <1>1, <1>2 DEF PeersNext, Still, OfPeer

LEMMA StagesStep ==
    PeerTypes /\ RequestTypes /\ Stages /\ Loops /\ [PeersNext]_peersVars
        => Stages'
<1> SUFFICES ASSUME PeerTypes, RequestTypes, Stages, Loops,
                    [PeersNext]_peersVars
             PROVE  Stages'
  OBVIOUS
<1>1. CASE Still
  BY <1>1, StillFact DEF Stages
<1>2. CASE Answer
  BY <1>2, AnswerFact DEF Stages
<1>3. CASE EvictPeer
  BY <1>3, EvictPeerFact, DestroyedFact, NoPeerFact
     DEF Stages, Loops, Registered, RequestTypes
<1>4. ASSUME NEW r \in Requests, OfLoop(r) PROVE Stages'
  <2>1. ASSUME NEW p \in Peers, NEW ok \in BOOLEAN, NewPeer(r, p, ok)
        PROVE  Stages'
    BY <2>1, NewPeerFact DEF Stages
  <2>2. CASE SwapPeer(r)
    BY <2>2, SwapPeerFact DEF Stages, Loops
  <2>3. CASE ReplacePeer(r)
    BY <2>3, ReplacePeerFact, DestroyedFact, NoPeerFact
       DEF Stages, Loops, Registered, RequestTypes
  <2>4. CASE CreateOffer(r)
    BY <2>4, CreateOfferFact DEF Stages, peerVars
  <2>5. CASE Gathered(r)
    BY <2>5, GatheredFact DEF Stages
  <2>6. CASE SetMedia(r)
    BY <2>6, SetMediaFact DEF Stages
  <2>7. ASSUME NEW pc \in {"offer", "video"}, Fetch(r, pc) PROVE Stages'
    BY <2>7, FetchFact DEF Stages, peerVars
  <2> QED BY <1>4, <2>1, <2>2, <2>3, <2>4, <2>5, <2>6, <2>7 DEF OfLoop
<1>5. ASSUME NEW p \in Peers, OfPeer(p) PROVE Stages'
  <2>1. CASE Connect(p) \/ Disconnect(p)
    BY <2>1, ConnectFact DEF Stages
  <2>2. CASE Gone(p)
    BY <2>2, GoneFact, DestroyedFact DEF Stages
  <2>3. CASE WriteConnected(p)
    BY <2>3, WriteConnectedFact DEF Stages
  <2>4. CASE Closes(p)
    BY <2>4, ClosesFact DEF Stages
  <2>5. CASE Ticks(p)
    BY <2>5, TicksFact DEF Stages
  <2> QED BY <1>5, <2>1, <2>2, <2>3, <2>4, <2>5 DEF OfPeer
<1> QED BY <1>1, <1>2, <1>3, <1>4, <1>5, KindsFact

\* What a message loop knows of its peer stays true.
LEMMA LoopsStep ==
    PeerTypes /\ RequestTypes /\ Stages /\ Loops /\ [PeersNext]_peersVars
        => Loops'
<1> SUFFICES ASSUME PeerTypes, RequestTypes, Stages, Loops,
                    [PeersNext]_peersVars
             PROVE  Loops'
  OBVIOUS
<1>1. CASE Still
  BY <1>1, StillFact DEF Loops, Registered
<1>2. CASE Answer
  BY <1>2, AnswerFact DEF Loops, Registered
<1>3. CASE EvictPeer
  BY <1>3, EvictPeerFact DEF Loops, Registered
<1>4. ASSUME NEW r \in Requests, OfLoop(r) PROVE Loops'
  <2>1. ASSUME NEW p \in Peers, NEW ok \in BOOLEAN, NewPeer(r, p, ok)
        PROVE  Loops'
    BY <2>1, NewPeerFact DEF Loops, Registered, Stages
  <2>2. CASE SwapPeer(r)
    BY <2>2, SwapPeerFact DEF Loops, Registered
  <2>3. CASE ReplacePeer(r)
    BY <2>3, ReplacePeerFact DEF Loops, Registered
  <2>4. CASE CreateOffer(r)
    BY <2>4, CreateOfferFact, GotoFact DEF Loops, Registered, peerVars
  <2>5. CASE Gathered(r)
    BY <2>5, GatheredFact, GotoFact DEF Loops, Registered
  <2>6. CASE SetMedia(r)
    BY <2>6, SetMediaFact, GotoFact DEF Loops, Registered
  <2>7. ASSUME NEW pc \in {"offer", "video"}, Fetch(r, pc) PROVE Loops'
    BY <2>7, FetchFact DEF Loops, Registered, peerVars
  <2> QED BY <1>4, <2>1, <2>2, <2>3, <2>4, <2>5, <2>6, <2>7 DEF OfLoop
<1>5. ASSUME NEW p \in Peers, OfPeer(p) PROVE Loops'
  <2>1. CASE Connect(p) \/ Disconnect(p)
    BY <2>1, ConnectFact DEF Loops, Registered
  <2>2. CASE Gone(p)
    BY <2>2, GoneFact DEF Loops, Registered
  <2>3. CASE WriteConnected(p)
    BY <2>3, WriteConnectedFact DEF Loops, Registered
  <2>4. CASE Closes(p)
    BY <2>4, ClosesFact DEF Loops, Registered
  <2>5. CASE Ticks(p)
    BY <2>5, TicksFact DEF Loops, Registered
  <2> QED BY <1>5, <2>1, <2>2, <2>3, <2>4, <2>5 DEF OfPeer
<1> QED BY <1>1, <1>2, <1>3, <1>4, <1>5, KindsFact

\* A peer that was replaced is closed by the loop that replaced it.
LEMMA ReplacedStep ==
    PeerTypes /\ RequestTypes /\ Stages /\ Loops /\ Replaced
      /\ [PeersNext]_peersVars
        => Replaced'
<1> SUFFICES ASSUME PeerTypes, RequestTypes, Stages, Loops, Replaced,
                    [PeersNext]_peersVars
             PROVE  Replaced'
  OBVIOUS
<1>1. CASE Still
  BY <1>1, StillFact DEF Replaced, Registered
<1>2. CASE Answer
  BY <1>2, AnswerFact DEF Replaced, Registered
<1>3. CASE EvictPeer
  BY <1>3, EvictPeerFact, DestroyedFact DEF Replaced, Registered, RequestTypes
<1>4. ASSUME NEW r \in Requests, OfLoop(r) PROVE Replaced'
  <2>1. ASSUME NEW p \in Peers, NEW ok \in BOOLEAN, NewPeer(r, p, ok)
        PROVE  Replaced'
    BY <2>1, NewPeerFact DEF Replaced, Registered, Stages
  <2>2. CASE SwapPeer(r)
    BY <2>2, SwapPeerFact DEF Replaced, Registered, Loops
  <2>3. CASE ReplacePeer(r)
    BY <2>3, ReplacePeerFact, DestroyedFact, NoPeerFact
       DEF Replaced, Registered, RequestTypes
  <2>4. CASE CreateOffer(r)
    BY <2>4, CreateOfferFact, GotoFact DEF Replaced, Registered, peerVars
  <2>5. CASE Gathered(r)
    BY <2>5, GatheredFact, GotoFact DEF Replaced, Registered
  <2>6. CASE SetMedia(r)
    BY <2>6, SetMediaFact, GotoFact DEF Replaced, Registered
  <2>7. ASSUME NEW pc \in {"offer", "video"}, Fetch(r, pc) PROVE Replaced'
    BY <2>7, FetchFact DEF Replaced, Registered, peerVars
  <2> QED BY <1>4, <2>1, <2>2, <2>3, <2>4, <2>5, <2>6, <2>7 DEF OfLoop
<1>5. ASSUME NEW p \in Peers, OfPeer(p) PROVE Replaced'
  <2>1. CASE Connect(p) \/ Disconnect(p)
    BY <2>1, ConnectFact DEF Replaced, Registered
  <2>2. CASE Gone(p)
    BY <2>2, GoneFact, DestroyedFact DEF Replaced, Registered
  <2>3. CASE WriteConnected(p)
    BY <2>3, WriteConnectedFact DEF Replaced, Registered
  <2>4. CASE Closes(p)
    BY <2>4, ClosesFact DEF Replaced, Registered, Stages
  <2>5. CASE Ticks(p)
    BY <2>5, TicksFact DEF Replaced, Registered
  <2> QED BY <1>5, <2>1, <2>2, <2>3, <2>4, <2>5 DEF OfPeer
<1> QED BY <1>1, <1>2, <1>3, <1>4, <1>5, KindsFact

\* The session stops watching before its peer is taken away.
LEMMA WatchedStep ==
    PeerTypes /\ RequestTypes /\ Stages /\ Loops /\ Watched
      /\ [PeersNext]_peersVars
        => Watched'
<1> SUFFICES ASSUME PeerTypes, RequestTypes, Stages, Loops, Watched,
                    [PeersNext]_peersVars
             PROVE  Watched'
  OBVIOUS
<1>1. CASE Still
  BY <1>1, StillFact DEF Watched
<1>2. CASE Answer
  BY <1>2, AnswerFact DEF Watched
<1>3. CASE EvictPeer
  BY <1>3, EvictPeerFact, DestroyedFact, NoPeerFact DEF Watched, RequestTypes
<1>4. ASSUME NEW r \in Requests, OfLoop(r) PROVE Watched'
  <2>1. ASSUME NEW p \in Peers, NEW ok \in BOOLEAN, NewPeer(r, p, ok)
        PROVE  Watched'
    BY <2>1, NewPeerFact DEF Watched
  <2>2. CASE SwapPeer(r)
    <3>1. req[r].peer \in Peers /\ made[req[r].peer] = "made"
      BY <2>2, SwapPeerFact DEF Loops
    <3>2. onClosed[req[r].peer] = "no"
      BY <3>1 DEF Stages
    <3> QED BY <2>2, <3>1, <3>2, SwapPeerFact, NoPeerFact DEF Watched
  <2>3. CASE ReplacePeer(r)
    BY <2>3, ReplacePeerFact, DestroyedFact, NoPeerFact
       DEF Watched, RequestTypes
  <2>4. CASE CreateOffer(r)
    BY <2>4, CreateOfferFact DEF Watched, peerVars
  <2>5. CASE Gathered(r)
    BY <2>5, GatheredFact DEF Watched
  <2>6. CASE SetMedia(r)
    BY <2>6, SetMediaFact DEF Watched
  <2>7. ASSUME NEW pc \in {"offer", "video"}, Fetch(r, pc) PROVE Watched'
    BY <2>7, FetchFact DEF Watched, peerVars
  <2> QED BY <1>4, <2>1, <2>2, <2>3, <2>4, <2>5, <2>6, <2>7 DEF OfLoop
<1>5. ASSUME NEW p \in Peers, OfPeer(p) PROVE Watched'
  <2>1. CASE Connect(p) \/ Disconnect(p)
    BY <2>1, ConnectFact DEF Watched
  <2>2. CASE Gone(p)
    BY <2>2, GoneFact, DestroyedFact, NoPeerFact DEF Watched, RequestTypes
  <2>3. CASE WriteConnected(p)
    BY <2>3, WriteConnectedFact, NoPeerFact DEF Watched
  <2>4. CASE Closes(p)
    <3>1. CASE WriteClosed(p)
      BY <3>1 DEF WriteClosed, Watched
    <3>2. CASE ClearPeer(p)
      <4>1. /\ onClosed[p] = "clear" /\ onClosed'[p] \in {"audio", "over"}
            /\ \A q \in Peers \ {p} : onClosed'[q] = onClosed[q]
            /\ overtaken' = overtaken
        BY <3>2, ClosedFact DEF ClearPeer, Tracks
      <4>2. /\ webrtcPeer' = IF webrtcPeer = p THEN NoPeer ELSE webrtcPeer
            /\ watching' = watching
        BY <3>2 DEF ClearPeer
      <4> QED BY <4>1, <4>2 DEF Watched, RequestTypes
    <3>3. CASE ~WriteClosed(p) /\ ~ClearPeer(p)
      <4>1. UNCHANGED <<webrtcPeer, watching>> /\ onClosed'[p] # "clear"
        <5>1. CASE CheckClosed(p)
          BY <5>1, ClosedFact DEF CheckClosed, Tracks
        <5>2. CASE CloseRtcp(p)
          BY <5>2, ClosedFact DEF CloseRtcp
        <5>3. ASSUME NEW k \in Kinds, RemoveStream(p, k)
              PROVE  /\ UNCHANGED <<webrtcPeer, watching>>
                     /\ onClosed'[p] # "clear"
          BY <5>3 DEF RemoveStream, ClosedAt, PeerTypes
        <5>4. ASSUME NEW k \in Kinds, CloseSample(p, k)
              PROVE  /\ UNCHANGED <<webrtcPeer, watching>>
                     /\ onClosed'[p] # "clear"
          BY <5>4 DEF CloseSample, ClosedAt, PeerTypes
        <5> QED BY <2>4, <3>3, <5>1, <5>2, <5>3, <5>4 DEF Closes
      <4> QED BY <2>4, <4>1, ClosesFact, NoPeerFact DEF Watched, RequestTypes
    <3> QED BY <3>1, <3>2, <3>3
  <2>5. CASE Ticks(p)
    BY <2>5, TicksFact DEF Watched
  <2> QED BY <1>5, <2>1, <2>2, <2>3, <2>4, <2>5 DEF OfPeer
<1> QED BY <1>1, <1>2, <1>3, <1>4, <1>5, KindsFact

-----------------------------------------------------------------------------
\* What registers the video track, and what it may come after.
LEMMA SetStreamFact ==
    ASSUME SampleTypes, NEW p \in Peers, SetStream(p)
    PROVE  /\ \A q \in Peers : listens'[q] = IF q = p
                                             THEN listens[q] \cup {"video"}
                                             ELSE listens[q]
           /\ late => late'
           /\ onClosed[p] \in {"video close", "rtcp", "over"} => late'
<1>1. listens \in [Peers -> SUBSET Kinds]
  BY DEF SampleTypes
<1> QED BY <1>1 DEF SetStream

LEMMA FedSetStream ==
    ASSUME PeerTypes, SampleTypes, Fed, NEW p \in Peers, SetStream(p),
           made[p] # "no", scene.details,
           UNCHANGED <<scene, made, open, onClosed>>,
           \A q \in Peers, t \in Tickers :
               tickers'[q][t] # "no" => tickers[q][t] # "no"
    PROVE  Fed'
<1>1. \A r \in Requests :
         req'[r].pc \in {"first", "video", "audio"} => scene'.details
  OBVIOUS
<1>2. onClosed[p] \in BeforeVideo \/ late'
  <2>1. onClosed[p] \in BeforeVideo
        \/ onClosed[p] \in {"video close", "rtcp", "over"}
    BY DEF PeerTypes, BeforeAudio, BeforeVideo
  <2> QED BY <2>1, SetStreamFact
<1>3. /\ \A q \in Peers \ {p} : listens'[q] = listens[q]
      /\ listens'[p] = listens[p] \cup {"video"}
      /\ late => late'
  BY SetStreamFact
<1> QED BY <1>1, <1>2, <1>3 DEF Fed

\* What is new about the tracks and the tickers of a peer.
LEMMA NewTracksFact ==
    ASSUME SampleTypes, NEW r \in Requests, NEW p \in Peers, NEW ok \in BOOLEAN,
           NewPeer(r, p, ok)
    PROVE  /\ scene.details => open'[p] = Kinds
           /\ \A q \in Peers \ {p} : open'[q] = open[q]
<1>1. DOMAIN open = Peers
  BY DEF SampleTypes
<1> QED BY <1>1 DEF NewPeer

LEMMA GatheredTickersFact ==
    ASSUME SampleTypes, NEW r \in Requests, Gathered(r)
    PROVE  \A q \in Peers : \/ tickers'[q] = tickers[q]
                            \/ q = req[r].peer /\ scene.details
<1>1. DOMAIN tickers = Peers
  BY DEF SampleTypes
<1>2. \/ tickers' = tickers
      \/ /\ scene.details
         /\ tickers' = [tickers EXCEPT ![req[r].peer] =
                            [t \in Tickers |-> "waits"]]
  BY DEF Gathered
<1> QED BY <1>1, <1>2

LEMMA TickerFact ==
    ASSUME SampleTypes, NEW p \in Peers, NEW t \in Tickers, NEW to,
           TickerAt(p, t, to)
    PROVE  \A q \in Peers, u \in Tickers :
               tickers'[q][u] = IF q = p /\ u = t THEN to ELSE tickers[q][u]
<1>1. tickers \in [Peers -> [Tickers -> {"no", "waits", "sets", "over"}]]
  BY DEF SampleTypes
<1> QED BY <1>1 DEF TickerAt

LEMMA RemoveStreamFact ==
    ASSUME SampleTypes, NEW p \in Peers, NEW k \in Kinds, RemoveStream(p, k)
    PROVE  /\ \A q \in Peers : listens'[q] = IF q = p THEN listens[q] \ {k}
                                             ELSE listens[q]
           /\ UNCHANGED open
<1>1. listens \in [Peers -> SUBSET Kinds]
  BY DEF SampleTypes
<1> QED BY <1>1 DEF RemoveStream

LEMMA CloseSampleFact ==
    ASSUME SampleTypes, NEW p \in Peers, NEW k \in Kinds, CloseSample(p, k)
    PROVE  /\ \A q \in Peers : open'[q] = IF q = p THEN open[q] \ {k}
                                          ELSE open[q]
           /\ UNCHANGED listens
<1>1. open \in [Peers -> SUBSET Kinds]
  BY DEF SampleTypes
<1> QED BY <1>1 DEF CloseSample

\* A track is registered only while it has a channel, or when it is set late.
LEMMA FedStep ==
    PeerTypes /\ RequestTypes /\ SampleTypes /\ Stages /\ Loops /\ Fed
      /\ [PeersNext]_peersVars
        => Fed'
<1> SUFFICES ASSUME PeerTypes, RequestTypes, SampleTypes, Stages, Loops, Fed,
                    [PeersNext]_peersVars
             PROVE  Fed'
  OBVIOUS
<1>0. scene' = scene
  BY DEF PeersNext, Alive, SendSample, PutRtcpPanics, peersVars
<1>1. CASE Still
  BY <1>0, <1>1, StillFact DEF Fed
<1>2. CASE Answer
  BY <1>0, <1>2, AnswerFact DEF Fed
<1>3. CASE EvictPeer
  <2>1. \A q \in Peers :
            \/ onClosed'[q] = onClosed[q]
            \/ onClosed[q] = "no" /\ onClosed'[q] = "check"
    BY <1>3, EvictPeerFact, DestroyedFact DEF Stages, RequestTypes
  <2>2. \A q \in Peers :
           /\ onClosed'[q] \in BeforeAudio <=> onClosed[q] \in BeforeAudio
           /\ onClosed'[q] \in BeforeVideo <=> onClosed[q] \in BeforeVideo
    BY <2>1 DEF BeforeAudio, BeforeVideo
  <2> QED BY <1>0, <1>3, <2>2, EvictPeerFact DEF Fed
<1>4. ASSUME NEW r \in Requests, OfLoop(r) PROVE Fed'
  <2>1. ASSUME NEW p \in Peers, NEW ok \in BOOLEAN, NewPeer(r, p, ok)
        PROVE  Fed'
    <3>1. made[p] = "no" /\ listens[p] = {}
          /\ \A t \in Tickers : tickers[p][t] = "no"
      BY <2>1, NewPeerFact DEF Fed, Stages
    <3>2. \A q \in Requests : req'[q].pc \in {"first", "video", "audio"}
                                  => req[q].pc \in {"first", "video", "audio"}
      BY <2>1, NewPeerFact
    <3> QED BY <1>0, <2>1, <3>1, <3>2, NewPeerFact, NewTracksFact DEF Fed, Kinds
  <2>2. CASE SwapPeer(r)
    <3>1. \A q \in Peers : made'[q] # "no" => made[q] # "no"
      BY <2>2, SwapPeerFact DEF Loops
    <3>2. \A q \in Peers : made[q] # "no" => made'[q] # "no"
      BY <2>2, SwapPeerFact
    <3> QED BY <1>0, <2>2, <3>1, <3>2, SwapPeerFact DEF Fed
  <2>3. CASE ReplacePeer(r)
    <3>1. \A q \in Peers :
              \/ onClosed'[q] = onClosed[q]
              \/ onClosed[q] = "no" /\ onClosed'[q] = "check"
      BY <2>3, ReplacePeerFact, DestroyedFact DEF Stages, RequestTypes
    <3>2. \A q \in Requests : req'[q].pc \in {"first", "video", "audio"}
                                  => req[q].pc \in {"first", "video", "audio"}
      BY <2>3, ReplacePeerFact
    <3>3. \A q \in Peers :
             /\ onClosed'[q] \in BeforeAudio <=> onClosed[q] \in BeforeAudio
             /\ onClosed'[q] \in BeforeVideo <=> onClosed[q] \in BeforeVideo
      BY <3>1 DEF BeforeAudio, BeforeVideo
    <3> QED BY <1>0, <2>3, <3>2, <3>3, ReplacePeerFact DEF Fed
  <2>4. CASE CreateOffer(r)
    <3>1. \A q \in Requests : req'[q].pc \in {"first", "video", "audio"}
                                  => req[q].pc \in {"first", "video", "audio"}
      BY <2>4, CreateOfferFact, GotoFact
    <3> QED BY <1>0, <2>4, <3>1, CreateOfferFact DEF Fed, peerVars
  <2>5. CASE Gathered(r)
    <3>1. \A q \in Requests : req'[q].pc \in {"first", "video", "audio"}
                                  => scene.details
      BY <2>5, GatheredFact, GotoFact DEF Fed
    <3>2. /\ made[req[r].peer] # "no"
          /\ \A q \in Peers : (made'[q] # "no") = (made[q] # "no")
      BY <2>5, GatheredFact DEF Loops
    <3> QED BY <1>0, <2>5, <3>1, <3>2, GatheredFact, GatheredTickersFact DEF Fed
  <2>6. CASE SetMedia(r)
    <3>1. /\ req[r].pc \in {"first", "video", "audio"} /\ scene.details
          /\ req[r].peer \in Peers /\ made[req[r].peer] # "no"
      BY <2>6, SetMediaFact DEF Fed, Loops
    <3>2. UNCHANGED <<made, open, tickers, onClosed>>
      BY <2>6, SetMediaFact
    <3>3. CASE SetVideo(r)
      <4>1. SetStream(req[r].peer)
        BY <3>3 DEF SetVideo
      <4> QED BY <1>0, <3>1, <3>2, <4>1, FedSetStream DEF Fed
    <3>4. CASE SetVideoFails(r)
      BY <1>0, <3>1, <3>2, <3>4 DEF SetVideoFails, peerVars, Fed
    <3>5. CASE SetAudio(r)
      <4>1. listens \in [Peers -> SUBSET Kinds]
        BY DEF SampleTypes
      <4>2. /\ late' = late
            /\ \A q \in Peers :
                  \/ listens'[q] = listens[q]
                  \/ /\ q = req[r].peer /\ onClosed[q] \in BeforeAudio
                     /\ listens'[q] = listens[q] \cup {"audio"}
        BY <3>5, <4>1 DEF SetAudio, BeforeAudio
      <4> QED BY <1>0, <3>1, <3>2, <4>2 DEF Fed
    <3> QED BY <2>6, <3>3, <3>4, <3>5 DEF SetMedia
  <2>7. ASSUME NEW pc \in {"offer", "video"}, Fetch(r, pc) PROVE Fed'
    BY <1>0, <2>7, FetchFact DEF Fed, peerVars
  <2> QED BY <1>4, <2>1, <2>2, <2>3, <2>4, <2>5, <2>6, <2>7 DEF OfLoop
<1>5. ASSUME NEW p \in Peers, OfPeer(p) PROVE Fed'
  <2>1. CASE Connect(p) \/ Disconnect(p)
    BY <1>0, <2>1, ConnectFact DEF Fed
  <2>2. CASE Gone(p)
    <3>1. \A q \in Peers :
              \/ onClosed'[q] = onClosed[q]
              \/ onClosed[q] = "no" /\ onClosed'[q] = "check"
      BY <2>2, GoneFact, DestroyedFact DEF Stages
    <3>2. \A q \in Peers :
             /\ onClosed'[q] \in BeforeAudio <=> onClosed[q] \in BeforeAudio
             /\ onClosed'[q] \in BeforeVideo <=> onClosed[q] \in BeforeVideo
      BY <3>1 DEF BeforeAudio, BeforeVideo
    <3> QED BY <1>0, <2>2, <3>2, GoneFact DEF Fed
  <2>3. CASE WriteConnected(p)
    BY <1>0, <2>3, WriteConnectedFact DEF Fed
  <2>4. CASE Closes(p)
    <3>1. UNCHANGED <<made, tickers, req, late>>
          /\ \A q \in Peers \ {p} : onClosed'[q] = onClosed[q]
      BY <2>4, ClosesFact
    <3>2. CASE CheckClosed(p)
      <4>1. /\ onClosed[p] = "check" /\ UNCHANGED <<listens, open>>
            /\ onClosed'[p] \in {"write", "audio"} \/ ~scene.details
        BY <3>2, ClosedFact DEF CheckClosed, Tracks
      <4> QED BY <1>0, <3>1, <4>1 DEF Fed, BeforeAudio, BeforeVideo
    <3>3. CASE WriteClosed(p)
      <4>1. /\ onClosed[p] = "write" /\ onClosed'[p] = "clear"
            /\ UNCHANGED <<listens, open>>
        BY <3>3, ClosedFact DEF WriteClosed
      <4> QED BY <1>0, <3>1, <4>1 DEF Fed, BeforeAudio, BeforeVideo
    <3>4. CASE ClearPeer(p)
      <4>1. /\ onClosed[p] = "clear" /\ UNCHANGED <<listens, open>>
            /\ onClosed'[p] = "audio" \/ ~scene.details
        BY <3>4, ClosedFact DEF ClearPeer, Tracks
      <4> QED BY <1>0, <3>1, <4>1 DEF Fed, BeforeAudio, BeforeVideo
    <3>5. CASE CloseRtcp(p)
      <4>1. /\ onClosed[p] = "rtcp" /\ onClosed'[p] = "over"
            /\ UNCHANGED <<listens, open>>
        BY <3>5, ClosedFact DEF CloseRtcp
      <4> QED BY <1>0, <3>1, <4>1 DEF Fed, BeforeAudio, BeforeVideo
    <3>6. CASE RemoveStream(p, "audio")
      <4>1. onClosed[p] = "audio" /\ onClosed'[p] = "audio close"
        BY <3>6, ClosedFact DEF RemoveStream
      <4>2. /\ \A q \in Peers \ {p} : listens'[q] = listens[q]
            /\ listens'[p] = listens[p] \ {"audio"} /\ open' = open
        BY <3>6, RemoveStreamFact DEF Kinds
      <4>3. /\ onClosed'[p] \in BeforeVideo \ BeforeAudio
            /\ onClosed[p] \in BeforeVideo
        BY <4>1 DEF BeforeAudio, BeforeVideo
      <4> QED BY <1>0, <3>1, <4>2, <4>3 DEF Fed
    <3>7. CASE RemoveStream(p, "video")
      <4>1. onClosed[p] = "video" /\ onClosed'[p] = "video close"
        BY <3>7, ClosedFact DEF RemoveStream
      <4>2. /\ \A q \in Peers \ {p} : listens'[q] = listens[q]
            /\ listens'[p] = listens[p] \ {"video"} /\ open' = open
        BY <3>7, RemoveStreamFact DEF Kinds
      <4>3. /\ onClosed'[p] \notin BeforeVideo /\ onClosed[p] \notin BeforeAudio
            /\ onClosed'[p] \notin BeforeAudio
        BY <4>1 DEF BeforeAudio, BeforeVideo
      <4> QED BY <1>0, <3>1, <4>2, <4>3 DEF Fed
    <3>8. CASE CloseSample(p, "audio")
      <4>1. onClosed[p] = "audio close" /\ onClosed'[p] = "video"
        BY <3>8, ClosedFact DEF CloseSample
      <4>2. /\ \A q \in Peers \ {p} : open'[q] = open[q]
            /\ open'[p] = open[p] \ {"audio"} /\ listens' = listens
        BY <3>8, CloseSampleFact DEF Kinds
      <4>3. /\ onClosed'[p] \in BeforeVideo \ BeforeAudio
            /\ onClosed[p] \in BeforeVideo \ BeforeAudio
        BY <4>1 DEF BeforeAudio, BeforeVideo
      <4> QED BY <1>0, <3>1, <4>2, <4>3 DEF Fed
    <3>9. CASE CloseSample(p, "video")
      <4>1. onClosed[p] = "video close" /\ onClosed'[p] = "rtcp"
        BY <3>9, ClosedFact DEF CloseSample
      <4>2. /\ \A q \in Peers \ {p} : open'[q] = open[q]
            /\ open'[p] = open[p] \ {"video"} /\ listens' = listens
        BY <3>9, CloseSampleFact DEF Kinds
      <4>3. /\ onClosed'[p] \notin BeforeVideo /\ onClosed'[p] \notin BeforeAudio
            /\ onClosed[p] \notin BeforeVideo /\ onClosed[p] \notin BeforeAudio
        BY <4>1 DEF BeforeAudio, BeforeVideo
      <4> QED BY <1>0, <3>1, <4>2, <4>3 DEF Fed
    <3> QED BY <2>4, <3>2, <3>3, <3>4, <3>5, <3>6, <3>7, <3>8, <3>9
            DEF Closes, Kinds
  <2>5. CASE Ticks(p)
    <3>1. UNCHANGED <<made, open, onClosed, req>>
      BY <2>5, TicksFact
    <3>2. ASSUME NEW t \in Tickers, Tick(p, t) PROVE Fed'
      <4>1. /\ tickers[p][t] = "waits" /\ UNCHANGED <<listens, late>>
            /\ TickerAt(p, t, "over") \/ TickerAt(p, t, "sets")
        BY <3>2 DEF Tick
      <4> QED BY <1>0, <3>1, <4>1, TickerFact DEF Fed
    <3>3. ASSUME NEW found \in BOOLEAN, Estimate(p, found) PROVE Fed'
      <4>1. /\ tickers[p]["estimatorReader"] = "sets"
            /\ TickerAt(p, "estimatorReader", "waits")
            /\ SetStream(p) \/ UNCHANGED <<listens, late>>
        BY <3>3 DEF Estimate
      <4>2. "estimatorReader" \in Tickers
        BY DEF Tickers
      <4>3. made[p] # "no" /\ scene.details
        BY <4>1, <4>2 DEF Fed
      <4>4. \A q \in Peers, u \in Tickers :
                tickers'[q][u] # "no" => tickers[q][u] # "no"
        BY <4>1, <4>2, TickerFact
      <4>5. CASE SetStream(p)
        BY <1>0, <3>1, <4>3, <4>4, <4>5, FedSetStream DEF Fed
      <4>6. CASE UNCHANGED <<listens, late>>
        BY <1>0, <3>1, <4>4, <4>6 DEF Fed
      <4> QED BY <4>1, <4>5, <4>6
    <3> QED BY <2>5, <3>2, <3>3 DEF Ticks
  <2> QED BY <1>5, <2>1, <2>2, <2>3, <2>4, <2>5 DEF OfPeer
<1> QED BY <1>1, <1>2, <1>3, <1>4, <1>5, KindsFact

\* So a sink that finds the channel closed finds a track that was set late.
LEMMA CrashStep ==
    SampleTypes /\ Fed /\ CrashNeedsLateCall /\ [PeersNext]_peersVars
        => CrashNeedsLateCall'
<1> SUFFICES ASSUME SampleTypes, Fed, CrashNeedsLateCall,
                    [PeersNext]_peersVars, crashed' = "sample"
             PROVE  late'
  BY DEF CrashNeedsLateCall
<1>1. CASE crashed = "sample"
  BY <1>1 DEF CrashNeedsLateCall, PeersNext, Alive, SendSample, PutRtcpPanics,
              peersVars
<1>2. CASE crashed # "sample"
  <2>1. PICK p \in Peers : SendSample(p)
    BY <1>2 DEF PeersNext, Alive, PutRtcpPanics, peersVars
  <2>2. PICK k \in Kinds : k \in listens[p] /\ k \notin open[p]
    BY <2>1 DEF SendSample, SampleTypes
  <2>3. late
    BY <2>2 DEF Fed, Kinds, BeforeAudio, BeforeVideo
  <2> QED BY <2>1, <2>3 DEF SendSample
<1> QED BY <1>1, <1>2

LEMMA PeersStart == PeersInit => PeersInv
<1> SUFFICES ASSUME PeersInit PROVE PeersInv
  OBVIOUS
<1>1. PeerTypes
  BY DEF PeersInit, PeerTypes
<1>2. RequestTypes
  BY DEF PeersInit, RequestTypes, Quiet
<1>3. SampleTypes
  BY DEF PeersInit, SampleTypes
<1>4. Stages /\ Loops
  BY DEF PeersInit, Stages, Loops, Quiet
<1>5. Replaced /\ Watched /\ CrashNeedsLateCall
  BY DEF PeersInit, Replaced, Registered, Watched, CrashNeedsLateCall
<1>6. Fed
  BY DEF PeersInit, Fed, Quiet
<1> QED BY <1>1, <1>2, <1>3, <1>4, <1>5, <1>6 DEF PeersInv

LEMMA PeersStep == PeersInv /\ [PeersNext]_peersVars => PeersInv'
BY PeerTypesStep, RequestTypesStep, SampleTypesStep, StagesStep, LoopsStep,
   ReplacedStep, WatchedStep, FedStep, CrashStep DEF PeersInv

\* A peer that was the session's does not live on when another one has taken
\* its place, for any number of peers and of message loops that replace each other.
THEOREM OnlyCurrentLivesCorrect == Spec => []OnlyCurrentLives
<1>1. PeersInv => OnlyCurrentLives
  BY DEF PeersInv, Replaced, Registered, OnlyCurrentLives, Settled
<1> QED BY <1>1, PeersStart, PeersStep, PartsFact, PTL DEF Spec

\* The session watches only a peer it has, but for the Connected callback that
\* was overtaken, however the callbacks of its peers interleave.
THEOREM WatchingHasPeerCorrect == Spec => []WatchingHasPeer
<1>1. PeersInv => WatchingHasPeer
  BY DEF PeersInv, Watched, WatchingHasPeer
<1> QED BY <1>1, PeersStart, PeersStep, PartsFact, PTL DEF Spec

\* A sample meets a closed channel only after a request or the estimator gave a
\* track a stream when Shutdown was through with it.
THEOREM CrashNeedsLateCallCorrect == Spec => []CrashNeedsLateCall
<1>1. PeersInv => CrashNeedsLateCall
  BY DEF PeersInv
<1> QED BY <1>1, PeersStart, PeersStep, PartsFact, PTL DEF Spec

=============================================================================
