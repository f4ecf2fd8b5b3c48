-------------------------- MODULE StreamSinksProofs --------------------------
(***************************************************************************)
(* The safety of StreamSinks for any number of tracks and sinks, and that  *)
(* it implements the abstract Switchboard.                                 *)
(***************************************************************************)
EXTENDS StreamSinksRefine, TLAPS

(* The inductive invariant.  A call knows where it is: the locals it was    *)
(* given still describe the track, and say which mutexes it holds, which    *)
(* sink feeds its track, and which pipeline it is about to start or stop.   *)

\* The locals of each kind of call, and the positions that use them.
CallInv ==
    \A t \in Tracks :
        /\ op[t] = "none" <=> pc[t] = "idle"
        /\ op[t] = "set" => /\ ~paused[t] /\ src[t] = stream[t]
                            /\ dst[t] \in Sinks /\ dst[t] # src[t]
        /\ op[t] \in {"pause", "remove"} =>
              /\ ~paused[t] /\ src[t] = stream[t]
              /\ src[t] \in Sinks /\ dst[t] = NoSink
        /\ op[t] = "resume" => /\ paused[t] /\ dst[t] = stream[t]
                               /\ dst[t] \in Sinks /\ src[t] = NoSink
        /\ pc[t] = "idle" => src[t] = NoSink /\ dst[t] = NoSink
        /\ pc[t] \in {"lockMove", "lockSrc", "remove", "count", "stop"} =>
              src[t] \in Sinks
        /\ pc[t] \in {"lockMove", "lockDst", "start", "add", "emit"} =>
              dst[t] \in Sinks

HoldsMove(t) ==
    \/ pc[t] = "lockSrc" /\ dst[t] # NoSink
    \/ pc[t] = "lockDst" /\ src[t] # NoSink

Holds(t, s) ==
    \/ /\ src[t] = s
       /\ pc[t] \in {"lockDst", "start", "remove", "add", "emit", "count",
                     "stop", "return"}
    \/ /\ dst[t] = s
       /\ pc[t] \in {"start", "remove", "add", "emit", "count", "stop",
                     "return"}

\* Each mutex is owned by the call that has locked and not yet unlocked it.
LockInv ==
    \A t \in Tracks :
        /\ moveMu = t <=> HoldsMove(t)
        /\ \A s \in Sinks : mu[s] = t <=> Holds(t, s)

\* The sink whose maps hold t: the old one up to removeListener, none between
\* it and addListener, the new one from there on.
Feed(t) ==
    IF pc[t] = "idle" THEN Wanted(t)
    ELSE IF pc[t] \in {"lockMove", "lockSrc", "lockDst", "start", "remove"}
           THEN src[t]
    ELSE IF pc[t] = "add" THEN NoSink
    ELSE dst[t]

FeedInv ==
    /\ \A t \in Tracks, s \in Sinks : t \in Attached(s) <=> Feed(t) = s
    /\ \A s \in Sinks : listeners[s] \cap lobby[s] = {}

\* An audio sink's pipeline runs for its listeners and for the call about to
\* add one; stop() reads both lengths of an audio sink consistently.
AudioInv ==
    \A s \in Sinks \ KfSinks :
        /\ lobby[s] = {}
        /\ Attached(s) # {} => pipeline[s]
        /\ \A t \in Tracks :
              /\ pc[t] \in {"remove", "add"} /\ dst[t] = s => pipeline[s]
              /\ pc[t] = "stop" /\ src[t] = s /\ t \in sawNone =>
                    listeners[s] = {}

\* A pipeline without listeners belongs to a call that is about to add one, or
\* that removed the last one and has not counted the rest.
Tends(t, s) ==
    \/ dst[t] = s /\ pc[t] \in {"remove", "add"}
    \/ src[t] = s /\ pc[t] \in {"add", "emit", "count", "stop"}

IdleInv ==
    \A s \in Sinks : (pipeline[s] /\ Attached(s) = {}) =>
        mu[s] \in Tracks /\ Tends(mu[s], s)

\* A listener that stop() has counted cannot leave before it decides.
CountedInv ==
    \A t \in Tracks :
        /\ t \in sawNone => pc[t] = "stop"
        /\ pc[t] = "stop" /\ t \notin sawNone => listeners[src[t]] # {}

IInv == TypeOK /\ CallInv /\ LockInv /\ FeedInv /\ AudioInv /\ CountedInv
        /\ IdleInv

-----------------------------------------------------------------------------
(* Type correctness.                                                       *)

\* Every step keeps the variables in their types.
LEMMA TypeStep == TypeOK /\ [Next]_vars => TypeOK'
<1> SUFFICES ASSUME TypeOK, [Next]_vars PROVE TypeOK'
  OBVIOUS
<1> USE SinksAssumption DEF TypeOK, PCs, Ops, callVars, sinkVars
<1>1. CASE UNCHANGED vars
  BY <1>1 DEF vars
<1>2. ASSUME NEW t \in Tracks, Call(t) PROVE TypeOK'
  <2>1. ASSUME NEW s \in Offered[t], SetStreamPaused(t, s) PROVE TypeOK'
    BY <2>1 DEF SetStreamPaused
  <2>2. ASSUME NEW s \in Offered[t], SetStream(t, s) PROVE TypeOK'
    BY <2>2 DEF SetStream, Begin
  <2>3. ASSUME NEW p \in BOOLEAN, SetPausedNoStream(t, p) PROVE TypeOK'
    BY <2>3 DEF SetPausedNoStream
  <2>4. CASE RemoveStreamUnheard(t)
    BY <2>4 DEF RemoveStreamUnheard
  <2>5. CASE Pause(t)
    BY <2>5 DEF Pause, Begin
  <2>6. CASE Resume(t)
    BY <2>6 DEF Resume, Begin
  <2>7. CASE RemoveStream(t)
    BY <2>7 DEF RemoveStream, Begin
  <2> QED
    BY <1>2, <2>1, <2>2, <2>3, <2>4, <2>5, <2>6, <2>7 DEF Call
<1>3. ASSUME NEW t \in Tracks, Step(t) PROVE TypeOK'
  <2>1. CASE LockMove(t)
    BY <2>1 DEF LockMove, Goto
  <2>2. CASE LockSrc(t)
    BY <2>2 DEF LockSrc, Goto
  <2>3. CASE LockDst(t)
    BY <2>3 DEF LockDst, Goto
  <2>4. CASE Start(t)
    BY <2>4 DEF Start, CreatePipeline, Goto, AfterStart
  <2>5. CASE StartFails(t)
    BY <2>5 DEF StartFails, Unlock
  <2>6. CASE Remove(t)
    BY <2>6 DEF Remove, Goto
  <2>7. CASE Add(t)
    <3>1. CASE dst[t] \in KfSinks
      BY <2>7, <3>1 DEF Add, Goto, AfterAdd, EntersEmptyLobby
    <3>2. CASE dst[t] \notin KfSinks
      <4>1. ~EntersEmptyLobby(t)
        BY <3>2 DEF EntersEmptyLobby
      <4>2. /\ listeners' = [listeners EXCEPT ![dst[t]] = @ \cup {t}]
            /\ pc' = [pc EXCEPT ![t] = AfterAdd(t)]
        BY <2>7, <3>2, <4>1 DEF Add, Goto
      <4>3. AfterAdd(t) \in {"return", "count"}
        BY DEF AfterAdd
      <4>4. pc' \in [Tracks -> PCs]
        BY <4>2, <4>3
      <4>5. listeners' \in [Sinks -> SUBSET Tracks]
        BY <4>2
      <4>6. UNCHANGED <<paused, stream, op, src, dst, sawNone, moveMu, mu,
                        lobby, pipeline, kfDue, kfInHand>>
        BY <2>7, <3>2 DEF Add
      <4> QED
        BY <4>4, <4>5, <4>6
    <3> QED
      BY <3>1, <3>2
  <2>8. CASE Emit(t)
    BY <2>8 DEF Emit, Goto, AfterAdd
  <2>9. CASE Count(t)
    BY <2>9 DEF Count, Goto
  <2>10. CASE Stop(t)
    BY <2>10 DEF Stop, DestroyPipeline, Goto
  <2>11. CASE Return(t)
    BY <2>11 DEF Return, Unlock
  <2> QED
    BY <1>3, <2>1, <2>2, <2>3, <2>4, <2>5, <2>6, <2>7, <2>8, <2>9, <2>10,
       <2>11 DEF Step
<1>4. ASSUME NEW s \in Sinks, Keyframe(s) PROVE TypeOK'
  BY <1>4 DEF Keyframe
<1>5. ASSUME NEW s \in Sinks, OnSample(s) PROVE TypeOK'
  BY <1>5 DEF OnSample
<1> QED
  BY <1>1, <1>2, <1>3, <1>4, <1>5 DEF Next

\* Every variable of Track and of the sinks stays in its type.
THEOREM TypeCorrect == Spec => []TypeOK
<1>1. Init => TypeOK
  BY SinksAssumption DEF Init, TypeOK, PCs, Ops, NewMaps
<1> QED
  BY <1>1, TypeStep, PTL DEF Spec

-----------------------------------------------------------------------------
(* The inductive invariant, part by part.                                  *)

\* The locals of a call describe its track until it returns.
LEMMA CallStep == TypeOK /\ CallInv /\ [Next]_vars => CallInv'
<1> SUFFICES ASSUME TypeOK, CallInv, [Next]_vars PROVE CallInv'
  OBVIOUS
<1> USE SinksAssumption DEF TypeOK, PCs, Ops, callVars, sinkVars, CallInv
<1>1. CASE UNCHANGED vars
  BY <1>1 DEF vars
<1>2. ASSUME NEW t \in Tracks, Call(t) PROVE CallInv'
  <2>1. ASSUME NEW s \in Offered[t], SetStreamPaused(t, s) PROVE CallInv'
    BY <2>1 DEF SetStreamPaused
  <2>2. ASSUME NEW s \in Offered[t], SetStream(t, s) PROVE CallInv'
    BY <2>2 DEF SetStream, Begin
  <2>3. ASSUME NEW p \in BOOLEAN, SetPausedNoStream(t, p) PROVE CallInv'
    BY <2>3 DEF SetPausedNoStream
  <2>4. CASE RemoveStreamUnheard(t)
    BY <2>4 DEF RemoveStreamUnheard
  <2>5. CASE Pause(t)
    BY <2>5 DEF Pause, Begin
  <2>6. CASE Resume(t)
    BY <2>6 DEF Resume, Begin
  <2>7. CASE RemoveStream(t)
    BY <2>7 DEF RemoveStream, Begin, Wanted
  <2> QED
    BY <1>2, <2>1, <2>2, <2>3, <2>4, <2>5, <2>6, <2>7 DEF Call
<1>3. ASSUME NEW t \in Tracks, Step(t) PROVE CallInv'
  <2>1. CASE LockMove(t)
    BY <2>1 DEF LockMove, Goto
  <2>2. CASE LockSrc(t)
    BY <2>2 DEF LockSrc, Goto
  <2>3. CASE LockDst(t)
    BY <2>3 DEF LockDst, Goto
  <2>4. CASE Start(t)
    BY <2>4 DEF Start, CreatePipeline, Goto, AfterStart
  <2>5. CASE StartFails(t)
    BY <2>5 DEF StartFails, Unlock
  <2>6. CASE Remove(t)
    BY <2>6 DEF Remove, Goto
  <2>7. CASE Add(t)
    <3>1. CASE dst[t] \in KfSinks
      BY <2>7, <3>1 DEF Add, Goto, AfterAdd, EntersEmptyLobby
    <3>2. CASE dst[t] \notin KfSinks
      <4>1. ~EntersEmptyLobby(t)
        BY <3>2 DEF EntersEmptyLobby
      <4>2. /\ listeners' = [listeners EXCEPT ![dst[t]] = @ \cup {t}]
            /\ pc' = [pc EXCEPT ![t] = AfterAdd(t)]
        BY <2>7, <3>2, <4>1 DEF Add, Goto
      <4> QED
        BY <2>7, <3>2, <4>2 DEF Add, AfterAdd
    <3> QED
      BY <3>1, <3>2
  <2>8. CASE Emit(t)
    BY <2>8 DEF Emit, Goto, AfterAdd
  <2>9. CASE Count(t)
    BY <2>9 DEF Count, Goto
  <2>10. CASE Stop(t)
    BY <2>10 DEF Stop, DestroyPipeline, Goto
  <2>11. CASE Return(t)
    BY <2>11 DEF Return, Unlock
  <2> QED
    BY <1>3, <2>1, <2>2, <2>3, <2>4, <2>5, <2>6, <2>7, <2>8, <2>9, <2>10,
       <2>11 DEF Step
<1>4. ASSUME NEW s \in Sinks, Keyframe(s) PROVE CallInv'
  BY <1>4 DEF Keyframe
<1>5. ASSUME NEW s \in Sinks, OnSample(s) PROVE CallInv'
  BY <1>5 DEF OnSample
<1> QED
  BY <1>1, <1>2, <1>3, <1>4, <1>5 DEF Next

\* A mutex is taken only when free and released by its owner.
LEMMA LockStep == TypeOK /\ CallInv /\ LockInv /\ [Next]_vars => LockInv'
<1> SUFFICES ASSUME TypeOK, CallInv, LockInv, [Next]_vars PROVE LockInv'
  OBVIOUS
<1> USE SinksAssumption
    DEF TypeOK, PCs, Ops, callVars, sinkVars, CallInv, LockInv, HoldsMove,
        Holds
<1>1. CASE UNCHANGED vars
  BY <1>1 DEF vars
<1>2. ASSUME NEW t \in Tracks, Call(t) PROVE LockInv'
  <2>1. ASSUME NEW s \in Offered[t], SetStreamPaused(t, s) PROVE LockInv'
    BY <2>1 DEF SetStreamPaused
  <2>2. ASSUME NEW s \in Offered[t], SetStream(t, s) PROVE LockInv'
    BY <2>2 DEF SetStream, Begin
  <2>3. ASSUME NEW p \in BOOLEAN, SetPausedNoStream(t, p) PROVE LockInv'
    BY <2>3 DEF SetPausedNoStream
  <2>4. CASE RemoveStreamUnheard(t)
    BY <2>4 DEF RemoveStreamUnheard
  <2>5. CASE Pause(t)
    BY <2>5 DEF Pause, Begin
  <2>6. CASE Resume(t)
    BY <2>6 DEF Resume, Begin
  <2>7. CASE RemoveStream(t)
    BY <2>7 DEF RemoveStream, Begin, Wanted
  <2> QED
    BY <1>2, <2>1, <2>2, <2>3, <2>4, <2>5, <2>6, <2>7 DEF Call
<1>3. ASSUME NEW t \in Tracks, Step(t) PROVE LockInv'
  <2>1. CASE LockMove(t)
    BY <2>1 DEF LockMove, Goto
  <2>2. CASE LockSrc(t)
    BY <2>2 DEF LockSrc, Goto
  <2>3. CASE LockDst(t)
    BY <2>3 DEF LockDst, Goto
  <2>4. CASE Start(t)
    BY <2>4 DEF Start, CreatePipeline, Goto, AfterStart
  <2>5. CASE StartFails(t)
    BY <2>5 DEF StartFails, Unlock
  <2>6. CASE Remove(t)
    BY <2>6 DEF Remove, Goto
  <2>7. CASE Add(t)
    <3>1. CASE dst[t] \in KfSinks
      BY <2>7, <3>1 DEF Add, Goto, AfterAdd, EntersEmptyLobby
    <3>2. CASE dst[t] \notin KfSinks
      <4>1. ~EntersEmptyLobby(t)
        BY <3>2 DEF EntersEmptyLobby
      <4>2. /\ listeners' = [listeners EXCEPT ![dst[t]] = @ \cup {t}]
            /\ pc' = [pc EXCEPT ![t] = AfterAdd(t)]
        BY <2>7, <3>2, <4>1 DEF Add, Goto
      <4> QED
        BY <2>7, <3>2, <4>2 DEF Add, AfterAdd
    <3> QED
      BY <3>1, <3>2
  <2>8. CASE Emit(t)
    BY <2>8 DEF Emit, Goto, AfterAdd
  <2>9. CASE Count(t)
    BY <2>9 DEF Count, Goto
  <2>10. CASE Stop(t)
    BY <2>10 DEF Stop, DestroyPipeline, Goto
  <2>11. CASE Return(t)
    BY <2>11 DEF Return, Unlock
  <2> QED
    BY <1>3, <2>1, <2>2, <2>3, <2>4, <2>5, <2>6, <2>7, <2>8, <2>9, <2>10,
       <2>11 DEF Step
<1>4. ASSUME NEW s \in Sinks, Keyframe(s) PROVE LockInv'
  BY <1>4 DEF Keyframe
<1>5. ASSUME NEW s \in Sinks, OnSample(s) PROVE LockInv'
  BY <1>5 DEF OnSample
<1> QED
  BY <1>1, <1>2, <1>3, <1>4, <1>5 DEF Next

\* The maps change hands with the call's position.
LEMMA FeedStep == TypeOK /\ CallInv /\ FeedInv /\ [Next]_vars => FeedInv'
<1> SUFFICES ASSUME TypeOK, CallInv, FeedInv, [Next]_vars PROVE FeedInv'
  OBVIOUS
<1> USE SinksAssumption
    DEF TypeOK, PCs, Ops, callVars, sinkVars, CallInv, FeedInv, Feed,
        Wanted, Attached
<1>1. CASE UNCHANGED vars
  BY <1>1 DEF vars
<1>2. ASSUME NEW t \in Tracks, Call(t) PROVE FeedInv'
  <2>1. ASSUME NEW s \in Offered[t], SetStreamPaused(t, s) PROVE FeedInv'
    BY <2>1 DEF SetStreamPaused
  <2>2. ASSUME NEW s \in Offered[t], SetStream(t, s) PROVE FeedInv'
    BY <2>2 DEF SetStream, Begin
  <2>3. ASSUME NEW p \in BOOLEAN, SetPausedNoStream(t, p) PROVE FeedInv'
    BY <2>3 DEF SetPausedNoStream
  <2>4. CASE RemoveStreamUnheard(t)
    BY <2>4 DEF RemoveStreamUnheard
  <2>5. CASE Pause(t)
    BY <2>5 DEF Pause, Begin
  <2>6. CASE Resume(t)
    BY <2>6 DEF Resume, Begin
  <2>7. CASE RemoveStream(t)
    BY <2>7 DEF RemoveStream, Begin, Wanted
  <2> QED
    BY <1>2, <2>1, <2>2, <2>3, <2>4, <2>5, <2>6, <2>7 DEF Call
<1>3. ASSUME NEW t \in Tracks, Step(t) PROVE FeedInv'
  <2>1. CASE LockMove(t)
    BY <2>1 DEF LockMove, Goto
  <2>2. CASE LockSrc(t)
    BY <2>2 DEF LockSrc, Goto
  <2>3. CASE LockDst(t)
    BY <2>3 DEF LockDst, Goto
  <2>4. CASE Start(t)
    BY <2>4 DEF Start, CreatePipeline, Goto, AfterStart
  <2>5. CASE StartFails(t)
    BY <2>5 DEF StartFails, Unlock
  <2>6. CASE Remove(t)
    BY <2>6 DEF Remove, Goto
  <2>7. CASE Add(t)
    <3>1. CASE dst[t] \in KfSinks
      <4>1. /\ lobby' = [lobby EXCEPT ![dst[t]] = @ \cup {t}]
            /\ UNCHANGED listeners
        BY <2>7, <3>1 DEF Add
      <4>2. \E next \in {"emit", "return", "count"} :
                pc' = [pc EXCEPT ![t] = next]
        BY <2>7 DEF Add, Goto, AfterAdd
      <4>3. UNCHANGED <<paused, stream, src, dst>>
        BY <2>7 DEF Add
      <4> QED
        BY <2>7, <3>1, <4>1, <4>2, <4>3 DEF Add
    <3>2. CASE dst[t] \notin KfSinks
      <4>1. ~EntersEmptyLobby(t)
        BY <3>2 DEF EntersEmptyLobby
      <4>2. /\ listeners' = [listeners EXCEPT ![dst[t]] = @ \cup {t}]
            /\ pc' = [pc EXCEPT ![t] = AfterAdd(t)]
        BY <2>7, <3>2, <4>1 DEF Add, Goto
      <4> QED
        BY <2>7, <3>2, <4>2 DEF Add, AfterAdd
    <3> QED
      BY <3>1, <3>2
  <2>8. CASE Emit(t)
    BY <2>8 DEF Emit, Goto, AfterAdd
  <2>9. CASE Count(t)
    BY <2>9 DEF Count, Goto
  <2>10. CASE Stop(t)
    BY <2>10 DEF Stop, DestroyPipeline, Goto
  <2>11. CASE Return(t)
    BY <2>11 DEF Return, Unlock
  <2> QED
    BY <1>3, <2>1, <2>2, <2>3, <2>4, <2>5, <2>6, <2>7, <2>8, <2>9, <2>10,
       <2>11 DEF Step
<1>4. ASSUME NEW s \in Sinks, Keyframe(s) PROVE FeedInv'
  BY <1>4 DEF Keyframe
<1>5. ASSUME NEW s \in Sinks, OnSample(s) PROVE FeedInv'
  BY <1>5 DEF OnSample
<1> QED
  BY <1>1, <1>2, <1>3, <1>4, <1>5 DEF Next

\* An audio sink's pipeline is started before a listener is added and
\* stopped after the last is gone.
LEMMA AudioStep == TypeOK /\ CallInv /\ LockInv /\ FeedInv /\ CountedInv
                     /\ AudioInv /\ [Next]_vars => AudioInv'
<1> SUFFICES ASSUME TypeOK, CallInv, LockInv, FeedInv, CountedInv,
                    AudioInv, [Next]_vars PROVE AudioInv'
  OBVIOUS
<1> USE SinksAssumption
    DEF TypeOK, PCs, Ops, callVars, sinkVars, CallInv, LockInv, Holds,
        FeedInv, AudioInv, Feed, Attached
<1>1. CASE UNCHANGED vars
  BY <1>1 DEF vars
<1>2. ASSUME NEW t \in Tracks, Call(t) PROVE AudioInv'
  <2>1. ASSUME NEW s \in Offered[t], SetStreamPaused(t, s) PROVE AudioInv'
    BY <2>1 DEF SetStreamPaused
  <2>2. ASSUME NEW s \in Offered[t], SetStream(t, s) PROVE AudioInv'
    BY <2>2 DEF SetStream, Begin
  <2>3. ASSUME NEW p \in BOOLEAN, SetPausedNoStream(t, p) PROVE AudioInv'
    BY <2>3 DEF SetPausedNoStream
  <2>4. CASE RemoveStreamUnheard(t)
    BY <2>4 DEF RemoveStreamUnheard
  <2>5. CASE Pause(t)
    BY <2>5 DEF Pause, Begin
  <2>6. CASE Resume(t)
    BY <2>6 DEF Resume, Begin
  <2>7. CASE RemoveStream(t)
    BY <2>7 DEF RemoveStream, Begin, Wanted
  <2> QED
    BY <1>2, <2>1, <2>2, <2>3, <2>4, <2>5, <2>6, <2>7 DEF Call
<1>3. ASSUME NEW t \in Tracks, Step(t) PROVE AudioInv'
  <2>1. CASE LockMove(t)
    BY <2>1 DEF LockMove, Goto
  <2>2. CASE LockSrc(t)
    BY <2>2 DEF LockSrc, Goto
  <2>3. CASE LockDst(t)
    BY <2>3 DEF LockDst, Goto
  <2>4. CASE Start(t)
    BY <2>4 DEF Start, CreatePipeline, Goto, AfterStart
  <2>5. CASE StartFails(t)
    BY <2>5 DEF StartFails, Unlock
  <2>6. CASE Remove(t)
    BY <2>6 DEF Remove, Goto
  <2>7. CASE Add(t)
    <3>1. CASE dst[t] \in KfSinks
      BY <2>7, <3>1 DEF Add, Goto, AfterAdd, EntersEmptyLobby
    <3>2. CASE dst[t] \notin KfSinks
      <4>1. ~EntersEmptyLobby(t)
        BY <3>2 DEF EntersEmptyLobby
      <4>2. /\ listeners' = [listeners EXCEPT ![dst[t]] = @ \cup {t}]
            /\ pc' = [pc EXCEPT ![t] = AfterAdd(t)]
        BY <2>7, <3>2, <4>1 DEF Add, Goto
      <4> QED
        BY <2>7, <3>2, <4>2 DEF Add, AfterAdd
    <3> QED
      BY <3>1, <3>2
  <2>8. CASE Emit(t)
    BY <2>8 DEF Emit, Goto, AfterAdd
  <2>9. CASE Count(t)
    <3> SUFFICES ASSUME NEW s \in Sinks \ KfSinks, NEW u \in Tracks,
                        pc'[u] = "stop", src'[u] = s, u \in sawNone'
                 PROVE listeners'[s] = {}
      BY <2>9 DEF Count, Goto
    <3>1. CASE u = t
      <4>1. CASE listeners[src[t]] = {}
        BY <2>9, <3>1, <4>1 DEF Count
      <4>2. CASE listeners[src[t]] # {}
        <5>1. t \notin sawNone
          BY <2>9 DEF Count, CountedInv
        <5> QED
          BY <2>9, <3>1, <4>2, <5>1 DEF Count
      <4> QED
        BY <4>1, <4>2
    <3>2. CASE u # t
      BY <2>9, <3>2 DEF Count, Goto
    <3> QED
      BY <3>1, <3>2
  <2>10. CASE Stop(t)
    BY <2>10 DEF Stop, DestroyPipeline, Goto
  <2>11. CASE Return(t)
    BY <2>11 DEF Return, Unlock
  <2> QED
    BY <1>3, <2>1, <2>2, <2>3, <2>4, <2>5, <2>6, <2>7, <2>8, <2>9, <2>10,
       <2>11 DEF Step
<1>4. ASSUME NEW s \in Sinks, Keyframe(s) PROVE AudioInv'
  BY <1>4 DEF Keyframe
<1>5. ASSUME NEW s \in Sinks, OnSample(s) PROVE AudioInv'
  BY <1>5 DEF OnSample
<1> QED
  BY <1>1, <1>2, <1>3, <1>4, <1>5 DEF Next

\* What stop() counted stays until it has decided.
LEMMA CountedStep == TypeOK /\ CallInv /\ LockInv /\ CountedInv
            /\ [Next]_vars => CountedInv'
<1> SUFFICES ASSUME TypeOK, CallInv, LockInv, CountedInv, [Next]_vars
             PROVE  CountedInv'
  OBVIOUS
<1> USE SinksAssumption
    DEF TypeOK, PCs, Ops, callVars, sinkVars, CallInv, LockInv, Holds,
        CountedInv
<1>1. CASE UNCHANGED vars
  BY <1>1 DEF vars
<1>2. ASSUME NEW t \in Tracks, Call(t) PROVE CountedInv'
  <2>1. ASSUME NEW s \in Offered[t], SetStreamPaused(t, s) PROVE CountedInv'
    BY <2>1 DEF SetStreamPaused
  <2>2. ASSUME NEW s \in Offered[t], SetStream(t, s) PROVE CountedInv'
    BY <2>2 DEF SetStream, Begin
  <2>3. ASSUME NEW p \in BOOLEAN, SetPausedNoStream(t, p) PROVE CountedInv'
    BY <2>3 DEF SetPausedNoStream
  <2>4. CASE RemoveStreamUnheard(t)
    BY <2>4 DEF RemoveStreamUnheard
  <2>5. CASE Pause(t)
    BY <2>5 DEF Pause, Begin
  <2>6. CASE Resume(t)
    BY <2>6 DEF Resume, Begin
  <2>7. CASE RemoveStream(t)
    BY <2>7 DEF RemoveStream, Begin, Wanted
  <2> QED
    BY <1>2, <2>1, <2>2, <2>3, <2>4, <2>5, <2>6, <2>7 DEF Call
<1>3. ASSUME NEW t \in Tracks, Step(t) PROVE CountedInv'
  <2>1. CASE LockMove(t)
    BY <2>1 DEF LockMove, Goto
  <2>2. CASE LockSrc(t)
    BY <2>2 DEF LockSrc, Goto
  <2>3. CASE LockDst(t)
    BY <2>3 DEF LockDst, Goto
  <2>4. CASE Start(t)
    BY <2>4 DEF Start, CreatePipeline, Goto, AfterStart
  <2>5. CASE StartFails(t)
    BY <2>5 DEF StartFails, Unlock
  <2>6. CASE Remove(t)
    BY <2>6 DEF Remove, Goto
  <2>7. CASE Add(t)
    <3>1. CASE dst[t] \in KfSinks
      BY <2>7, <3>1 DEF Add, Goto, AfterAdd, EntersEmptyLobby
    <3>2. CASE dst[t] \notin KfSinks
      <4>1. ~EntersEmptyLobby(t)
        BY <3>2 DEF EntersEmptyLobby
      <4>2. /\ listeners' = [listeners EXCEPT ![dst[t]] = @ \cup {t}]
            /\ pc' = [pc EXCEPT ![t] = AfterAdd(t)]
        BY <2>7, <3>2, <4>1 DEF Add, Goto
      <4> QED
        BY <2>7, <3>2, <4>2 DEF Add, AfterAdd
    <3> QED
      BY <3>1, <3>2
  <2>8. CASE Emit(t)
    BY <2>8 DEF Emit, Goto, AfterAdd
  <2>9. CASE Count(t)
    BY <2>9 DEF Count, Goto
  <2>10. CASE Stop(t)
    BY <2>10 DEF Stop, DestroyPipeline, Goto
  <2>11. CASE Return(t)
    BY <2>11 DEF Return, Unlock
  <2> QED
    BY <1>3, <2>1, <2>2, <2>3, <2>4, <2>5, <2>6, <2>7, <2>8, <2>9, <2>10,
       <2>11 DEF Step
<1>4. ASSUME NEW s \in Sinks, Keyframe(s) PROVE CountedInv'
  BY <1>4 DEF Keyframe
<1>5. ASSUME NEW s \in Sinks, OnSample(s) PROVE CountedInv'
  BY <1>5 DEF OnSample
<1> QED
  BY <1>1, <1>2, <1>3, <1>4, <1>5 DEF Next

\* A call that leaves a sink empty stops it before it lets go of the lock.
LEMMA IdleStep == TypeOK /\ CallInv /\ LockInv /\ CountedInv /\ IdleInv
            /\ [Next]_vars => IdleInv'
<1> SUFFICES ASSUME TypeOK, CallInv, LockInv, CountedInv, IdleInv, [Next]_vars
             PROVE  IdleInv'
  OBVIOUS
<1> USE SinksAssumption
    DEF TypeOK, PCs, Ops, callVars, sinkVars, CallInv, LockInv, Holds,
        CountedInv, IdleInv, Tends, Attached
<1>1. CASE UNCHANGED vars
  BY <1>1 DEF vars
<1>2. ASSUME NEW t \in Tracks, Call(t) PROVE IdleInv'
  <2>1. ASSUME NEW s \in Offered[t], SetStreamPaused(t, s) PROVE IdleInv'
    BY <2>1 DEF SetStreamPaused
  <2>2. ASSUME NEW s \in Offered[t], SetStream(t, s) PROVE IdleInv'
    BY <2>2 DEF SetStream, Begin
  <2>3. ASSUME NEW p \in BOOLEAN, SetPausedNoStream(t, p) PROVE IdleInv'
    BY <2>3 DEF SetPausedNoStream
  <2>4. CASE RemoveStreamUnheard(t)
    BY <2>4 DEF RemoveStreamUnheard
  <2>5. CASE Pause(t)
    BY <2>5 DEF Pause, Begin
  <2>6. CASE Resume(t)
    BY <2>6 DEF Resume, Begin
  <2>7. CASE RemoveStream(t)
    BY <2>7 DEF RemoveStream, Begin, Wanted
  <2> HIDE DEF IdleInv
  <2> QED
    BY <1>2, <2>1, <2>2, <2>3, <2>4, <2>5, <2>6, <2>7 DEF Call
<1>3. ASSUME NEW t \in Tracks, Step(t) PROVE IdleInv'
  <2>1. CASE LockMove(t)
    BY <2>1 DEF LockMove, Goto
  <2>2. CASE LockSrc(t)
    BY <2>2 DEF LockSrc, Goto
  <2>3. CASE LockDst(t)
    BY <2>3 DEF LockDst, Goto
  <2>4. CASE Start(t)
    BY <2>4 DEF Start, CreatePipeline, Goto, AfterStart
  <2>5. CASE StartFails(t)
    BY <2>5 DEF StartFails, Unlock
  <2>6. CASE Remove(t)
    BY <2>6 DEF Remove, Goto
  <2>7. CASE Add(t)
    <3> SUFFICES ASSUME NEW s \in Sinks, pipeline'[s], Attached(s)' = {}
                 PROVE (mu[s] \in Tracks /\ Tends(mu[s], s))'
      BY DEF IdleInv
    <3>1. dst[t] \in Sinks /\ t \in Attached(dst[t])'
      BY <2>7 DEF Add
    <3>2. s # dst[t] /\ Attached(s) = {} /\ pipeline[s] /\ mu' = mu
      BY <2>7, <3>1 DEF Add
    <3>3. mu[s] \in Tracks /\ Tends(mu[s], s)
      BY <3>2
    <3>4. CASE mu[s] = t
      <4>1. src[t] = s
        BY <2>7, <3>2, <3>3, <3>4 DEF Add
      <4>2. pc'[t] \in {"emit", "count"} /\ src' = src
        BY <2>7, <4>1 DEF Add, Goto, AfterAdd
      <4> QED
        BY <3>2, <3>4, <4>1, <4>2
    <3>5. CASE mu[s] # t
      BY <2>7, <3>2, <3>3, <3>5 DEF Add, Goto
    <3> QED
      BY <3>4, <3>5
  <2>8. CASE Emit(t)
    BY <2>8 DEF Emit, Goto, AfterAdd
  <2>9. CASE Count(t)
    BY <2>9 DEF Count, Goto
  <2>10. CASE Stop(t)
    BY <2>10 DEF Stop, DestroyPipeline, Goto
  <2>11. CASE Return(t)
    BY <2>11 DEF Return, Unlock
  <2> QED
    BY <1>3, <2>1, <2>2, <2>3, <2>4, <2>5, <2>6, <2>7, <2>8, <2>9, <2>10,
       <2>11 DEF Step
<1>4. ASSUME NEW s \in Sinks, Keyframe(s) PROVE IdleInv'
  BY <1>4 DEF Keyframe
<1>5. ASSUME NEW s \in Sinks, OnSample(s) PROVE IdleInv'
  BY <1>5 DEF OnSample
<1> QED
  BY <1>1, <1>2, <1>3, <1>4, <1>5 DEF Next

\* Who enters an empty lobby asks for the keyframe of everybody there.
LEMMA KeyframeStep == TypeOK /\ CallInv /\ KeyframeComing
            /\ [Next]_vars => KeyframeComing'
<1> SUFFICES ASSUME TypeOK, CallInv, KeyframeComing, [Next]_vars
             PROVE  KeyframeComing'
  OBVIOUS
<1> USE SinksAssumption
    DEF TypeOK, PCs, Ops, callVars, sinkVars, CallInv, KeyframeComing
<1>1. CASE UNCHANGED vars
  BY <1>1 DEF vars
<1>2. ASSUME NEW t \in Tracks, Call(t) PROVE KeyframeComing'
  <2>1. ASSUME NEW s \in Offered[t], SetStreamPaused(t, s) PROVE KeyframeComing'
    BY <2>1 DEF SetStreamPaused
  <2>2. ASSUME NEW s \in Offered[t], SetStream(t, s) PROVE KeyframeComing'
    BY <2>2 DEF SetStream, Begin
  <2>3. ASSUME NEW p \in BOOLEAN, SetPausedNoStream(t, p) PROVE KeyframeComing'
    BY <2>3 DEF SetPausedNoStream
  <2>4. CASE RemoveStreamUnheard(t)
    BY <2>4 DEF RemoveStreamUnheard
  <2>5. CASE Pause(t)
    BY <2>5 DEF Pause, Begin
  <2>6. CASE Resume(t)
    BY <2>6 DEF Resume, Begin
  <2>7. CASE RemoveStream(t)
    BY <2>7 DEF RemoveStream, Begin, Wanted
  <2> QED
    BY <1>2, <2>1, <2>2, <2>3, <2>4, <2>5, <2>6, <2>7 DEF Call
<1>3. ASSUME NEW t \in Tracks, Step(t) PROVE KeyframeComing'
  <2>1. CASE LockMove(t)
    BY <2>1 DEF LockMove, Goto
  <2>2. CASE LockSrc(t)
    BY <2>2 DEF LockSrc, Goto
  <2>3. CASE LockDst(t)
    BY <2>3 DEF LockDst, Goto
  <2>4. CASE Start(t)
    <3> SUFFICES ASSUME NEW s \in Sinks, lobby'[s] # {}, pipeline'[s]
                 PROVE \/ kfDue'[s] \/ kfInHand'[s]
                       \/ \E u \in Tracks : pc'[u] = "emit" /\ dst'[u] = s
      OBVIOUS
    <3>1. CASE pipeline[s]
      <4>1. kfDue[s] => kfDue'[s]
        BY <2>4 DEF Start, CreatePipeline
      <4>2. \A u \in Tracks : pc[u] = "emit" =>
                pc'[u] = "emit" /\ dst'[u] = dst[u]
        BY <2>4 DEF Start, CreatePipeline, Goto
      <4>3. lobby[s] # {} /\ (kfInHand[s] => kfInHand'[s])
        BY <2>4 DEF Start, CreatePipeline
      <4> QED
        BY <3>1, <4>1, <4>2, <4>3
    <3>2. CASE ~pipeline[s]
      BY <2>4, <3>2 DEF Start, CreatePipeline
    <3> QED
      BY <3>1, <3>2
  <2>5. CASE StartFails(t)
    BY <2>5 DEF StartFails, Unlock
  <2>6. CASE Remove(t)
    BY <2>6 DEF Remove, Goto
  <2>7. CASE Add(t)
    BY <2>7 DEF Add, Goto, AfterAdd, EntersEmptyLobby
  <2>8. CASE Emit(t)
    BY <2>8 DEF Emit, Goto, AfterAdd
  <2>9. CASE Count(t)
    BY <2>9 DEF Count, Goto
  <2>10. CASE Stop(t)
    <3> SUFFICES ASSUME NEW s \in Sinks, lobby'[s] # {}, pipeline'[s]
                 PROVE \/ kfDue'[s] \/ kfInHand'[s]
                       \/ \E u \in Tracks : pc'[u] = "emit" /\ dst'[u] = s
      OBVIOUS
    <3>1. lobby[s] # {} /\ pipeline[s] /\ kfDue'[s] = kfDue[s]
      BY <2>10 DEF Stop, DestroyPipeline
    <3>2. \A u \in Tracks : pc[u] = "emit" =>
              pc'[u] = "emit" /\ dst'[u] = dst[u]
      BY <2>10 DEF Stop, DestroyPipeline, Goto
    <3>3. kfInHand' = kfInHand
      BY <2>10 DEF Stop, DestroyPipeline
    <3> QED
      BY <3>1, <3>2, <3>3
  <2>11. CASE Return(t)
    BY <2>11 DEF Return, Unlock
  <2> QED
    BY <1>3, <2>1, <2>2, <2>3, <2>4, <2>5, <2>6, <2>7, <2>8, <2>9, <2>10,
       <2>11 DEF Step
<1>4. ASSUME NEW s \in Sinks, Keyframe(s) PROVE KeyframeComing'
  BY <1>4 DEF Keyframe
<1>5. ASSUME NEW s \in Sinks, OnSample(s) PROVE KeyframeComing'
  BY <1>5 DEF OnSample
<1> QED
  BY <1>1, <1>2, <1>3, <1>4, <1>5 DEF Next

-----------------------------------------------------------------------------
(* The safety theorems.                                                    *)

\* The parts hold together in every reachable state.
LEMMA Inductive == Spec => []IInv
<1>1. Init => IInv
  <2> SUFFICES ASSUME Init PROVE IInv
    OBVIOUS
  <2> USE SinksAssumption DEF Init, NewMaps
  <2>1. TypeOK
    BY DEF TypeOK, PCs, Ops, NewMaps
  <2>2. CallInv
    BY DEF CallInv
  <2>3. LockInv
    BY DEF LockInv, HoldsMove, Holds
  <2>4. FeedInv
    BY DEF FeedInv, Feed, Wanted, Attached
  <2>5. AudioInv /\ CountedInv /\ IdleInv
    BY DEF AudioInv, CountedInv, IdleInv, Attached
  <2> QED
    BY <2>1, <2>2, <2>3, <2>4, <2>5 DEF IInv
<1>2. IInv /\ [Next]_vars => IInv'
  BY TypeStep, CallStep, LockStep, FeedStep, AudioStep, CountedStep, IdleStep
     DEF IInv
<1> QED
  BY <1>1, <1>2, PTL DEF Spec

\* A track that is not being switched is held by the maps of the sink it is set
\* to and by no other, however the calls of other tracks interleave and fail.
THEOREM HeardAsSetHolds == Spec => []HeardAsSet
<1>1. IInv => HeardAsSet
  BY DEF IInv, FeedInv, Feed, HeardAsSet
<1> QED
  BY Inductive, <1>1, PTL

\* No two sinks ever feed one track, and no sink holds it twice.
THEOREM OneFeedHolds == Spec => []OneFeed
<1>1. IInv => OneFeed
  BY DEF IInv, FeedInv, OneFeed
<1> QED
  BY Inductive, <1>1, PTL

\* An audio sink with listeners has a pipeline.
THEOREM AudioHasPipelineHolds == Spec => []AudioHasPipeline
<1>1. IInv => AudioHasPipeline
  BY DEF IInv, AudioInv, AudioHasPipeline
<1> QED
  BY Inductive, <1>1, PTL

\* A sink that nobody is changing and nobody listens to has no pipeline.
THEOREM NoIdlePipelineHolds == Spec => []NoIdlePipeline
<1>1. IInv => NoIdlePipeline
  BY SinksAssumption DEF IInv, IdleInv, NoIdlePipeline
<1> QED
  BY Inductive, <1>1, PTL

\* A lobby with a running pipeline has a keyframe coming.
THEOREM KeyframeComingHolds == Spec => []KeyframeComing
<1>1. Init => KeyframeComing
  BY DEF Init, NewMaps, KeyframeComing
<1>2. IInv /\ KeyframeComing /\ [Next]_vars => KeyframeComing'
  BY KeyframeStep DEF IInv
<1> QED
  BY Inductive, <1>1, <1>2, PTL DEF Spec

\* Who holds a sink's lock and waits for another holds the global mutex, so
\* there is only one such call, and nothing it waits for waits in turn.
LEMMA OneMoverWaits ==
    ASSUME TypeOK, CallInv, LockInv, NEW t \in Tracks, NEW u \in Tracks,
           NEW s \in Sinks, mu[s] = u, WaitsFor(u, t)
    PROVE  moveMu = u /\ pc[u] = "lockDst" /\ src[u] = s
<1>1. Holds(u, s)
  BY DEF LockInv
<1>2. pc[u] \in {"lockMove", "lockSrc", "lockDst"}
  BY DEF WaitsFor
<1>3. pc[u] = "lockDst" /\ src[u] = s
  BY <1>1, <1>2 DEF Holds
<1>4. HoldsMove(u)
  BY <1>3, SinksAssumption DEF HoldsMove
<1> QED
  BY <1>3, <1>4 DEF LockInv

\* "without possibility of deadlock": no group of calls waits for one another.
THEOREM NoCircularWaitHolds == Spec => []NoCircularWait
<1>1. IInv => NoCircularWait
  <2> SUFFICES ASSUME IInv, NEW D \in SUBSET Tracks, D # {},
                      \A t \in D : \E u \in D : WaitsFor(t, u)
               PROVE FALSE
    BY DEF NoCircularWait
  <2>1. TypeOK /\ CallInv /\ LockInv
    BY DEF IInv
  <2>2. ASSUME NEW t \in D, NEW u \in D, NEW s \in Sinks,
               mu[s] = t, WaitsFor(t, u)
        PROVE FALSE
    <3>1. moveMu = t /\ pc[t] = "lockDst" /\ src[t] = s
      BY <2>1, <2>2, OneMoverWaits
    <3>2. dst[t] \in Sinks /\ mu[dst[t]] = u /\ dst[t] # s
      BY <2>1, <2>2, <3>1, SinksAssumption DEF WaitsFor, CallInv, TypeOK, Ops
    <3>3. PICK v \in D : WaitsFor(u, v)
      OBVIOUS
    <3>4. moveMu = u /\ src[u] = dst[t]
      BY <2>1, <3>2, <3>3, OneMoverWaits
    <3> QED
      BY <3>1, <3>2, <3>4
  <2>3. PICK t \in D : TRUE
    OBVIOUS
  <2>4. PICK u \in D : WaitsFor(t, u)
    OBVIOUS
  <2>5. PICK v \in D : WaitsFor(u, v)
    OBVIOUS
  <2>6. PICK w \in D : WaitsFor(v, w)
    OBVIOUS
  <2>7. CASE \E s \in Sinks : mu[s] = u
    BY <2>2, <2>5, <2>7
  <2>8. CASE pc[t] = "lockMove" /\ moveMu = u
    <3>1. HoldsMove(u)
      BY <2>1, <2>8 DEF LockInv
    <3>2. \E s \in Sinks : mu[s] = v
      BY <2>1, <2>5, <3>1 DEF HoldsMove, WaitsFor, CallInv
    <3> QED
      BY <2>2, <2>6, <3>2
  <2> QED
    BY <2>1, <2>4, <2>7, <2>8 DEF WaitsFor, CallInv
<1> QED
  BY Inductive, <1>1, PTL

-----------------------------------------------------------------------------
(* The switchboard that the sinks implement.                                *)

\* The maps hold a track where the position of its call says.
TunedByCall == \A t \in Tracks : Tuned(t) = Feed(t)

LEMMA TunedIsFeed == IInv => TunedByCall
<1> SUFFICES ASSUME IInv, NEW t \in Tracks PROVE Tuned(t) = Feed(t)
  BY DEF TunedByCall
<1>1. Feed(t) \in Sinks \cup {NoSink}
  BY DEF IInv, TypeOK, Feed, Wanted
<1>2. \A s \in Sinks : t \in Attached(s) <=> Feed(t) = s
  BY DEF IInv, FeedInv
<1>3. CASE Feed(t) = NoSink
  BY <1>2, <1>3, SinksAssumption DEF Tuned
<1>4. CASE Feed(t) \in Sinks
  BY <1>2, <1>4 DEF Tuned
<1> QED
  BY <1>1, <1>3, <1>4

\* The switchboard's state, with Feed in place of Tuned.
set == [t \in Tracks |-> Wanted(t)]
tuned == [t \in Tracks |-> Feed(t)]

Stutter == UNCHANGED <<set, tuned, pipeline>>

\* A call that only begins, locks, counts or fails leaves the board alone.
LEMMA QuietSteps ==
    ASSUME IInv, NEW t \in Tracks,
           \/ Call(t) \/ LockMove(t) \/ LockSrc(t) \/ LockDst(t)
           \/ StartFails(t) \/ Emit(t) \/ Count(t)
    PROVE  Stutter
<1> USE SinksAssumption
    DEF IInv, TypeOK, CallInv, Stutter, set, tuned, Feed, Wanted, callVars,
        sinkVars
<1>1. CASE Call(t)
  <2>1. ASSUME NEW s \in Offered[t], SetStreamPaused(t, s) PROVE Stutter
    BY <2>1 DEF SetStreamPaused
  <2>2. ASSUME NEW s \in Offered[t], SetStream(t, s) PROVE Stutter
    BY <2>2 DEF SetStream, Begin
  <2>3. ASSUME NEW p \in BOOLEAN, SetPausedNoStream(t, p) PROVE Stutter
    BY <2>3 DEF SetPausedNoStream
  <2>4. CASE RemoveStreamUnheard(t)
    BY <2>4 DEF RemoveStreamUnheard
  <2>5. CASE Pause(t)
    BY <2>5 DEF Pause, Begin
  <2>6. CASE Resume(t)
    BY <2>6 DEF Resume, Begin
  <2>7. CASE RemoveStream(t)
    BY <2>7 DEF RemoveStream, Begin
  <2> QED
    BY <1>1, <2>1, <2>2, <2>3, <2>4, <2>5, <2>6, <2>7 DEF Call
<1>2. CASE LockMove(t)
  BY <1>2 DEF LockMove, Goto
<1>3. CASE LockSrc(t)
  <2>1. \A u \in Tracks : Feed(u)' = Feed(u)
    BY <1>3 DEF LockSrc, Goto
  <2>2. \A u \in Tracks : Wanted(u)' = Wanted(u)
    BY <1>3 DEF LockSrc
  <2>3. pipeline' = pipeline
    BY <1>3 DEF LockSrc
  <2> HIDE DEF Feed, Wanted
  <2> QED
    BY <2>1, <2>2, <2>3
<1>4. CASE LockDst(t)
  BY <1>4 DEF LockDst, Goto
<1>5. CASE StartFails(t)
  <2>1. Feed(t) = Wanted(t) /\ pc'[t] = "idle"
    BY <1>5 DEF StartFails, Unlock, Ops
  <2>2. \A u \in Tracks : Wanted(u)' = Wanted(u)
    BY <1>5 DEF StartFails
  <2>3. \A u \in Tracks \ {t} : Feed(u)' = Feed(u)
    BY <1>5 DEF StartFails, Unlock
  <2>4. Feed(t)' = Wanted(t)'
    BY <2>1
  <2>5. pipeline' = pipeline
    BY <1>5 DEF StartFails
  <2> HIDE DEF Feed, Wanted
  <2> QED
    BY <2>1, <2>2, <2>3, <2>4, <2>5
<1>6. CASE Emit(t)
  BY <1>6 DEF Emit, Goto, AfterAdd
<1>7. CASE Count(t)
  BY <1>7 DEF Count, Goto
<1> QED
  BY <1>1, <1>2, <1>3, <1>4, <1>5, <1>6, <1>7

\* The others move the board as their names say.
LEMMA LoudSteps ==
    ASSUME IInv, NEW t \in Tracks,
           Start(t) \/ Remove(t) \/ Add(t) \/ Stop(t) \/ Return(t)
    PROVE  \/ Stutter
           \/ UNCHANGED <<set, tuned>> /\ \E s \in Sinks :
                 \/ pipeline' = [pipeline EXCEPT ![s] = TRUE]
                 \/ /\ s \in Sinks \ KfSinks => \A u \in Tracks : tuned[u] # s
                    /\ pipeline' = [pipeline EXCEPT ![s] = FALSE]
           \/ UNCHANGED <<set, pipeline>> /\
                 tuned' = [tuned EXCEPT ![t] = NoSink]
           \/ UNCHANGED <<set, pipeline>> /\ \E s \in Sinks :
                 /\ tuned[t] = NoSink
                 /\ s \in Sinks \ KfSinks => pipeline[s]
                 /\ tuned' = [tuned EXCEPT ![t] = s]
           \/ UNCHANGED <<tuned, pipeline>> /\
                 set' = [set EXCEPT ![t] = tuned[t]]
<1> USE SinksAssumption DEF IInv, TypeOK, CallInv, set, tuned
<1>1. CASE Start(t)
  <2>1. \A u \in Tracks : Feed(u)' = Feed(u) /\ Wanted(u)' = Wanted(u)
    BY <1>1 DEF Start, CreatePipeline, Goto, AfterStart, Feed, Wanted
  <2>2. \/ pipeline' = pipeline
        \/ pipeline' = [pipeline EXCEPT ![dst[t]] = TRUE] /\ dst[t] \in Sinks
    BY <1>1 DEF Start, CreatePipeline
  <2>3. UNCHANGED <<set, tuned>>
    BY <2>1
  <2> HIDE DEF set, tuned
  <2> QED
    BY <2>2, <2>3 DEF Stutter
<1>2. CASE Remove(t)
  <2>1. Feed(t)' = NoSink
    BY <1>2 DEF Remove, Goto, Feed, Ops
  <2>2. \A u \in Tracks \ {t} : Feed(u)' = Feed(u)
    BY <1>2 DEF Remove, Goto, Feed, Wanted
  <2>3. \A u \in Tracks : Wanted(u)' = Wanted(u)
    BY <1>2 DEF Remove, Wanted
  <2>4. pipeline' = pipeline
    BY <1>2 DEF Remove
  <2>5. set' = set
    BY <2>3
  <2>6. tuned' = [tuned EXCEPT ![t] = NoSink]
    BY <2>1, <2>2
  <2> HIDE DEF set, tuned
  <2> QED
    BY <2>4, <2>5, <2>6
<1>3. CASE Add(t)
  <2>1. Feed(t) = NoSink /\ dst[t] \in Sinks
    BY <1>3 DEF Add, Feed
  <2>2. Feed(t)' = dst[t]
    <3>1. pc'[t] \in {"emit", "return", "count"} /\ dst' = dst
      BY <1>3 DEF Add, Goto, AfterAdd
    <3> QED
      BY <3>1 DEF Feed
  <2>3. \A u \in Tracks \ {t} : Feed(u)' = Feed(u)
    <3>1. \A u \in Tracks \ {t} : pc'[u] = pc[u]
      BY <1>3 DEF Add, Goto
    <3>2. UNCHANGED <<paused, stream, src, dst>>
      BY <1>3 DEF Add
    <3> QED
      BY <3>1, <3>2 DEF Feed, Wanted
  <2>4. \A u \in Tracks : Wanted(u)' = Wanted(u)
    BY <1>3 DEF Add, Wanted
  <2>5. pipeline' = pipeline /\ (dst[t] \in Sinks \ KfSinks => pipeline[dst[t]])
    BY <1>3 DEF Add, AudioInv
  <2>6. set' = set
    BY <2>4
  <2>7. tuned' = [tuned EXCEPT ![t] = dst[t]]
    BY <2>2, <2>3
  <2>8. tuned[t] = NoSink
    BY <2>1
  <2> HIDE DEF set, tuned
  <2> QED
    BY <2>1, <2>5, <2>6, <2>7, <2>8
<1>4. CASE Stop(t)
  <2>1. \A u \in Tracks : Feed(u)' = Feed(u) /\ Wanted(u)' = Wanted(u)
    BY <1>4 DEF Stop, DestroyPipeline, Goto, Feed, Wanted
  <2>2. CASE pipeline' = pipeline
    BY <2>1, <2>2 DEF Stutter
  <2>3. CASE pipeline' # pipeline
    <3>1. /\ t \in sawNone /\ lobby[src[t]] = {} /\ src[t] \in Sinks
          /\ pipeline' = [pipeline EXCEPT ![src[t]] = FALSE]
      BY <1>4, <2>3 DEF Stop, DestroyPipeline
    <3>2. src[t] \in Sinks \ KfSinks => Attached(src[t]) = {}
      BY <1>4, <3>1 DEF Stop, DestroyPipeline, AudioInv, Attached
    <3>3. src[t] \in Sinks \ KfSinks => \A u \in Tracks : tuned[u] # src[t]
      BY <3>1, <3>2 DEF FeedInv
    <3>4. UNCHANGED <<set, tuned>>
      BY <2>1
    <3> HIDE DEF set, tuned
    <3> QED
      BY <3>1, <3>3, <3>4
  <2> QED
    BY <2>2, <2>3
<1>5. CASE Return(t)
  <2>1. Wanted(t)' = Feed(t) /\ Feed(t)' = Feed(t)
    BY <1>5 DEF Return, Unlock, Feed, Wanted, Ops
  <2>2. \A u \in Tracks \ {t} : Wanted(u)' = Wanted(u) /\ Feed(u)' = Feed(u)
    BY <1>5 DEF Return, Unlock, Feed, Wanted
  <2>3. pipeline' = pipeline
    BY <1>5 DEF Return, sinkVars
  <2>4. tuned' = tuned
    BY <2>1, <2>2
  <2>5. set' = [set EXCEPT ![t] = tuned[t]]
    BY <2>1, <2>2
  <2> HIDE DEF set, tuned
  <2> QED
    BY <2>3, <2>4, <2>5
<1> QED
  BY <1>1, <1>2, <1>3, <1>4, <1>5

\* The emitter does not touch the board: it moves tracks within their sink.
LEMMA EmitterSteps ==
    ASSUME TypeOK, NEW s \in Sinks, Keyframe(s) \/ OnSample(s)
    PROVE  Stutter
BY DEF Keyframe, OnSample, Stutter, set, tuned, Feed, Wanted, callVars

\* Init and every step, under the mapping of StreamSinksRefine: the sinks
\* implement the switchboard.
THEOREM SwitchboardImplemented == Spec => ImplementsSwitchboard
<1>1. Init => Board!Init
  <2> SUFFICES ASSUME Init PROVE Board!Init
    OBVIOUS
  <2>1. \A t \in Tracks : Wanted(t) = NoSink /\ Tuned(t) = NoSink
    BY SinksAssumption DEF Init, NewMaps, Wanted, Tuned, Attached
  <2> QED
    BY <2>1 DEF Init, Board!Init
<1>2. IInv /\ TunedByCall /\ TunedByCall' /\ [Next]_vars
        => [Board!Next]_(Board!vars)
  <2> SUFFICES ASSUME IInv, TunedByCall, TunedByCall', [Next]_vars
               PROVE  [Board!Next]_(Board!vars)
    OBVIOUS
  <2>1. tuned = [t \in Tracks |-> Tuned(t)]
    BY DEF tuned, TunedByCall
  <2>2. tuned' = [t \in Tracks |-> Tuned(t)]'
    BY DEF tuned, TunedByCall
  <2>3. ASSUME Stutter PROVE UNCHANGED Board!vars
    BY <2>1, <2>2, <2>3 DEF Stutter, Board!vars, set
  <2>4. CASE UNCHANGED vars
    BY <2>4, <2>3 DEF vars, Stutter, set, tuned, Feed, Wanted
  <2>5. ASSUME NEW t \in Tracks, Call(t) \/ Step(t)
        PROVE  [Board!Next]_(Board!vars)
    <3>1. CASE \/ Call(t) \/ LockMove(t) \/ LockSrc(t) \/ LockDst(t)
               \/ StartFails(t) \/ Emit(t) \/ Count(t)
      BY <2>3, <3>1, QuietSteps
    <3>2. CASE Start(t) \/ Remove(t) \/ Add(t) \/ Stop(t) \/ Return(t)
      <4>1. CASE Stutter
        BY <2>3, <4>1
      <4>2. ASSUME UNCHANGED <<set, tuned>>, NEW s \in Sinks,
                   pipeline' = [pipeline EXCEPT ![s] = TRUE]
            PROVE  Board!Next
        BY <2>1, <2>2, <4>2 DEF Board!Next, Board!SwitchOn, set
      <4>3. ASSUME UNCHANGED <<set, tuned>>, NEW s \in Sinks,
                   s \in Sinks \ KfSinks => \A u \in Tracks : tuned[u] # s,
                   pipeline' = [pipeline EXCEPT ![s] = FALSE]
            PROVE  Board!Next
        BY <2>1, <2>2, <4>3 DEF Board!Next, Board!SwitchOff, set
      <4>4. CASE UNCHANGED <<set, pipeline>> /\
                    tuned' = [tuned EXCEPT ![t] = NoSink]
        BY <2>1, <2>2, <4>4 DEF Board!Next, Board!TuneOut, set
      <4>5. ASSUME UNCHANGED <<set, pipeline>>, NEW s \in Sinks,
                   tuned[t] = NoSink, s \in Sinks \ KfSinks => pipeline[s],
                   tuned' = [tuned EXCEPT ![t] = s]
            PROVE  Board!Next
        BY <2>1, <2>2, <4>5 DEF Board!Next, Board!TuneIn, set
      <4>6. CASE UNCHANGED <<tuned, pipeline>> /\
                    set' = [set EXCEPT ![t] = tuned[t]]
        BY <2>1, <2>2, <4>6 DEF Board!Next, Board!Settle, set
      <4> QED
        BY <3>2, <4>1, <4>2, <4>3, <4>4, <4>5, <4>6, LoudSteps
    <3> QED
      BY <2>5, <3>1, <3>2 DEF Step
  <2>6. ASSUME NEW s \in Sinks, Keyframe(s) \/ OnSample(s)
        PROVE  UNCHANGED Board!vars
    BY <2>3, <2>6, EmitterSteps DEF IInv
  <2> QED
    BY <2>3, <2>4, <2>5, <2>6 DEF Next
<1> QED
  BY <1>1, <1>2, TunedIsFeed, Inductive, PTL
     DEF Spec, ImplementsSwitchboard, Board!Spec

=============================================================================
