--------------------------- MODULE RoomControlProofs ---------------------------
(***************************************************************************)
(* Private mode for any number of sessions: what RoomControl's runs show   *)
(* for two.                                                                *)
(***************************************************************************)
EXTENDS RoomControl, TLAPS

(* Private mode is safe because of an order: CreatePeer makes its peer the  *)
(* session's before it reads the setting, UpdateSettings writes the setting *)
(* before it reads the peer.  The invariant says that a peer that should be *)
(* paused and is not is known to one of the two.                            *)

\* A request that has picked a session works on a session, and only the loop
\* over all sessions has any left to do; a peer it holds is its session's.
ReqInv ==
    \A r \in Requests :
        /\ step[r] \in {"isHost", "clear", "peer", "pause", "profile",
                        "lostHost", "profilePeer", "readPrivate", "give",
                        "hosted", "mayHost", "request"} =>
              target[r] \in Sessions
        /\ step[r] \notin {"each", "isHost", "clear", "peer", "pause"} =>
              todo[r] = {}
        /\ r \in holds => /\ step[r] \in {"readPrivate", "pause"}
                          /\ target[r] \in live

\* Settings and profiles are changed by one request at a time.
OneAdmin == \A q, r \in Requests : q = r

\* What a request has read of private mode is still so.
HidesInv ==
    \A r \in Requests : step[r] \in {"isHost", "clear", "peer", "pause"} =>
        (r \in hides <=> PrivateModeEnabled(target[r]))

\* Somebody is about to look whether s has to be paused, or to pause it.
Due(s) ==
    \/ ws[s] \in {"private", "pause"}
    \/ \E r \in Requests :
          \/ s \in todo[r]
          \/ /\ target[r] = s
             /\ \/ step[r] \in {"isHost", "clear", "peer", "profile",
                                "lostHost", "profilePeer"}
                \/ step[r] \in {"readPrivate", "pause"} /\ r \in holds

PauseInv ==
    \A s \in live : PrivateModeEnabled(s) => s \in paused \/ s \in unasked \/ Due(s)

IInv == TypeOK /\ ReqInv /\ SilentAsAsked /\ OneAdmin /\ HidesInv /\ PauseInv

-----------------------------------------------------------------------------
(* What the two ways to write a track's flag leave in it.                   *)

LEMMA SetTracksType ==
    ASSUME TypeOK, NEW s \in Sessions, NEW media, NEW off \in SUBSET Media,
           SetTracks(s, media, off)
    PROVE  muted' \in [Sessions -> SUBSET Media]
<1>1. PICK failed \in SUBSET (muted[s] \cap media) :
          muted' = [muted EXCEPT ![s] =
                       (muted[s] \ media) \cup (off \cap media) \cup failed]
  BY DEF SetTracks
<1>2. muted \in [Sessions -> SUBSET Media]
  BY DEF TypeOK
<1>3. (muted[s] \ media) \cup (off \cap media) \cup failed \in SUBSET Media
  BY <1>2
<1> QED
  BY <1>1, <1>2, <1>3

LEMMA SetDisabledType ==
    ASSUME TypeOK, NEW s \in Sessions, NEW m, NEW isOff \in BOOLEAN,
           SetDisabled(s, m, isOff)
    PROVE  /\ disabled' \in [Sessions -> SUBSET Media]
           /\ muted' \in [Sessions -> SUBSET Media]
<1> DEFINE off == IF isOff THEN disabled[s] \cup ({m} \cap Media)
                           ELSE disabled[s] \ {m}
<1>1. disabled \in [Sessions -> SUBSET Media] /\ off \in SUBSET Media
  BY DEF TypeOK
<1>2. /\ disabled' = [disabled EXCEPT ![s] = off]
      /\ muted' = muted \/ SetTracks(s, {m}, Muted(s, off))
  BY DEF SetDisabled
<1>3. Muted(s, off) \in SUBSET Media
  BY <1>1 DEF Muted
<1> HIDE DEF off
<1>4. muted' \in [Sessions -> SUBSET Media]
  BY <1>2, <1>3, SetTracksType DEF TypeOK
<1> QED
  BY <1>1, <1>2, <1>4

\* Every step keeps the variables in their types.
LEMMA TypeStep == TypeOK /\ ReqInv /\ [Next]_vars => TypeOK'
<1> SUFFICES ASSUME TypeOK /\ ReqInv, [Next]_vars PROVE TypeOK'
  OBVIOUS
<1> USE RoomControlAssumption DEF TypeOK, ReqInv, WsPcs, ReqPcs,
      FirstDisabled, roomVars, hostVars, peerVars, reqVars, WsGoTo
<1>1. CASE UNCHANGED vars
  BY <1>1 DEF vars
<1>2. ASSUME NEW s \in Sessions, WsStep(s) PROVE TypeOK'
  <2>1. CASE CreatePeer(s)
    BY <2>1 DEF CreatePeer, LosePeer
  <2>2. CASE ClosePeer(s)
    BY <2>2 DEF ClosePeer, LosePeer
  <2>3. CASE CheckPrivate(s)
    BY <2>3 DEF CheckPrivate
  <2>4. CASE PauseNewPeer(s)
    <3>1. CASE s \in live
      <4>1. s \in live /\ s \in Sessions
        BY <2>4, <3>1 DEF PauseNewPeer
      <4>2. /\ paused' \in SUBSET live /\ muted' \in [Sessions -> SUBSET Media]
            /\ unasked' \in SUBSET live
        BY <2>4, <3>1, <4>1, SetTracksType DEF PauseNewPeer, SetPaused
      <4> QED
        BY <2>4, <4>2 DEF PauseNewPeer
    <3>2. CASE ~(s \in live)
      BY <2>4, <3>2 DEF PauseNewPeer
    <3> QED
      BY <3>1, <3>2
  <2>5. ASSUME NEW isOff \in BOOLEAN, SetVideo(s, isOff) PROVE TypeOK'
    <3>1. CASE s \in live
      <4>1. disabled' \in [Sessions -> SUBSET Media]
            /\ muted' \in [Sessions -> SUBSET Media]
        BY <2>5, <3>1, SetDisabledType DEF SetVideo
      <4> QED
        BY <2>5, <4>1 DEF SetVideo
    <3>2. CASE s \notin live
      BY <2>5, <3>2 DEF SetVideo
    <3> QED
      BY <3>1, <3>2
  <2>6. ASSUME NEW isOff \in BOOLEAN, SetAudio(s, isOff) PROVE TypeOK'
    <3>1. CASE s \in live
      <4>1. disabled' \in [Sessions -> SUBSET Media]
            /\ muted' \in [Sessions -> SUBSET Media]
        BY <2>6, <3>1, SetDisabledType DEF SetAudio
      <4> QED
        BY <2>6, <4>1 DEF SetAudio
    <3>2. CASE s \notin live
      BY <2>6, <3>2 DEF SetAudio
    <3> QED
      BY <3>1, <3>2
  <2>7. ASSUME NEW m \in Media, NEW isOff \in BOOLEAN,
              SignalMedia(s, m, isOff)
        PROVE TypeOK'
    <3>1. /\ disabled' \in [Sessions -> SUBSET Media]
          /\ muted' \in [Sessions -> SUBSET Media]
      BY <2>7, SetDisabledType DEF SignalMedia
    <3> QED
      BY <2>7, <3>1 DEF SignalMedia
  <2>8. CASE RequestControl(s)
    BY <2>8 DEF RequestControl
  <2>9. CASE CheckNotHost(s)
    BY <2>9 DEF CheckNotHost
  <2>10. CASE CheckLocked(s)
    BY <2>10 DEF CheckLocked
  <2>11. CASE CheckImplicit(s)
    BY <2>11 DEF CheckImplicit
  <2>12. CASE CheckHosted(s)
    BY <2>12 DEF CheckHosted
  <2>13. CASE BecomeHost(s)
    BY <2>13 DEF BecomeHost, SetHost
  <2>14. CASE ReleaseControl(s)
    BY <2>14 DEF ReleaseControl
  <2>15. CASE GiveUpHost(s)
    BY <2>15 DEF GiveUpHost, ClearHost, SetHost
  <2>16. CASE OfferFails(s)
    BY <2>16 DEF OfferFails
  <2> QED
    BY <1>2, <2>1, <2>2, <2>3, <2>4, <2>5, <2>6, <2>7, <2>8, <2>9, <2>10,
       <2>11, <2>12, <2>13, <2>14, <2>15, <2>16 DEF WsStep
<1>3. ASSUME NEW r \in Requests, ReqStep(r) PROVE TypeOK'
  <2>1. ASSUME NEW new \in Settings, SettingsSet(r, new) PROVE TypeOK'
    BY <2>1 DEF SettingsSet
  <2>2. ASSUME NEW s \in Sessions, NextSession(r, s) PROVE TypeOK'
    BY <2>2 DEF NextSession, ReadEnabled
  <2>3. CASE CheckPrivateHost(r)
    BY <2>3 DEF CheckPrivateHost, ReqGoTo
  <2>4. CASE ClearPrivateHost(r)
    BY <2>4 DEF ClearPrivateHost, ReqGoTo, ClearHost, SetHost
  <2>5. CASE FindPeer(r)
    BY <2>5 DEF FindPeer, ReqGoTo, GetPeer
  <2>6. CASE PauseSession(r)
    <3>1. CASE r \in holds
      <4>1. target[r] \in live /\ target[r] \in Sessions
        BY <2>6, <3>1 DEF PauseSession
      <4>2. /\ paused' \in SUBSET live /\ muted' \in [Sessions -> SUBSET Media]
            /\ unasked' \in SUBSET live
        BY <2>6, <3>1, <4>1, SetTracksType DEF PauseSession, SetPaused
      <4> QED
        BY <2>6, <4>2 DEF PauseSession, ReqGoTo
    <3>2. CASE ~(r \in holds)
      BY <2>6, <3>2 DEF PauseSession, ReqGoTo
    <3> QED
      BY <3>1, <3>2
  <2>7. CASE AllSessionsDone(r)
    BY <2>7 DEF AllSessionsDone, ReqGoTo, Return
  <2>8. CASE CheckLockedHost(r)
    <3>1. /\ UNCHANGED <<roomVars, hostVars, peerVars, ws>>
          /\ ReqGoTo(r, "clearHost") \/ Return(r)
      BY <2>8 DEF CheckLockedHost
    <3> QED
      BY <3>1 DEF ReqGoTo, Return
  <2>9. CASE ClearAnyHost(r)
    BY <2>9 DEF ClearAnyHost, Return, ClearHost, SetHost
  <2>10. ASSUME NEW s \in Sessions, NEW new \in Profiles,
              UpdateProfile(r, s, new)
        PROVE TypeOK'
    BY <2>10 DEF UpdateProfile, Begin
  <2>11. CASE CheckProfileHost(r)
    BY <2>11 DEF CheckProfileHost, ReqGoTo
  <2>12. CASE ClearProfileHost(r)
    BY <2>12 DEF ClearProfileHost, ReqGoTo, ClearHost, SetHost
  <2>13. CASE FindProfilePeer(r)
    <3>1. CASE target[r] \in live
      BY <2>13, <3>1 DEF FindProfilePeer, ReqGoTo, GetPeer
    <3>2. CASE target[r] \notin live
      BY <2>13, <3>2 DEF FindProfilePeer, Return
    <3> QED
      BY <3>1, <3>2
  <2>14. CASE ReadPrivateMode(r)
    BY <2>14 DEF ReadPrivateMode, ReadEnabled
  <2>15. ASSUME NEW s \in Sessions, PostRequest(r, s) PROVE TypeOK'
    BY <2>15 DEF PostRequest, Begin
  <2>16. ASSUME NEW s \in Sessions, PostGive(r, s) PROVE TypeOK'
    BY <2>16 DEF PostGive, Begin
  <2>17. CASE PostCheckHosted(r)
    <3>1. /\ UNCHANGED <<roomVars, hostVars, peerVars, ws>>
          /\ Return(r) \/ ReqGoTo(r, "mayHost")
      BY <2>17 DEF PostCheckHosted
    <3> QED
      BY <3>1 DEF ReqGoTo, Return
  <2>18. CASE PostCheckLocked(r)
    <3>1. /\ UNCHANGED <<roomVars, hostVars, peerVars, ws>>
          /\ Return(r) \/ ReqGoTo(r, "request")
      BY <2>18 DEF PostCheckLocked
    <3> QED
      BY <3>1 DEF ReqGoTo, Return
  <2>19. CASE PostBecomesHost(r)
    BY <2>19 DEF PostBecomesHost, Return, SetHost
  <2>20. CASE GiveHost(r)
    BY <2>20 DEF GiveHost, Return, SetHost
  <2>21. CASE PostReset(r)
    BY <2>21 DEF PostReset, Begin
  <2> QED
    BY <1>3, <2>1, <2>2, <2>3, <2>4, <2>5, <2>6, <2>7, <2>8, <2>9, <2>10,
       <2>11, <2>12, <2>13, <2>14, <2>15, <2>16, <2>17, <2>18, <2>19, <2>20,
       <2>21 DEF ReqStep
<1> QED
  BY <1>1, <1>2, <1>3 DEF Next

\* Every step keeps the requests' locals in order.
LEMMA ReqStepInv == TypeOK /\ ReqInv /\ [Next]_vars => ReqInv'
<1> SUFFICES ASSUME TypeOK /\ ReqInv, [Next]_vars PROVE ReqInv'
  OBVIOUS
<1> USE RoomControlAssumption DEF TypeOK, ReqInv, roomVars, hostVars,
      peerVars, reqVars, WsGoTo
<1>1. CASE UNCHANGED vars
  BY <1>1 DEF vars
<1>2. ASSUME NEW s \in Sessions, WsStep(s) PROVE ReqInv'
  <2>1. CASE CreatePeer(s)
    BY <2>1 DEF CreatePeer, LosePeer
  <2>2. CASE ClosePeer(s)
    BY <2>2 DEF ClosePeer, LosePeer
  <2>3. CASE CheckPrivate(s)
    BY <2>3 DEF CheckPrivate
  <2>4. CASE PauseNewPeer(s)
    BY <2>4 DEF PauseNewPeer, SetPaused, SetTracks
  <2>5. ASSUME NEW isOff \in BOOLEAN, SetVideo(s, isOff) PROVE ReqInv'
    BY <2>5 DEF SetVideo, SetDisabled, SetTracks, Muted
  <2>6. ASSUME NEW isOff \in BOOLEAN, SetAudio(s, isOff) PROVE ReqInv'
    BY <2>6 DEF SetAudio, SetDisabled, SetTracks, Muted
  <2>7. ASSUME NEW m \in Media, NEW isOff \in BOOLEAN,
              SignalMedia(s, m, isOff)
        PROVE ReqInv'
    BY <2>7 DEF SignalMedia, SetDisabled, SetTracks, Muted
  <2>8. CASE RequestControl(s)
    BY <2>8 DEF RequestControl
  <2>9. CASE CheckNotHost(s)
    BY <2>9 DEF CheckNotHost
  <2>10. CASE CheckLocked(s)
    BY <2>10 DEF CheckLocked
  <2>11. CASE CheckImplicit(s)
    BY <2>11 DEF CheckImplicit
  <2>12. CASE CheckHosted(s)
    BY <2>12 DEF CheckHosted
  <2>13. CASE BecomeHost(s)
    BY <2>13 DEF BecomeHost, SetHost
  <2>14. CASE ReleaseControl(s)
    BY <2>14 DEF ReleaseControl
  <2>15. CASE GiveUpHost(s)
    BY <2>15 DEF GiveUpHost, ClearHost, SetHost
  <2>16. CASE OfferFails(s)
    BY <2>16 DEF OfferFails
  <2> QED
    BY <1>2, <2>1, <2>2, <2>3, <2>4, <2>5, <2>6, <2>7, <2>8, <2>9, <2>10,
       <2>11, <2>12, <2>13, <2>14, <2>15, <2>16 DEF WsStep
<1>3. ASSUME NEW r \in Requests, ReqStep(r) PROVE ReqInv'
  <2>1. ASSUME NEW new \in Settings, SettingsSet(r, new) PROVE ReqInv'
    BY <2>1 DEF SettingsSet
  <2>2. ASSUME NEW s \in Sessions, NextSession(r, s) PROVE ReqInv'
    BY <2>2 DEF NextSession, ReadEnabled
  <2>3. CASE CheckPrivateHost(r)
    BY <2>3 DEF CheckPrivateHost, ReqGoTo
  <2>4. CASE ClearPrivateHost(r)
    BY <2>4 DEF ClearPrivateHost, ReqGoTo, ClearHost, SetHost
  <2>5. CASE FindPeer(r)
    BY <2>5 DEF FindPeer, ReqGoTo, GetPeer
  <2>6. CASE PauseSession(r)
    BY <2>6 DEF PauseSession, ReqGoTo, SetPaused, SetTracks
  <2>7. CASE AllSessionsDone(r)
    BY <2>7 DEF AllSessionsDone, ReqGoTo, Return
  <2>8. CASE CheckLockedHost(r)
    BY <2>8 DEF CheckLockedHost, ReqGoTo, Return
  <2>9. CASE ClearAnyHost(r)
    BY <2>9 DEF ClearAnyHost, Return, ClearHost, SetHost
  <2>10. ASSUME NEW s \in Sessions, NEW new \in Profiles,
              UpdateProfile(r, s, new)
        PROVE ReqInv'
    BY <2>10 DEF UpdateProfile, Begin
  <2>11. CASE CheckProfileHost(r)
    BY <2>11 DEF CheckProfileHost, ReqGoTo
  <2>12. CASE ClearProfileHost(r)
    BY <2>12 DEF ClearProfileHost, ReqGoTo, ClearHost, SetHost
  <2>13. CASE FindProfilePeer(r)
    BY <2>13 DEF FindProfilePeer, ReqGoTo, Return, GetPeer
  <2>14. CASE ReadPrivateMode(r)
    BY <2>14 DEF ReadPrivateMode, ReadEnabled
  <2>15. ASSUME NEW s \in Sessions, PostRequest(r, s) PROVE ReqInv'
    BY <2>15 DEF PostRequest, Begin
  <2>16. ASSUME NEW s \in Sessions, PostGive(r, s) PROVE ReqInv'
    BY <2>16 DEF PostGive, Begin
  <2>17. CASE PostCheckHosted(r)
    BY <2>17 DEF PostCheckHosted, ReqGoTo, Return
  <2>18. CASE PostCheckLocked(r)
    BY <2>18 DEF PostCheckLocked, ReqGoTo, Return
  <2>19. CASE PostBecomesHost(r)
    BY <2>19 DEF PostBecomesHost, Return, SetHost
  <2>20. CASE GiveHost(r)
    BY <2>20 DEF GiveHost, Return, SetHost
  <2>21. CASE PostReset(r)
    BY <2>21 DEF PostReset, Begin
  <2> QED
    BY <1>3, <2>1, <2>2, <2>3, <2>4, <2>5, <2>6, <2>7, <2>8, <2>9, <2>10,
       <2>11, <2>12, <2>13, <2>14, <2>15, <2>16, <2>17, <2>18, <2>19, <2>20,
       <2>21 DEF ReqStep
<1> QED
  BY <1>1, <1>2, <1>3 DEF Next

\* Every step keeps silent every track that should be.
LEMMA TracksStep == TypeOK /\ SilentAsAsked /\ [Next]_vars => SilentAsAsked'
<1> SUFFICES ASSUME TypeOK /\ SilentAsAsked, [Next]_vars PROVE SilentAsAsked'
  OBVIOUS
<1> USE RoomControlAssumption DEF TypeOK, SilentAsAsked, FirstDisabled,
      roomVars, hostVars, peerVars, reqVars, WsGoTo
<1>1. CASE UNCHANGED vars
  BY <1>1 DEF vars
<1>2. ASSUME NEW s \in Sessions, WsStep(s) PROVE SilentAsAsked'
  <2>1. CASE CreatePeer(s)
    BY <2>1 DEF CreatePeer, LosePeer
  <2>2. CASE ClosePeer(s)
    BY <2>2 DEF ClosePeer, LosePeer
  <2>3. CASE CheckPrivate(s)
    BY <2>3 DEF CheckPrivate
  <2>4. CASE PauseNewPeer(s)
    BY <2>4 DEF PauseNewPeer, SetPaused, SetTracks
  <2>5. ASSUME NEW isOff \in BOOLEAN, SetVideo(s, isOff) PROVE SilentAsAsked'
    BY <2>5 DEF SetVideo, SetDisabled, SetTracks, Muted
  <2>6. ASSUME NEW isOff \in BOOLEAN, SetAudio(s, isOff) PROVE SilentAsAsked'
    BY <2>6 DEF SetAudio, SetDisabled, SetTracks, Muted
  <2>7. ASSUME NEW m \in Media, NEW isOff \in BOOLEAN,
              SignalMedia(s, m, isOff)
        PROVE SilentAsAsked'
    BY <2>7 DEF SignalMedia, SetDisabled, SetTracks, Muted
  <2>8. CASE RequestControl(s)
    BY <2>8 DEF RequestControl
  <2>9. CASE CheckNotHost(s)
    BY <2>9 DEF CheckNotHost
  <2>10. CASE CheckLocked(s)
    BY <2>10 DEF CheckLocked
  <2>11. CASE CheckImplicit(s)
    BY <2>11 DEF CheckImplicit
  <2>12. CASE CheckHosted(s)
    BY <2>12 DEF CheckHosted
  <2>13. CASE BecomeHost(s)
    BY <2>13 DEF BecomeHost, SetHost
  <2>14. CASE ReleaseControl(s)
    BY <2>14 DEF ReleaseControl
  <2>15. CASE GiveUpHost(s)
    BY <2>15 DEF GiveUpHost, ClearHost, SetHost
  <2>16. CASE OfferFails(s)
    BY <2>16 DEF OfferFails
  <2> QED
    BY <1>2, <2>1, <2>2, <2>3, <2>4, <2>5, <2>6, <2>7, <2>8, <2>9, <2>10,
       <2>11, <2>12, <2>13, <2>14, <2>15, <2>16 DEF WsStep
<1>3. ASSUME NEW r \in Requests, ReqStep(r) PROVE SilentAsAsked'
  <2>1. ASSUME NEW new \in Settings, SettingsSet(r, new) PROVE SilentAsAsked'
    BY <2>1 DEF SettingsSet
  <2>2. ASSUME NEW s \in Sessions, NextSession(r, s) PROVE SilentAsAsked'
    BY <2>2 DEF NextSession, ReadEnabled
  <2>3. CASE CheckPrivateHost(r)
    BY <2>3 DEF CheckPrivateHost, ReqGoTo
  <2>4. CASE ClearPrivateHost(r)
    BY <2>4 DEF ClearPrivateHost, ReqGoTo, ClearHost, SetHost
  <2>5. CASE FindPeer(r)
    BY <2>5 DEF FindPeer, ReqGoTo, GetPeer
  <2>6. CASE PauseSession(r)
    BY <2>6 DEF PauseSession, ReqGoTo, SetPaused, SetTracks
  <2>7. CASE AllSessionsDone(r)
    BY <2>7 DEF AllSessionsDone, ReqGoTo, Return
  <2>8. CASE CheckLockedHost(r)
    BY <2>8 DEF CheckLockedHost, ReqGoTo, Return
  <2>9. CASE ClearAnyHost(r)
    BY <2>9 DEF ClearAnyHost, Return, ClearHost, SetHost
  <2>10. ASSUME NEW s \in Sessions, NEW new \in Profiles,
              UpdateProfile(r, s, new)
        PROVE SilentAsAsked'
    BY <2>10 DEF UpdateProfile, Begin
  <2>11. CASE CheckProfileHost(r)
    BY <2>11 DEF CheckProfileHost, ReqGoTo
  <2>12. CASE ClearProfileHost(r)
    BY <2>12 DEF ClearProfileHost, ReqGoTo, ClearHost, SetHost
  <2>13. CASE FindProfilePeer(r)
    BY <2>13 DEF FindProfilePeer, ReqGoTo, Return, GetPeer
  <2>14. CASE ReadPrivateMode(r)
    BY <2>14 DEF ReadPrivateMode, ReadEnabled
  <2>15. ASSUME NEW s \in Sessions, PostRequest(r, s) PROVE SilentAsAsked'
    BY <2>15 DEF PostRequest, Begin
  <2>16. ASSUME NEW s \in Sessions, PostGive(r, s) PROVE SilentAsAsked'
    BY <2>16 DEF PostGive, Begin
  <2>17. CASE PostCheckHosted(r)
    BY <2>17 DEF PostCheckHosted, ReqGoTo, Return
  <2>18. CASE PostCheckLocked(r)
    BY <2>18 DEF PostCheckLocked, ReqGoTo, Return
  <2>19. CASE PostBecomesHost(r)
    BY <2>19 DEF PostBecomesHost, Return, SetHost
  <2>20. CASE GiveHost(r)
    BY <2>20 DEF GiveHost, Return, SetHost
  <2>21. CASE PostReset(r)
    BY <2>21 DEF PostReset, Begin
  <2> QED
    BY <1>3, <2>1, <2>2, <2>3, <2>4, <2>5, <2>6, <2>7, <2>8, <2>9, <2>10,
       <2>11, <2>12, <2>13, <2>14, <2>15, <2>16, <2>17, <2>18, <2>19, <2>20,
       <2>21 DEF ReqStep
<1> QED
  BY <1>1, <1>2, <1>3 DEF Next

\* What a request has read of private mode stays so.
LEMMA HidesStep ==
    TypeOK /\ ReqInv /\ OneAdmin /\ HidesInv /\ [Next]_vars
        => HidesInv'
<1> SUFFICES ASSUME TypeOK /\ ReqInv /\ OneAdmin /\ HidesInv,
                    [Next]_vars
             PROVE  HidesInv'
  OBVIOUS
<1> USE RoomControlAssumption DEF TypeOK, ReqInv, OneAdmin, HidesInv,
      PrivateModeEnabled, roomVars, hostVars, peerVars, reqVars, WsGoTo
<1>1. CASE UNCHANGED vars
  BY <1>1 DEF vars
<1>2. ASSUME NEW s \in Sessions, WsStep(s) PROVE HidesInv'
  <2>1. CASE CreatePeer(s)
    BY <2>1 DEF CreatePeer, LosePeer
  <2>2. CASE ClosePeer(s)
    BY <2>2 DEF ClosePeer, LosePeer
  <2>3. CASE CheckPrivate(s)
    BY <2>3 DEF CheckPrivate
  <2>4. CASE PauseNewPeer(s)
    BY <2>4 DEF PauseNewPeer, SetPaused, SetTracks
  <2>5. ASSUME NEW isOff \in BOOLEAN, SetVideo(s, isOff) PROVE HidesInv'
    BY <2>5 DEF SetVideo, SetDisabled, SetTracks, Muted
  <2>6. ASSUME NEW isOff \in BOOLEAN, SetAudio(s, isOff) PROVE HidesInv'
    BY <2>6 DEF SetAudio, SetDisabled, SetTracks, Muted
  <2>7. ASSUME NEW m \in Media, NEW isOff \in BOOLEAN,
              SignalMedia(s, m, isOff)
        PROVE HidesInv'
    BY <2>7 DEF SignalMedia, SetDisabled, SetTracks, Muted
  <2>8. CASE RequestControl(s)
    BY <2>8 DEF RequestControl
  <2>9. CASE CheckNotHost(s)
    BY <2>9 DEF CheckNotHost
  <2>10. CASE CheckLocked(s)
    BY <2>10 DEF CheckLocked
  <2>11. CASE CheckImplicit(s)
    BY <2>11 DEF CheckImplicit
  <2>12. CASE CheckHosted(s)
    BY <2>12 DEF CheckHosted
  <2>13. CASE BecomeHost(s)
    BY <2>13 DEF BecomeHost, SetHost
  <2>14. CASE ReleaseControl(s)
    BY <2>14 DEF ReleaseControl
  <2>15. CASE GiveUpHost(s)
    BY <2>15 DEF GiveUpHost, ClearHost, SetHost
  <2>16. CASE OfferFails(s)
    BY <2>16 DEF OfferFails
  <2> QED
    BY <1>2, <2>1, <2>2, <2>3, <2>4, <2>5, <2>6, <2>7, <2>8, <2>9, <2>10,
       <2>11, <2>12, <2>13, <2>14, <2>15, <2>16 DEF WsStep
<1>3. ASSUME NEW r \in Requests, ReqStep(r) PROVE HidesInv'
  <2>1. ASSUME NEW new \in Settings, SettingsSet(r, new) PROVE HidesInv'
    <3>1. step'[r] = "each"
      BY <2>1 DEF SettingsSet
    <3> QED
      BY <3>1
  <2>2. ASSUME NEW s \in Sessions, NextSession(r, s) PROVE HidesInv'
    <3> SUFFICES ASSUME step'[r] \in {"isHost", "clear", "peer", "pause"}
                 PROVE  r \in hides' <=> PrivateModeEnabled(target[r])'
      OBVIOUS
    <3>1. target'[r] = s /\ UNCHANGED <<settings, profile>>
      BY <2>2 DEF NextSession
    <3>2. r \in hides' <=> PrivateModeEnabled(s)
      BY <2>2 DEF NextSession, ReadEnabled
    <3> QED
      BY <3>1, <3>2
  <2>3. CASE CheckPrivateHost(r)
    BY <2>3 DEF CheckPrivateHost, ReqGoTo
  <2>4. CASE ClearPrivateHost(r)
    BY <2>4 DEF ClearPrivateHost, ReqGoTo, ClearHost, SetHost
  <2>5. CASE FindPeer(r)
    BY <2>5 DEF FindPeer, ReqGoTo, GetPeer
  <2>6. CASE PauseSession(r)
    BY <2>6 DEF PauseSession, ReqGoTo, SetPaused, SetTracks
  <2>7. CASE AllSessionsDone(r)
    BY <2>7 DEF AllSessionsDone, ReqGoTo, Return
  <2>8. CASE CheckLockedHost(r)
    BY <2>8 DEF CheckLockedHost, ReqGoTo, Return
  <2>9. CASE ClearAnyHost(r)
    BY <2>9 DEF ClearAnyHost, Return, ClearHost, SetHost
  <2>10. ASSUME NEW s \in Sessions, NEW new \in Profiles,
              UpdateProfile(r, s, new)
        PROVE HidesInv'
    <3>1. step'[r] = "profile"
      BY <2>10 DEF UpdateProfile, Begin
    <3> QED
      BY <3>1
  <2>11. CASE CheckProfileHost(r)
    BY <2>11 DEF CheckProfileHost, ReqGoTo
  <2>12. CASE ClearProfileHost(r)
    BY <2>12 DEF ClearProfileHost, ReqGoTo, ClearHost, SetHost
  <2>13. CASE FindProfilePeer(r)
    BY <2>13 DEF FindProfilePeer, ReqGoTo, Return, GetPeer
  <2>14. CASE ReadPrivateMode(r)
    BY <2>14 DEF ReadPrivateMode, ReadEnabled
  <2>15. ASSUME NEW s \in Sessions, PostRequest(r, s) PROVE HidesInv'
    BY <2>15 DEF PostRequest, Begin
  <2>16. ASSUME NEW s \in Sessions, PostGive(r, s) PROVE HidesInv'
    BY <2>16 DEF PostGive, Begin
  <2>17. CASE PostCheckHosted(r)
    BY <2>17 DEF PostCheckHosted, ReqGoTo, Return
  <2>18. CASE PostCheckLocked(r)
    BY <2>18 DEF PostCheckLocked, ReqGoTo, Return
  <2>19. CASE PostBecomesHost(r)
    BY <2>19 DEF PostBecomesHost, Return, SetHost
  <2>20. CASE GiveHost(r)
    BY <2>20 DEF GiveHost, Return, SetHost
  <2>21. CASE PostReset(r)
    BY <2>21 DEF PostReset, Begin
  <2> QED
    BY <1>3, <2>1, <2>2, <2>3, <2>4, <2>5, <2>6, <2>7, <2>8, <2>9, <2>10,
       <2>11, <2>12, <2>13, <2>14, <2>15, <2>16, <2>17, <2>18, <2>19, <2>20,
       <2>21 DEF ReqStep
<1> QED
  BY <1>1, <1>2, <1>3 DEF Next

\* A peer private mode should pause never gets out of sight.
LEMMA PauseStep ==
    TypeOK /\ ReqInv /\ OneAdmin /\ HidesInv /\ PauseInv /\ [Next]_vars
        => PauseInv'
<1> SUFFICES ASSUME TypeOK /\ ReqInv /\ OneAdmin /\ HidesInv /\ PauseInv,
                    [Next]_vars
             PROVE  PauseInv'
  OBVIOUS
<1> USE RoomControlAssumption DEF TypeOK, ReqInv, OneAdmin, HidesInv,
      PauseInv, Due, PrivateModeEnabled, roomVars, hostVars, peerVars,
      reqVars, WsGoTo
<1>1. CASE UNCHANGED vars
  BY <1>1 DEF vars
<1>2. ASSUME NEW s \in Sessions, WsStep(s) PROVE PauseInv'
  <2>1. CASE CreatePeer(s)
    BY <2>1 DEF CreatePeer, LosePeer
  <2>2. CASE ClosePeer(s)
    BY <2>2 DEF ClosePeer, LosePeer
  <2>3. CASE CheckPrivate(s)
    BY <2>3 DEF CheckPrivate
  <2>4. CASE PauseNewPeer(s)
    BY <2>4 DEF PauseNewPeer, SetPaused, SetTracks
  <2>5. ASSUME NEW isOff \in BOOLEAN, SetVideo(s, isOff) PROVE PauseInv'
    BY <2>5 DEF SetVideo, SetDisabled, SetTracks, Muted
  <2>6. ASSUME NEW isOff \in BOOLEAN, SetAudio(s, isOff) PROVE PauseInv'
    BY <2>6 DEF SetAudio, SetDisabled, SetTracks, Muted
  <2>7. ASSUME NEW m \in Media, NEW isOff \in BOOLEAN,
              SignalMedia(s, m, isOff)
        PROVE PauseInv'
    BY <2>7 DEF SignalMedia, SetDisabled, SetTracks, Muted
  <2>8. CASE RequestControl(s)
    BY <2>8 DEF RequestControl
  <2>9. CASE CheckNotHost(s)
    BY <2>9 DEF CheckNotHost
  <2>10. CASE CheckLocked(s)
    BY <2>10 DEF CheckLocked
  <2>11. CASE CheckImplicit(s)
    BY <2>11 DEF CheckImplicit
  <2>12. CASE CheckHosted(s)
    BY <2>12 DEF CheckHosted
  <2>13. CASE BecomeHost(s)
    BY <2>13 DEF BecomeHost, SetHost
  <2>14. CASE ReleaseControl(s)
    BY <2>14 DEF ReleaseControl
  <2>15. CASE GiveUpHost(s)
    BY <2>15 DEF GiveUpHost, ClearHost, SetHost
  <2>16. CASE OfferFails(s)
    BY <2>16 DEF OfferFails
  <2> QED
    BY <1>2, <2>1, <2>2, <2>3, <2>4, <2>5, <2>6, <2>7, <2>8, <2>9, <2>10,
       <2>11, <2>12, <2>13, <2>14, <2>15, <2>16 DEF WsStep
<1>3. ASSUME NEW r \in Requests, ReqStep(r) PROVE PauseInv'
  <2>1. ASSUME NEW new \in Settings, SettingsSet(r, new) PROVE PauseInv'
    <3>0. UNCHANGED <<live, paused, unasked>>
      BY <2>1 DEF SettingsSet
    <3> SUFFICES ASSUME NEW s \in live, PrivateModeEnabled(s)',
                        s \notin paused \cup unasked
                 PROVE  Due(s)'
      BY <3>0
    <3>1. /\ s \in Sessions
          /\ UNCHANGED <<profile, ws>>
          /\ settings' = new
          /\ todo' = [todo EXCEPT ![r] = IF settings.private # new.private
                                         THEN Sessions ELSE {}]
      BY <2>1 DEF SettingsSet
    <3>2. CASE settings.private # new.private
      BY <3>1, <3>2
    <3>3. CASE settings.private = new.private
      <4>1. Due(s)
        BY <3>1, <3>3
      <4>2. step[r] = "idle" /\ todo[r] = {}
        BY <2>1 DEF SettingsSet
      <4> QED
        BY <3>1, <4>1, <4>2
    <3> QED
      BY <3>2, <3>3
  <2>2. ASSUME NEW s \in Sessions, NextSession(r, s) PROVE PauseInv'
    <3> SUFFICES ASSUME NEW p \in live, PrivateModeEnabled(p),
                        p \notin paused \cup unasked
                 PROVE  Due(p)'
      BY <2>2 DEF NextSession
    <3>1. /\ step[r] = "each" /\ step'[r] = "isHost"
          /\ target'[r] = s /\ todo'[r] = todo[r] \ {s}
          /\ ws' = ws
      BY <2>2 DEF NextSession
    <3>2. CASE p = s
      BY <3>1, <3>2
    <3>3. CASE p # s
      BY <3>1, <3>3
    <3> QED
      BY <3>2, <3>3
  <2>3. CASE CheckPrivateHost(r)
    BY <2>3 DEF CheckPrivateHost, ReqGoTo
  <2>4. CASE ClearPrivateHost(r)
    BY <2>4 DEF ClearPrivateHost, ReqGoTo, ClearHost, SetHost
  <2>5. CASE FindPeer(r)
    BY <2>5 DEF FindPeer, ReqGoTo, GetPeer
  <2>6. CASE PauseSession(r)
    BY <2>6 DEF PauseSession, ReqGoTo, SetPaused, SetTracks
  <2>7. CASE AllSessionsDone(r)
    BY <2>7 DEF AllSessionsDone, ReqGoTo, Return
  <2>8. CASE CheckLockedHost(r)
    BY <2>8 DEF CheckLockedHost, ReqGoTo, Return
  <2>9. CASE ClearAnyHost(r)
    BY <2>9 DEF ClearAnyHost, Return, ClearHost, SetHost
  <2>10. ASSUME NEW s \in Sessions, NEW new \in Profiles,
              UpdateProfile(r, s, new)
        PROVE PauseInv'
    <3> SUFFICES ASSUME NEW p \in live, PrivateModeEnabled(p)',
                        p \notin paused \cup unasked
                 PROVE  Due(p)'
      BY <2>10 DEF UpdateProfile, Begin
    <3>0. /\ step[r] = "idle"
          /\ step' = [step EXCEPT ![r] = "profile"]
          /\ target' = [target EXCEPT ![r] = s]
          /\ profile' = [profile EXCEPT ![s] = new]
          /\ UNCHANGED <<settings, ws, todo, holds>>
      BY <2>10 DEF UpdateProfile, Begin
    <3>1. /\ p \in Sessions
          /\ step[r] = "idle" /\ todo[r] = {}
          /\ step'[r] = "profile" /\ target'[r] = s
          /\ profile' = [profile EXCEPT ![s] = new]
          /\ UNCHANGED <<settings, ws>>
      BY <3>0
    <3>2. CASE p = s
      BY <3>1, <3>2
    <3>3. CASE p # s
      <4>1. Due(p)
        BY <3>1, <3>3
      <4> QED
        BY <3>1, <4>1
    <3> QED
      BY <3>2, <3>3
  <2>11. CASE CheckProfileHost(r)
    BY <2>11 DEF CheckProfileHost, ReqGoTo
  <2>12. CASE ClearProfileHost(r)
    BY <2>12 DEF ClearProfileHost, ReqGoTo, ClearHost, SetHost
  <2>13. CASE FindProfilePeer(r)
    BY <2>13 DEF FindProfilePeer, ReqGoTo, Return, GetPeer
  <2>14. CASE ReadPrivateMode(r)
    BY <2>14 DEF ReadPrivateMode, ReadEnabled
  <2>15. ASSUME NEW s \in Sessions, PostRequest(r, s) PROVE PauseInv'
    BY <2>15 DEF PostRequest, Begin
  <2>16. ASSUME NEW s \in Sessions, PostGive(r, s) PROVE PauseInv'
    BY <2>16 DEF PostGive, Begin
  <2>17. CASE PostCheckHosted(r)
    BY <2>17 DEF PostCheckHosted, ReqGoTo, Return
  <2>18. CASE PostCheckLocked(r)
    BY <2>18 DEF PostCheckLocked, ReqGoTo, Return
  <2>19. CASE PostBecomesHost(r)
    <3>1. /\ step' = [step EXCEPT ![r] = "idle"]
          /\ UNCHANGED <<settings, profile, live, paused, holds, unasked, ws, todo>>
          /\ target' = [target EXCEPT ![r] = NoSession]
      BY <2>19 DEF PostBecomesHost, Return, SetHost
    <3>2. step[r] \in {"request", "give"}
      BY <2>19 DEF PostBecomesHost
    <3> QED
      BY <3>1, <3>2
  <2>20. CASE GiveHost(r)
    <3>1. /\ step' = [step EXCEPT ![r] = "idle"]
          /\ UNCHANGED <<settings, profile, live, paused, holds, unasked, ws, todo>>
          /\ target' = [target EXCEPT ![r] = NoSession]
      BY <2>20 DEF GiveHost, Return, SetHost
    <3>2. step[r] \in {"request", "give"}
      BY <2>20 DEF GiveHost
    <3> QED
      BY <3>1, <3>2
  <2>21. CASE PostReset(r)
    BY <2>21 DEF PostReset, Begin
  <2> QED
    BY <1>3, <2>1, <2>2, <2>3, <2>4, <2>5, <2>6, <2>7, <2>8, <2>9, <2>10,
       <2>11, <2>12, <2>13, <2>14, <2>15, <2>16, <2>17, <2>18, <2>19, <2>20,
       <2>21 DEF ReqStep
<1> QED
  BY <1>1, <1>2, <1>3 DEF Next

-----------------------------------------------------------------------------
(* The theorems.                                                           *)

LEMMA InitType == Init => TypeOK /\ ReqInv
<1> SUFFICES ASSUME Init PROVE TypeOK /\ ReqInv
  OBVIOUS
<1> USE RoomControlAssumption DEF Init
<1>1. TypeOK
  BY DEF TypeOK, WsPcs, ReqPcs
<1>2. ReqInv
  BY DEF ReqInv
<1> QED
  BY <1>1, <1>2

LEMMA InitIInv == Init /\ OneAdmin => IInv
<1> SUFFICES ASSUME Init, OneAdmin PROVE IInv
  OBVIOUS
<1>1. TypeOK /\ ReqInv
  BY InitType
<1>2. SilentAsAsked /\ PauseInv
  BY DEF Init, SilentAsAsked, PauseInv
<1>3. HidesInv
  BY DEF Init, HidesInv
<1> QED
  BY <1>1, <1>2, <1>3 DEF IInv

\* The variables stay in their types: no session without a peer is paused.
THEOREM TypeCorrect == Spec => []TypeOK
<1>1. Init => TypeOK /\ ReqInv
  BY InitType
<1>2. (TypeOK /\ ReqInv) /\ [Next]_vars => (TypeOK /\ ReqInv)'
  BY TypeStep, ReqStepInv
<1> QED
  BY <1>1, <1>2, PTL DEF Spec

\* A track is silent while its peer is paused or its member has turned it
\* off, whatever was paused, resumed, turned off and on before.
THEOREM SilentAsAskedHolds == Spec => []SilentAsAsked
<1>1. Init => TypeOK /\ ReqInv /\ SilentAsAsked
  BY InitType DEF Init, SilentAsAsked
<1>2. (TypeOK /\ ReqInv /\ SilentAsAsked) /\ [Next]_vars
        => (TypeOK /\ ReqInv /\ SilentAsAsked)'
  BY TypeStep, ReqStepInv, TracksStep
<1> QED
  BY <1>1, <1>2, PTL DEF Spec

\* While one administrator at a time changes settings and profiles, private
\* mode hides the room from every member, however their handlers interleave.
THEOREM PrivateHidesHolds == OneAdmin /\ Spec => []PrivateHides
<1>1. IInv /\ [Next]_vars => IInv'
  <2> SUFFICES ASSUME IInv, [Next]_vars PROVE IInv'
    OBVIOUS
  <2>1. TypeOK' /\ ReqInv' /\ SilentAsAsked'
    BY TypeStep, ReqStepInv, TracksStep DEF IInv
  <2>2. HidesInv' /\ PauseInv'
    BY HidesStep, PauseStep DEF IInv
  <2> QED
    BY <2>1, <2>2 DEF IInv, OneAdmin
<1>2. IInv => PrivateHides
  <2> SUFFICES ASSUME IInv, Rest, NEW s \in live \ unasked,
                      PrivateModeEnabled(s)
               PROVE  muted[s] = Media
    BY DEF PrivateHides
  <2>1. s \in Sessions
    BY DEF IInv, TypeOK
  <2>2. ~Due(s)
    BY <2>1 DEF IInv, Rest, Due, ReqInv
  <2>3. s \in paused
    BY <2>2 DEF IInv, PauseInv
  <2>4. Media \subseteq muted[s]
    BY <2>3 DEF IInv, SilentAsAsked
  <2>5. muted[s] \subseteq Media
    BY <2>1 DEF IInv, TypeOK
  <2> QED
    BY <2>4, <2>5
<1> QED
  BY InitIInv, <1>1, <1>2, PTL DEF Spec
-----------------------------------------------------------------------------
(* Who is host, when handlers that may change the host run one by one.      *)

HostPcs == {"isHost", "mayHost", "implicit", "hosted", "setHost", "clearHost"}

\* One handler is under way, of a websocket or of a request.
Alone ==
    /\ \A s, t \in Sessions : ws[s] \in HostPcs /\ ws[t] \in HostPcs => s = t
    /\ \A q, r \in Requests : step[q] # "idle" /\ step[r] # "idle" => q = r
    /\ \A s \in Sessions, r \in Requests :
          ws[s] \in HostPcs => step[r] = "idle"

Unlocked(s) == ~settings.locked \/ profile[s].admin
MayControl(s) == profile[s].canHost /\ ~PrivateModeEnabled(s)

\* What a handler has found of the session it makes the host is still so, and
\* only UpdateSettings locks the controls.
AskedInv ==
    /\ \A s \in Sessions :
          /\ ws[s] \in HostPcs \ {"clearHost"} => MayControl(s)
          /\ ws[s] \in {"implicit", "hosted", "setHost"} => Unlocked(s)
    /\ \A r \in Requests :
          /\ step[r] \in {"hosted", "mayHost", "request"} =>
                MayControl(target[r])
          /\ step[r] = "request" => Unlocked(target[r])
          /\ step[r] = "give" => profile[target[r]].canHost
    /\ \A r \in locks : step[r] \in {"each", "isHost", "clear", "peer", "pause",
                                     "locked", "clearHost"}

\* A host that should not be one is about to be cleared: by profileChanged, or
\* by UpdateSettings, which has still to come to it.
ToldApart == profile[host].admin \/ granted

HostInv ==
    host # NoHost =>
        /\ \/ profile[host].canHost
           \/ \E r \in Requests : /\ target[r] = host
                                  /\ step[r] \in {"profile", "lostHost"}
        /\ \/ ToldApart \/ ~settings.private
           \/ \E r \in Requests :
                 \/ host \in todo[r]
                 \/ target[r] = host /\ step[r] \in {"isHost", "clear"}
        /\ ToldApart \/ ~settings.locked \/ locks # {}

SerialInv == /\ Serial /\ TypeOK /\ ReqInv
             /\ Alone /\ HidesInv /\ AskedInv /\ HostInv

\* Handlers that may change the host go on, and end, one by one.
LEMMA AloneStep ==
    ASSUME Serial, TypeOK, Alone, [Next]_vars
    PROVE  Alone'
<1> USE RoomControlAssumption DEF TypeOK, Alone, HostPcs, roomVars, hostVars,
      peerVars, reqVars, WsGoTo
<1>1. CASE UNCHANGED vars
  BY <1>1 DEF vars
<1>2. ASSUME NEW s \in Sessions, WsStep(s) PROVE Alone'
  <2>1. CASE CreatePeer(s)
    BY <2>1 DEF CreatePeer, LosePeer
  <2>2. CASE ClosePeer(s)
    BY <2>2 DEF ClosePeer, LosePeer
  <2>3. CASE CheckPrivate(s)
    BY <2>3 DEF CheckPrivate
  <2>4. CASE PauseNewPeer(s)
    BY <2>4 DEF PauseNewPeer, SetPaused, SetTracks
  <2>5. ASSUME NEW isOff \in BOOLEAN, SetVideo(s, isOff) PROVE Alone'
    BY <2>5 DEF SetVideo, SetDisabled, SetTracks, Muted
  <2>6. ASSUME NEW isOff \in BOOLEAN, SetAudio(s, isOff) PROVE Alone'
    BY <2>6 DEF SetAudio, SetDisabled, SetTracks, Muted
  <2>7. ASSUME NEW m \in Media, NEW isOff \in BOOLEAN,
               SignalMedia(s, m, isOff)
        PROVE  Alone'
    BY <2>7 DEF SignalMedia, SetDisabled, SetTracks, Muted
  <2>8. CASE RequestControl(s)
    BY <2>8 DEF RequestControl, MayStart
  <2>9. CASE CheckNotHost(s)
    BY <2>9 DEF CheckNotHost
  <2>10. CASE CheckLocked(s)
    BY <2>10 DEF CheckLocked
  <2>11. CASE CheckImplicit(s)
    BY <2>11 DEF CheckImplicit
  <2>12. CASE CheckHosted(s)
    BY <2>12 DEF CheckHosted
  <2>13. CASE BecomeHost(s)
    BY <2>13 DEF BecomeHost, SetHost
  <2>14. CASE ReleaseControl(s)
    BY <2>14 DEF ReleaseControl, MayStart
  <2>15. CASE GiveUpHost(s)
    BY <2>15 DEF GiveUpHost, ClearHost, SetHost
  <2>16. CASE OfferFails(s)
    BY <2>16 DEF OfferFails
  <2> QED
    BY <1>2, <2>1, <2>2, <2>3, <2>4, <2>5, <2>6, <2>7, <2>8, <2>9, <2>10,
       <2>11, <2>12, <2>13, <2>14, <2>15, <2>16 DEF WsStep
<1>3. ASSUME NEW r \in Requests, ReqStep(r) PROVE Alone'
  <2>1. ASSUME NEW new \in Settings, SettingsSet(r, new) PROVE Alone'
    BY <2>1 DEF SettingsSet, MayStart
  <2>2. ASSUME NEW s \in Sessions, NextSession(r, s) PROVE Alone'
    BY <2>2 DEF NextSession, ReadEnabled
  <2>3. CASE CheckPrivateHost(r)
    BY <2>3 DEF CheckPrivateHost, ReqGoTo
  <2>4. CASE ClearPrivateHost(r)
    BY <2>4 DEF ClearPrivateHost, ReqGoTo, ClearHost, SetHost
  <2>5. CASE FindPeer(r)
    BY <2>5 DEF FindPeer, ReqGoTo, GetPeer
  <2>6. CASE PauseSession(r)
    BY <2>6 DEF PauseSession, ReqGoTo, SetPaused, SetTracks
  <2>7. CASE AllSessionsDone(r)
    BY <2>7 DEF AllSessionsDone, ReqGoTo, Return
  <2>8. CASE CheckLockedHost(r)
    BY <2>8 DEF CheckLockedHost, ReqGoTo, Return
  <2>9. CASE ClearAnyHost(r)
    BY <2>9 DEF ClearAnyHost, Return, ClearHost, SetHost
  <2>10. ASSUME NEW s \in Sessions, NEW new \in Profiles,
               UpdateProfile(r, s, new)
        PROVE  Alone'
    BY <2>10 DEF UpdateProfile, Begin, MayStart
  <2>11. CASE CheckProfileHost(r)
    BY <2>11 DEF CheckProfileHost, ReqGoTo
  <2>12. CASE ClearProfileHost(r)
    BY <2>12 DEF ClearProfileHost, ReqGoTo, ClearHost, SetHost
  <2>13. CASE FindProfilePeer(r)
    BY <2>13 DEF FindProfilePeer, ReqGoTo, Return, GetPeer
  <2>14. CASE ReadPrivateMode(r)
    BY <2>14 DEF ReadPrivateMode, ReadEnabled
  <2>15. ASSUME NEW s \in Sessions, PostRequest(r, s) PROVE Alone'
    BY <2>15 DEF PostRequest, Begin, MayStart
  <2>16. ASSUME NEW s \in Sessions, PostGive(r, s) PROVE Alone'
    BY <2>16 DEF PostGive, Begin, MayStart
  <2>17. CASE PostCheckHosted(r)
    BY <2>17 DEF PostCheckHosted, ReqGoTo, Return
  <2>18. CASE PostCheckLocked(r)
    BY <2>18 DEF PostCheckLocked, ReqGoTo, Return
  <2>19. CASE PostBecomesHost(r)
    BY <2>19 DEF PostBecomesHost, Return, SetHost
  <2>20. CASE GiveHost(r)
    BY <2>20 DEF GiveHost, Return, SetHost
  <2>21. CASE PostReset(r)
    BY <2>21 DEF PostReset, Begin, MayStart
  <2> QED
    BY <1>3, <2>1, <2>2, <2>3, <2>4, <2>5, <2>6, <2>7, <2>8, <2>9, <2>10,
       <2>11, <2>12, <2>13, <2>14, <2>15, <2>16, <2>17, <2>18, <2>19, <2>20,
       <2>21 DEF ReqStep
<1> QED
  BY <1>1, <1>2, <1>3 DEF Next

\* What a handler has found stays so, since no other one is under way.
LEMMA AskedStep ==
    ASSUME Serial, TypeOK, ReqInv, Alone, AskedInv, [Next]_vars
    PROVE  AskedInv'
<1> USE RoomControlAssumption DEF TypeOK, ReqInv, Alone, AskedInv, HostPcs,
      MayControl, Unlocked, PrivateModeEnabled, roomVars, hostVars,
      peerVars, reqVars, WsGoTo
<1>1. CASE UNCHANGED vars
  BY <1>1 DEF vars
<1>2. ASSUME NEW s \in Sessions, WsStep(s) PROVE AskedInv'
  <2>1. CASE CreatePeer(s)
    BY <2>1 DEF CreatePeer, LosePeer
  <2>2. CASE ClosePeer(s)
    BY <2>2 DEF ClosePeer, LosePeer
  <2>3. CASE CheckPrivate(s)
    BY <2>3 DEF CheckPrivate
  <2>4. CASE PauseNewPeer(s)
    BY <2>4 DEF PauseNewPeer, SetPaused, SetTracks
  <2>5. ASSUME NEW isOff \in BOOLEAN, SetVideo(s, isOff) PROVE AskedInv'
    BY <2>5 DEF SetVideo, SetDisabled, SetTracks, Muted
  <2>6. ASSUME NEW isOff \in BOOLEAN, SetAudio(s, isOff) PROVE AskedInv'
    BY <2>6 DEF SetAudio, SetDisabled, SetTracks, Muted
  <2>7. ASSUME NEW m \in Media, NEW isOff \in BOOLEAN,
               SignalMedia(s, m, isOff)
        PROVE  AskedInv'
    BY <2>7 DEF SignalMedia, SetDisabled, SetTracks, Muted
  <2>8. CASE RequestControl(s)
    BY <2>8 DEF RequestControl, MayStart
  <2>9. CASE CheckNotHost(s)
    BY <2>9 DEF CheckNotHost
  <2>10. CASE CheckLocked(s)
    BY <2>10 DEF CheckLocked
  <2>11. CASE CheckImplicit(s)
    BY <2>11 DEF CheckImplicit
  <2>12. CASE CheckHosted(s)
    BY <2>12 DEF CheckHosted
  <2>13. CASE BecomeHost(s)
    BY <2>13 DEF BecomeHost, SetHost
  <2>14. CASE ReleaseControl(s)
    BY <2>14 DEF ReleaseControl, MayStart
  <2>15. CASE GiveUpHost(s)
    <3>1. /\ ws' = [ws EXCEPT ![s] = "idle"]
          /\ UNCHANGED <<settings, profile, step, target, locks>>
      BY <2>15 DEF GiveUpHost
    <3> QED
      BY <3>1
  <2>16. CASE OfferFails(s)
    BY <2>16 DEF OfferFails
  <2> QED
    BY <1>2, <2>1, <2>2, <2>3, <2>4, <2>5, <2>6, <2>7, <2>8, <2>9, <2>10,
       <2>11, <2>12, <2>13, <2>14, <2>15, <2>16 DEF WsStep
<1>3. ASSUME NEW r \in Requests, ReqStep(r) PROVE AskedInv'
  <2>1. ASSUME NEW new \in Settings, SettingsSet(r, new) PROVE AskedInv'
    <3>1. /\ \A s1 \in Sessions : ws[s1] \notin HostPcs
          /\ \A q \in Requests : step[q] = "idle"
      BY <2>1 DEF SettingsSet, MayStart
    <3>2. /\ locks' \subseteq {r} /\ ws' = ws
          /\ step' = [step EXCEPT ![r] = "each"]
      BY <2>1, <3>1 DEF SettingsSet
    <3> QED
      BY <3>1, <3>2
  <2>2. ASSUME NEW s \in Sessions, NextSession(r, s) PROVE AskedInv'
    BY <2>2 DEF NextSession, ReadEnabled
  <2>3. CASE CheckPrivateHost(r)
    BY <2>3 DEF CheckPrivateHost, ReqGoTo
  <2>4. CASE ClearPrivateHost(r)
    BY <2>4 DEF ClearPrivateHost, ReqGoTo, ClearHost, SetHost
  <2>5. CASE FindPeer(r)
    <3>1. /\ step[r] = "peer"
          /\ step' = [step EXCEPT ![r] = IF target[r] \in live THEN "pause"
                                                             ELSE "each"]
          /\ UNCHANGED <<settings, profile, ws, target, locks>>
      BY <2>5 DEF FindPeer, ReqGoTo, GetPeer
    <3> QED
      BY <3>1
  <2>6. CASE PauseSession(r)
    BY <2>6 DEF PauseSession, ReqGoTo, SetPaused, SetTracks
  <2>7. CASE AllSessionsDone(r)
    <3>1. /\ step[r] = "each"
          /\ UNCHANGED <<settings, profile, ws>>
          /\ ReqGoTo(r, "locked") \/ Return(r)
      BY <2>7 DEF AllSessionsDone
    <3>2. CASE ReqGoTo(r, "locked")
      BY <3>1, <3>2 DEF ReqGoTo
    <3>3. CASE Return(r)
      BY <3>1, <3>3 DEF Return
    <3> QED
      BY <3>1, <3>2, <3>3
  <2>8. CASE CheckLockedHost(r)
    <3>1. /\ step[r] = "locked"
          /\ UNCHANGED <<settings, profile, ws>>
          /\ ReqGoTo(r, "clearHost") \/ Return(r)
      BY <2>8 DEF CheckLockedHost
    <3>2. CASE ReqGoTo(r, "clearHost")
      BY <3>1, <3>2 DEF ReqGoTo
    <3>3. CASE Return(r)
      BY <3>1, <3>3 DEF Return
    <3> QED
      BY <3>1, <3>2, <3>3
  <2>9. CASE ClearAnyHost(r)
    BY <2>9 DEF ClearAnyHost, Return, ClearHost, SetHost
  <2>10. ASSUME NEW s \in Sessions, NEW new \in Profiles,
               UpdateProfile(r, s, new)
        PROVE  AskedInv'
    <3>1. /\ \A s1 \in Sessions : ws[s1] \notin HostPcs
          /\ \A q \in Requests : step[q] = "idle"
      BY <2>10 DEF UpdateProfile, Begin, MayStart
    <3>2. ws' = ws /\ step' = [step EXCEPT ![r] = "profile"]
      BY <2>10 DEF UpdateProfile, Begin
    <3>3. locks = {} /\ locks' = locks
      BY <2>10, <3>1 DEF UpdateProfile, Begin
    <3> QED
      BY <3>1, <3>2, <3>3
  <2>11. CASE CheckProfileHost(r)
    BY <2>11 DEF CheckProfileHost, ReqGoTo
  <2>12. CASE ClearProfileHost(r)
    BY <2>12 DEF ClearProfileHost, ReqGoTo, ClearHost, SetHost
  <2>13. CASE FindProfilePeer(r)
    <3>1. /\ step[r] = "profilePeer"
          /\ UNCHANGED <<settings, profile, ws>>
          /\ ReqGoTo(r, "readPrivate") \/ Return(r)
      BY <2>13 DEF FindProfilePeer
    <3>2. CASE ReqGoTo(r, "readPrivate")
      BY <3>1, <3>2 DEF ReqGoTo
    <3>3. CASE Return(r)
      BY <3>1, <3>3 DEF Return
    <3> QED
      BY <3>1, <3>2, <3>3
  <2>14. CASE ReadPrivateMode(r)
    BY <2>14 DEF ReadPrivateMode, ReadEnabled
  <2>15. ASSUME NEW s \in Sessions, PostRequest(r, s) PROVE AskedInv'
    BY <2>15 DEF PostRequest, Begin, MayStart
  <2>16. ASSUME NEW s \in Sessions, PostGive(r, s) PROVE AskedInv'
    BY <2>16 DEF PostGive, Begin, MayStart
  <2>17. CASE PostCheckHosted(r)
    <3>1. /\ step[r] = "hosted"
          /\ UNCHANGED <<settings, profile, ws>>
          /\ ReqGoTo(r, "mayHost") \/ Return(r)
      BY <2>17 DEF PostCheckHosted
    <3>2. CASE ReqGoTo(r, "mayHost")
      BY <3>1, <3>2 DEF ReqGoTo
    <3>3. CASE Return(r)
      BY <3>1, <3>3 DEF Return
    <3> QED
      BY <3>1, <3>2, <3>3
  <2>18. CASE PostCheckLocked(r)
    BY <2>18 DEF PostCheckLocked, ReqGoTo, Return
  <2>19. CASE PostBecomesHost(r)
    BY <2>19 DEF PostBecomesHost, Return, SetHost
  <2>20. CASE GiveHost(r)
    BY <2>20 DEF GiveHost, Return, SetHost
  <2>21. CASE PostReset(r)
    BY <2>21 DEF PostReset, Begin, MayStart
  <2> QED
    BY <1>3, <2>1, <2>2, <2>3, <2>4, <2>5, <2>6, <2>7, <2>8, <2>9, <2>10,
       <2>11, <2>12, <2>13, <2>14, <2>15, <2>16, <2>17, <2>18, <2>19, <2>20,
       <2>21 DEF ReqStep
<1> QED
  BY <1>1, <1>2, <1>3 DEF Next

\* So does what a request has read of private mode.
LEMMA SerialHidesStep ==
    ASSUME Serial, TypeOK, ReqInv, Alone, HidesInv, [Next]_vars
    PROVE  HidesInv'
<1> USE RoomControlAssumption DEF TypeOK, ReqInv, Alone, HidesInv,
      PrivateModeEnabled, roomVars, hostVars,
      peerVars, reqVars, WsGoTo
<1>1. CASE UNCHANGED vars
  BY <1>1 DEF vars
<1>2. ASSUME NEW s \in Sessions, WsStep(s) PROVE HidesInv'
  <2>1. CASE CreatePeer(s)
    BY <2>1 DEF CreatePeer, LosePeer
  <2>2. CASE ClosePeer(s)
    BY <2>2 DEF ClosePeer, LosePeer
  <2>3. CASE CheckPrivate(s)
    BY <2>3 DEF CheckPrivate
  <2>4. CASE PauseNewPeer(s)
    BY <2>4 DEF PauseNewPeer, SetPaused, SetTracks
  <2>5. ASSUME NEW isOff \in BOOLEAN, SetVideo(s, isOff) PROVE HidesInv'
    BY <2>5 DEF SetVideo, SetDisabled, SetTracks, Muted
  <2>6. ASSUME NEW isOff \in BOOLEAN, SetAudio(s, isOff) PROVE HidesInv'
    BY <2>6 DEF SetAudio, SetDisabled, SetTracks, Muted
  <2>7. ASSUME NEW m \in Media, NEW isOff \in BOOLEAN,
               SignalMedia(s, m, isOff)
        PROVE  HidesInv'
    BY <2>7 DEF SignalMedia, SetDisabled, SetTracks, Muted
  <2>8. CASE RequestControl(s)
    BY <2>8 DEF RequestControl, MayStart
  <2>9. CASE CheckNotHost(s)
    BY <2>9 DEF CheckNotHost
  <2>10. CASE CheckLocked(s)
    BY <2>10 DEF CheckLocked
  <2>11. CASE CheckImplicit(s)
    BY <2>11 DEF CheckImplicit
  <2>12. CASE CheckHosted(s)
    BY <2>12 DEF CheckHosted
  <2>13. CASE BecomeHost(s)
    BY <2>13 DEF BecomeHost, SetHost
  <2>14. CASE ReleaseControl(s)
    BY <2>14 DEF ReleaseControl, MayStart
  <2>15. CASE GiveUpHost(s)
    BY <2>15 DEF GiveUpHost, ClearHost, SetHost
  <2>16. CASE OfferFails(s)
    BY <2>16 DEF OfferFails
  <2> QED
    BY <1>2, <2>1, <2>2, <2>3, <2>4, <2>5, <2>6, <2>7, <2>8, <2>9, <2>10,
       <2>11, <2>12, <2>13, <2>14, <2>15, <2>16 DEF WsStep
<1>3. ASSUME NEW r \in Requests, ReqStep(r) PROVE HidesInv'
  <2>1. ASSUME NEW new \in Settings, SettingsSet(r, new) PROVE HidesInv'
    BY <2>1 DEF SettingsSet, MayStart
  <2>2. ASSUME NEW s \in Sessions, NextSession(r, s) PROVE HidesInv'
    BY <2>2 DEF NextSession, ReadEnabled
  <2>3. CASE CheckPrivateHost(r)
    BY <2>3 DEF CheckPrivateHost, ReqGoTo
  <2>4. CASE ClearPrivateHost(r)
    BY <2>4 DEF ClearPrivateHost, ReqGoTo, ClearHost, SetHost
  <2>5. CASE FindPeer(r)
    BY <2>5 DEF FindPeer, ReqGoTo, GetPeer
  <2>6. CASE PauseSession(r)
    BY <2>6 DEF PauseSession, ReqGoTo, SetPaused, SetTracks
  <2>7. CASE AllSessionsDone(r)
    BY <2>7 DEF AllSessionsDone, ReqGoTo, Return
  <2>8. CASE CheckLockedHost(r)
    BY <2>8 DEF CheckLockedHost, ReqGoTo, Return
  <2>9. CASE ClearAnyHost(r)
    BY <2>9 DEF ClearAnyHost, Return, ClearHost, SetHost
  <2>10. ASSUME NEW s \in Sessions, NEW new \in Profiles,
               UpdateProfile(r, s, new)
        PROVE  HidesInv'
    BY <2>10 DEF UpdateProfile, Begin, MayStart
  <2>11. CASE CheckProfileHost(r)
    BY <2>11 DEF CheckProfileHost, ReqGoTo
  <2>12. CASE ClearProfileHost(r)
    BY <2>12 DEF ClearProfileHost, ReqGoTo, ClearHost, SetHost
  <2>13. CASE FindProfilePeer(r)
    BY <2>13 DEF FindProfilePeer, ReqGoTo, Return, GetPeer
  <2>14. CASE ReadPrivateMode(r)
    BY <2>14 DEF ReadPrivateMode, ReadEnabled
  <2>15. ASSUME NEW s \in Sessions, PostRequest(r, s) PROVE HidesInv'
    BY <2>15 DEF PostRequest, Begin, MayStart
  <2>16. ASSUME NEW s \in Sessions, PostGive(r, s) PROVE HidesInv'
    BY <2>16 DEF PostGive, Begin, MayStart
  <2>17. CASE PostCheckHosted(r)
    BY <2>17 DEF PostCheckHosted, ReqGoTo, Return
  <2>18. CASE PostCheckLocked(r)
    BY <2>18 DEF PostCheckLocked, ReqGoTo, Return
  <2>19. CASE PostBecomesHost(r)
    BY <2>19 DEF PostBecomesHost, Return, SetHost
  <2>20. CASE GiveHost(r)
    BY <2>20 DEF GiveHost, Return, SetHost
  <2>21. CASE PostReset(r)
    BY <2>21 DEF PostReset, Begin, MayStart
  <2> QED
    BY <1>3, <2>1, <2>2, <2>3, <2>4, <2>5, <2>6, <2>7, <2>8, <2>9, <2>10,
       <2>11, <2>12, <2>13, <2>14, <2>15, <2>16, <2>17, <2>18, <2>19, <2>20,
       <2>21 DEF ReqStep
<1> QED
  BY <1>1, <1>2, <1>3 DEF Next

\* A host that should not be one never gets out of sight.
LEMMA HostStep ==
    ASSUME Serial, TypeOK, ReqInv, Alone, HidesInv, AskedInv, HostInv,
           [Next]_vars
    PROVE  HostInv'
<1> USE RoomControlAssumption DEF TypeOK, ReqInv, HostInv, ToldApart, roomVars, hostVars,
      peerVars, reqVars, WsGoTo
<1>1. CASE UNCHANGED vars
  BY <1>1 DEF vars
<1>2. ASSUME NEW s \in Sessions, WsStep(s) PROVE HostInv'
  <2>1. CASE CreatePeer(s)
    BY <2>1 DEF CreatePeer, LosePeer
  <2>2. CASE ClosePeer(s)
    BY <2>2 DEF ClosePeer, LosePeer
  <2>3. CASE CheckPrivate(s)
    BY <2>3 DEF CheckPrivate
  <2>4. CASE PauseNewPeer(s)
    BY <2>4 DEF PauseNewPeer, SetPaused, SetTracks
  <2>5. ASSUME NEW isOff \in BOOLEAN, SetVideo(s, isOff) PROVE HostInv'
    BY <2>5 DEF SetVideo, SetDisabled, SetTracks, Muted
  <2>6. ASSUME NEW isOff \in BOOLEAN, SetAudio(s, isOff) PROVE HostInv'
    BY <2>6 DEF SetAudio, SetDisabled, SetTracks, Muted
  <2>7. ASSUME NEW m \in Media, NEW isOff \in BOOLEAN,
               SignalMedia(s, m, isOff)
        PROVE  HostInv'
    BY <2>7 DEF SignalMedia, SetDisabled, SetTracks, Muted
  <2>8. CASE RequestControl(s)
    BY <2>8 DEF RequestControl, MayStart
  <2>9. CASE CheckNotHost(s)
    BY <2>9 DEF CheckNotHost
  <2>10. CASE CheckLocked(s)
    BY <2>10 DEF CheckLocked
  <2>11. CASE CheckImplicit(s)
    BY <2>11 DEF CheckImplicit
  <2>12. CASE CheckHosted(s)
    BY <2>12 DEF CheckHosted
  <2>13. CASE BecomeHost(s)
    BY <2>13 DEF BecomeHost, SetHost, AskedInv, HostPcs,
                 MayControl, Unlocked, PrivateModeEnabled
  <2>14. CASE ReleaseControl(s)
    BY <2>14 DEF ReleaseControl, MayStart
  <2>15. CASE GiveUpHost(s)
    BY <2>15 DEF GiveUpHost, ClearHost, SetHost
  <2>16. CASE OfferFails(s)
    BY <2>16 DEF OfferFails
  <2> QED
    BY <1>2, <2>1, <2>2, <2>3, <2>4, <2>5, <2>6, <2>7, <2>8, <2>9, <2>10,
       <2>11, <2>12, <2>13, <2>14, <2>15, <2>16 DEF WsStep
<1>3. ASSUME NEW r \in Requests, ReqStep(r) PROVE HostInv'
  <2>1. ASSUME NEW new \in Settings, SettingsSet(r, new) PROVE HostInv'
    BY <2>1 DEF SettingsSet, MayStart
  <2>2. ASSUME NEW s \in Sessions, NextSession(r, s) PROVE HostInv'
    BY <2>2 DEF NextSession, ReadEnabled
  <2>3. CASE CheckPrivateHost(r)
    BY <2>3 DEF CheckPrivateHost, ReqGoTo, HidesInv, PrivateModeEnabled
  <2>4. CASE ClearPrivateHost(r)
    BY <2>4 DEF ClearPrivateHost, ReqGoTo, ClearHost, SetHost
  <2>5. CASE FindPeer(r)
    BY <2>5 DEF FindPeer, ReqGoTo, GetPeer
  <2>6. CASE PauseSession(r)
    BY <2>6 DEF PauseSession, ReqGoTo, SetPaused, SetTracks
  <2>7. CASE AllSessionsDone(r)
    <3>1. /\ step[r] = "each" /\ todo[r] = {}
          /\ UNCHANGED <<settings, profile, host, granted>>
      BY <2>7 DEF AllSessionsDone
    <3>2. \/ r \in locks /\ ReqGoTo(r, "locked")
          \/ r \notin locks /\ Return(r)
      BY <2>7 DEF AllSessionsDone
    <3>3. CASE r \in locks /\ ReqGoTo(r, "locked")
      BY <3>1, <3>3 DEF ReqGoTo
    <3>4. CASE r \notin locks /\ Return(r)
      BY <3>1, <3>4 DEF Return
    <3> QED
      BY <3>2, <3>3, <3>4
  <2>8. CASE CheckLockedHost(r)
    BY <2>8 DEF CheckLockedHost, ReqGoTo, Return
  <2>9. CASE ClearAnyHost(r)
    BY <2>9 DEF ClearAnyHost, Return, ClearHost, SetHost
  <2>10. ASSUME NEW s \in Sessions, NEW new \in Profiles,
               UpdateProfile(r, s, new)
        PROVE  HostInv'
    BY <2>10 DEF UpdateProfile, Begin, MayStart
  <2>11. CASE CheckProfileHost(r)
    BY <2>11 DEF CheckProfileHost, ReqGoTo
  <2>12. CASE ClearProfileHost(r)
    BY <2>12 DEF ClearProfileHost, ReqGoTo, ClearHost, SetHost
  <2>13. CASE FindProfilePeer(r)
    <3>1. /\ step[r] = "profilePeer" /\ r \notin locks /\ todo[r] = {}
          /\ UNCHANGED <<settings, profile, host, granted>>
          /\ ReqGoTo(r, "readPrivate") \/ Return(r)
      BY <2>13 DEF FindProfilePeer, AskedInv
    <3>2. CASE ReqGoTo(r, "readPrivate")
      BY <3>1, <3>2 DEF ReqGoTo
    <3>3. CASE Return(r)
      BY <3>1, <3>3 DEF Return
    <3> QED
      BY <3>1, <3>2, <3>3
  <2>14. CASE ReadPrivateMode(r)
    BY <2>14 DEF ReadPrivateMode, ReadEnabled
  <2>15. ASSUME NEW s \in Sessions, PostRequest(r, s) PROVE HostInv'
    BY <2>15 DEF PostRequest, Begin, MayStart
  <2>16. ASSUME NEW s \in Sessions, PostGive(r, s) PROVE HostInv'
    BY <2>16 DEF PostGive, Begin, MayStart
  <2>17. CASE PostCheckHosted(r)
    <3>1. /\ step[r] = "hosted" /\ r \notin locks /\ todo[r] = {}
          /\ UNCHANGED <<settings, profile, host, granted>>
          /\ ReqGoTo(r, "mayHost") \/ Return(r)
      BY <2>17 DEF PostCheckHosted, AskedInv
    <3>2. CASE ReqGoTo(r, "mayHost")
      BY <3>1, <3>2 DEF ReqGoTo
    <3>3. CASE Return(r)
      BY <3>1, <3>3 DEF Return
    <3> QED
      BY <3>1, <3>2, <3>3
  <2>18. CASE PostCheckLocked(r)
    <3>1. r \notin locks /\ todo[r] = {} /\ step[r] = "mayHost"
      BY <2>18 DEF PostCheckLocked, AskedInv
    <3>2. /\ step' = [step EXCEPT ![r] = IF settings.locked
                                             /\ ~profile[target[r]].admin
                                          THEN "idle" ELSE "request"]
          /\ \A q \in Requests \ {r} : target'[q] = target[q]
          /\ UNCHANGED <<settings, profile, host, granted, todo>>
      BY <2>18 DEF PostCheckLocked, ReqGoTo, Return
    <3>3. locks' = locks \/ locks' = locks \ {r}
      BY <2>18 DEF PostCheckLocked, ReqGoTo, Return
    <3>4. locks # {} => locks' # {}
      BY <3>1, <3>3
    <3> QED
      BY <3>1, <3>2, <3>4
  <2>19. CASE PostBecomesHost(r)
    BY <2>19 DEF PostBecomesHost, Return, SetHost, AskedInv,
                 MayControl, Unlocked, PrivateModeEnabled
  <2>20. CASE GiveHost(r)
    BY <2>20 DEF GiveHost, Return, SetHost, AskedInv
  <2>21. CASE PostReset(r)
    BY <2>21 DEF PostReset, Begin, MayStart
  <2> QED
    BY <1>3, <2>1, <2>2, <2>3, <2>4, <2>5, <2>6, <2>7, <2>8, <2>9, <2>10,
       <2>11, <2>12, <2>13, <2>14, <2>15, <2>16, <2>17, <2>18, <2>19, <2>20,
       <2>21 DEF ReqStep
<1> QED
  BY <1>1, <1>2, <1>3 DEF Next

\* Where handlers that may change the host run one by one, a host that is left
\* when all is quiet may host, and is an administrator, has its control from
\* one, or neither private mode nor locked controls forbid it.
THEOREM HostEntitledHolds == Serial /\ Spec => []HostEntitled
<1>1. Serial /\ Init => SerialInv
  BY InitType DEF Init, SerialInv, Alone, HidesInv, AskedInv, HostInv, HostPcs
<1>2. SerialInv /\ [Next]_vars => SerialInv'
  BY TypeStep, ReqStepInv, AloneStep, SerialHidesStep, AskedStep, HostStep
     DEF SerialInv
<1>3. SerialInv => HostEntitled
  <2> SUFFICES ASSUME SerialInv, Rest, host # NoHost
               PROVE  /\ profile[host].canHost
                      /\ \/ profile[host].admin
                         \/ granted
                         \/ ~settings.private /\ ~settings.locked
    BY DEF HostEntitled
  <2>1. \A r \in Requests : step[r] = "idle" /\ todo[r] = {}
    BY DEF Rest, SerialInv, ReqInv
  <2>2. locks = {}
    BY <2>1 DEF SerialInv, AskedInv, TypeOK
  <2>3. profile[host].canHost
    BY <2>1 DEF SerialInv, HostInv
  <2>4. ToldApart \/ ~settings.private
    BY <2>1 DEF SerialInv, HostInv
  <2>5. ToldApart \/ ~settings.locked
    BY <2>2 DEF SerialInv, HostInv
  <2> QED
    BY <2>3, <2>4, <2>5 DEF ToldApart
<1>4. Serial /\ Spec => []SerialInv
  BY <1>1, <1>2, PTL DEF Spec
<1> QED
  BY <1>3, <1>4, PTL
=============================================================================
