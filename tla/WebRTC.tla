--------------------------------- MODULE WebRTC ---------------------------------
(***************************************************************************)
(* The parts of internal/webrtc side by side: the life of the peers, the   *)
(* media that clients share, the images of the cursor and the choice of    *)
(* the video stream.  They have no state in common, so a behaviour looks   *)
(* at one of them and leaves the others as they start.                     *)
(***************************************************************************)
EXTENDS WebRTCPeers, SharedMedia, PeerCursors, Estimator

CONSTANT Views          \* the parts that are looked at

ASSUME WebRTCAssumption ==
    Views \subseteq {"peers", "media", "cursors", "estimator"}

VARIABLE view           \* the one of this behaviour

webrtcVars == <<view, peersVars, mediaVars, cursorVars, estimatorVars>>

\* Each variable of the four parts stays in its type.
TypeOK == /\ view \in Views
          /\ PeersTypeOK /\ MediaTypeOK /\ CursorsTypeOK /\ EstimatorTypeOK

\* A part that is not looked at starts in any one of its initial states.
Unseen ==
    /\ view # "peers" => scene = CHOOSE s \in Scenes : TRUE
    /\ view # "cursors" => shown = CHOOSE s \in Serials : TRUE
    /\ view # "estimator" =>
          /\ rate = [s \in Streams |-> CHOOSE r \in Rates : TRUE]
          /\ started = {} /\ stream = StreamIDs[1]
          /\ target = CHOOSE t \in Targets : TRUE

Init == /\ view \in Views
        /\ PeersInit /\ MediaInit /\ CursorsInit /\ EstimatorInit
        /\ Unseen

Next ==
    /\ view' = view
    /\ \/ /\ view = "peers" /\ PeersNext
          /\ UNCHANGED <<mediaVars, cursorVars, estimatorVars>>
       \/ /\ view = "media" /\ MediaNext
          /\ UNCHANGED <<peersVars, cursorVars, estimatorVars>>
       \/ /\ view = "cursors" /\ CursorsNext
          /\ UNCHANGED <<peersVars, mediaVars, estimatorVars>>
       \/ /\ view = "estimator" /\ EstimatorNext
          /\ UNCHANGED <<peersVars, mediaVars, cursorVars>>

Spec == Init /\ [][Next]_webrtcVars

FairSpec == Spec /\ PeersFairness
=============================================================================
