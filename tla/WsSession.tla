------------------------------- MODULE WsSession -------------------------------
(***************************************************************************)
(* One session of neko and the websocket connections a member opens for    *)
(* it: WebSocketManagerCtx.connect (internal/websocket/manager.go) and the *)
(* websocket half of SessionCtx (internal/session/session.go).             *)
(*                                                                         *)
(* Each connection has a goroutine that runs connect(): it checks          *)
(* IsConnected, becomes the session's peer, serves messages, and calls     *)
(* DisconnectWebSocketPeer.  An abnormal end asks for a delayed disconnect *)
(* that a five second timer carries out in a goroutine of its own; an      *)
(* administrator's DestroyWebSocketPeer is a third source.  websocketMu    *)
(* and wsDelayedMu cover single reads and writes only, so every step below *)
(* may fall between any two steps of another goroutine.                    *)
(***************************************************************************)
EXTENDS Naturals, FiniteSets

CONSTANTS Conns,        \* the connections the member's clients will open
          NoConn,       \* nil
          Kickers,      \* requests that call DestroyWebSocketPeer, once each
          Modes         \* what is assumed of settings and clients

ASSUME WsSessionAssumption ==
    /\ NoConn \notin Conns
    /\ Modes \subseteq [merciful : BOOLEAN, orderly : BOOLEAN]

VARIABLES
    mode,       \* merciful: Settings().MercifulReconnect; orderly: a client
                \* reconnects when connect() is over with its old connection,
                \* and nobody calls DestroyWebSocketPeer
    peer,       \* session.websocketPeer
    connected,  \* session.state.IsConnected
    hosting,    \* the manager's hostId is this session's
    open,       \* the connections whose socket is open and served or to be
    stage,      \* where connect() is, for each connection
    old,        \* the peer ConnectWebSocketPeer swapped out
    call,       \* the DisconnectWebSocketPeer calls in progress
    timer,      \* the timer AfterFunc made for each connection
    wsTimer     \* whose timer session.wsDelayedTimer is

peerVars == <<mode, peer, connected, hosting>>
connVars == <<open, stage, old>>
callVars == <<call, timer, wsTimer>>
vars == <<mode, peer, connected, hosting, open, stage, old, call, timer, wsTimer>>

\* The goroutines that call DisconnectWebSocketPeer.
Threads == ({"own", "timer"} \X Conns) \cup ({"kick"} \X Kickers)

Stages == {"new", "check", "swap", "set", "replace", "handle",
           "end", "gone"}
CallPcs == {"idle", "check", "timer", "state", "emit", "clear", "destroy",
            "done"}
Idle == [pc |-> "idle", peer |-> NoConn, delayed |-> FALSE]

\* The variables stay in their types; a disconnect in progress is never of nil,
\* whose Destroy would crash the server.
TypeOK ==
    /\ mode \in Modes
    /\ peer \in Conns \cup {NoConn}
    /\ connected \in BOOLEAN
    /\ hosting \in BOOLEAN
    /\ open \in SUBSET Conns
    /\ stage \in [Conns -> Stages]
    /\ old \in [Conns -> Conns \cup {NoConn}]
    /\ call \in [Threads -> [pc : CallPcs, peer : Conns \cup {NoConn},
                             delayed : BOOLEAN]]
    /\ timer \in [Conns -> {"none", "armed", "over"}]
    /\ wsTimer \in Conns \cup {NoConn}
    /\ \A t \in Threads : call[t].pc \notin {"idle", "done"} =>
                              call[t].peer \in Conns

Init ==
    /\ mode \in Modes
    /\ peer = NoConn
    /\ connected = FALSE
    /\ hosting = FALSE
    /\ open = {}
    /\ stage = [c \in Conns |-> "new"]
    /\ old = [c \in Conns |-> NoConn]
    /\ call = [t \in Threads |-> Idle]
    /\ timer = [c \in Conns |-> "none"]
    /\ wsTimer = NoConn

-----------------------------------------------------------------------------
\* connect()

Over(c) == stage[c] \in {"new", "gone"}

\* The member's client opens a socket; Upgrade calls connect().
Open(c) ==
    /\ stage[c] = "new"
    /\ mode.orderly => \A other \in Conns : Over(other)
    /\ stage' = [stage EXCEPT ![c] = "check"]
    /\ open' = open \cup {c}
    /\ UNCHANGED <<peerVars, callVars, old>>

\* A second connection is refused, unless reconnecting is merciful.
Admitted == ~connected \/ mode.merciful

Check(c) ==
    /\ stage[c] = "check"
    /\ IF Admitted
       THEN /\ stage' = [stage EXCEPT ![c] = "swap"]
            /\ open' = open
       ELSE /\ stage' = [stage EXCEPT ![c] = "gone"]
            /\ open' = open \ {c}
    /\ UNCHANGED <<peerVars, callVars, old>>

\* mutant of Swap: the previous peer is forgotten, so nothing destroys it
SwapForgets(c) ==
    /\ stage[c] = "swap"
    /\ peer' = c
    /\ stage' = [stage EXCEPT ![c] = "set"]
    /\ UNCHANGED <<mode, connected, hosting, open, old, callVars>>

\* The peer is new in every call, so the early return of a peer already set
\* is never taken.
Swap(c) ==
    /\ stage[c] = "swap"
    /\ peer' = c
    /\ old' = [old EXCEPT ![c] = peer]
    /\ stage' = [stage EXCEPT ![c] = "set"]
    /\ UNCHANGED <<mode, connected, hosting, open, callVars>>

SetConnected(c) ==
    /\ stage[c] = "set"
    /\ connected' = TRUE
    /\ stage' = [stage EXCEPT ![c] = "replace"]
    /\ UNCHANGED <<mode, peer, hosting, open, old, callVars>>

\* The previous peer is told so and its socket closed.
Replace(c) ==
    /\ stage[c] = "replace"
    /\ open' = open \ {old[c]}
    /\ stage' = [stage EXCEPT ![c] = "handle"]
    /\ UNCHANGED <<peerVars, callVars, old>>

\* handle() serves a message that makes the session the host.
BecomeHost(c) ==
    /\ stage[c] = "handle"
    /\ ~hosting
    /\ hosting' = TRUE
    /\ UNCHANGED <<mode, peer, connected, connVars, callVars>>

\* An administrator takes the control away.
LoseHost ==
    /\ hosting
    /\ hosting' = FALSE
    /\ UNCHANGED <<mode, peer, connected, connVars, callVars>>

\* handle() returns: the client closed the socket, the connection broke, a
\* ping failed or the server closed it; nothing is served on it any more.  An
\* error that is no orderly close asks for the delay.
HandleEnds(c) ==
    /\ stage[c] = "handle"
    /\ open' = open \ {c}
    /\ stage' = [stage EXCEPT ![c] = "end"]
    /\ \E delayed \in BOOLEAN :
          call' = [call EXCEPT ![<<"own", c>>] =
                      [pc |-> "check", peer |-> c, delayed |-> delayed]]
    /\ UNCHANGED <<peerVars, old, timer, wsTimer>>

ConnectReturns(c) ==
    /\ stage[c] = "end"
    /\ call[<<"own", c>>].pc = "done"
    /\ stage' = [stage EXCEPT ![c] = "gone"]
    /\ UNCHANGED <<peerVars, open, old, callVars>>

-----------------------------------------------------------------------------
\* DisconnectWebSocketPeer(peer, delayed)

GoTo(t, pc) == call' = [call EXCEPT ![t].pc = pc]

\* DestroyWebSocketPeer closes the socket after DisconnectWebSocketPeer.
Leave(t) == GoTo(t, IF t[1] = "kick" THEN "destroy" ELSE "done")

CheckCurrent(t) ==
    /\ call[t].pc = "check"
    /\ IF call[t].peer = peer /\ peer # NoConn THEN GoTo(t, "timer")
                                               ELSE Leave(t)
    /\ UNCHANGED <<peerVars, connVars, timer, wsTimer>>

\* mutant of ReplaceTimer: the new timer is stored and then stopped
StopNewTimer(t) ==
    LET c == call[t].peer IN
    /\ call[t].pc = "timer"
    /\ IF call[t].delayed
       THEN /\ timer' = [timer EXCEPT ![c] = "over"]
            /\ wsTimer' = c
            /\ Leave(t)
       ELSE /\ wsTimer' = NoConn
            /\ GoTo(t, "state")
            /\ timer' = timer
    /\ UNCHANGED <<peerVars, connVars>>

\* Whatever timer is held is stopped and replaced: by a new one for a delayed
\* disconnect, which then returns, by nil otherwise.  A timer made here does
\* not fire before it is stored: it waits five seconds.
ReplaceTimer(t) ==
    LET c == call[t].peer
        stopped == IF wsTimer # NoConn /\ timer[wsTimer] = "armed"
                   THEN [timer EXCEPT ![wsTimer] = "over"] ELSE timer IN
    /\ call[t].pc = "timer"
    /\ IF call[t].delayed
       THEN /\ timer' = [stopped EXCEPT ![c] = "armed"]
            /\ wsTimer' = c
            /\ Leave(t)
       ELSE /\ timer' = stopped
            /\ wsTimer' = NoConn
            /\ GoTo(t, "state")
    /\ UNCHANGED <<peerVars, connVars>>

\* mutant of SetDisconnected: the state is left as it is
StayConnected(t) ==
    /\ call[t].pc = "state"
    /\ GoTo(t, "emit")
    /\ UNCHANGED <<peerVars, connVars, timer, wsTimer>>

SetDisconnected(t) ==
    /\ call[t].pc = "state"
    /\ connected' = FALSE
    /\ GoTo(t, "emit")
    /\ UNCHANGED <<mode, peer, hosting, connVars, timer, wsTimer>>

\* mutant of EmitDisconnected: only a session still connected gives up control
EmitToConnected(t) ==
    /\ call[t].pc = "emit"
    /\ hosting' = (hosting /\ ~connected)
    /\ GoTo(t, "clear")
    /\ UNCHANGED <<mode, peer, connected, connVars, timer, wsTimer>>

\* "disconnected" makes SessionDisconnected clear the host, if it is the host.
EmitDisconnected(t) ==
    /\ call[t].pc = "emit"
    /\ hosting' = FALSE
    /\ GoTo(t, "clear")
    /\ UNCHANGED <<mode, peer, connected, connVars, timer, wsTimer>>

\* mutant of ClearPeer: whoever is the peer is forgotten
ClearAnyPeer(t) ==
    /\ call[t].pc = "clear"
    /\ peer' = NoConn
    /\ Leave(t)
    /\ UNCHANGED <<mode, connected, hosting, connVars, timer, wsTimer>>

ClearPeer(t) ==
    /\ call[t].pc = "clear"
    /\ peer' = IF peer = call[t].peer THEN NoConn ELSE peer
    /\ Leave(t)
    /\ UNCHANGED <<mode, connected, hosting, connVars, timer, wsTimer>>

Destroy(t) ==
    /\ call[t].pc = "destroy"
    /\ open' = open \ {call[t].peer}
    /\ GoTo(t, "done")
    /\ UNCHANGED <<peerVars, stage, old, timer, wsTimer>>

-----------------------------------------------------------------------------
\* The timer and the administrator

TimerFires(c) ==
    /\ timer[c] = "armed"
    /\ timer' = [timer EXCEPT ![c] = "over"]
    /\ call' = [call EXCEPT ![<<"timer", c>>] =
                   [pc |-> "check", peer |-> c, delayed |-> FALSE]]
    /\ UNCHANGED <<peerVars, connVars, wsTimer>>

\* DestroyWebSocketPeer reads the peer and disconnects what it has read.
Kick(k) ==
    /\ ~mode.orderly
    /\ call[<<"kick", k>>].pc = "idle"
    /\ call' = [call EXCEPT ![<<"kick", k>>] =
                   [pc |-> IF peer = NoConn THEN "done" ELSE "check",
                    peer |-> peer, delayed |-> FALSE]]
    /\ UNCHANGED <<peerVars, connVars, timer, wsTimer>>

ConnectStep(c) == \/ Check(c)
                  \/ Swap(c)
                  \/ SetConnected(c)
                  \/ Replace(c)
                  \/ ConnectReturns(c)

DisconnectStep(t) == \/ CheckCurrent(t)
                     \/ ReplaceTimer(t)
                     \/ SetDisconnected(t)
                     \/ EmitDisconnected(t)
                     \/ ClearPeer(t)
                     \/ Destroy(t)

Next ==
    \/ \E c \in Conns : Open(c) \/ ConnectStep(c) \/ BecomeHost(c)
                        \/ HandleEnds(c) \/ TimerFires(c)
    \/ \E t \in Threads : DisconnectStep(t)
    \/ \E k \in Kickers : Kick(k)
    \/ LoseHost

\* Goroutines are scheduled, an armed timer fires, and a handle() whose socket
\* is closed gets its read error.
Fairness ==
    /\ \A c \in Conns : /\ WF_vars(ConnectStep(c))
                        /\ WF_vars(TimerFires(c))
                        /\ WF_vars(c \notin open /\ HandleEnds(c))
    /\ \A t \in Threads : WF_vars(DisconnectStep(t))

Spec == Init /\ [][Next]_vars
FairSpec == Spec /\ Fairness

-----------------------------------------------------------------------------
\* No connection is on its way in or out and no disconnect is due.
Rest == /\ \A c \in Conns : stage[c] \in {"new", "handle", "gone"}
        /\ \A t \in Threads : call[t].pc \in {"idle", "done"}
        /\ \A c \in Conns : timer[c] # "armed"

\* When all is quiet and second connections are refused, the state every client
\* is shown says connected exactly when the session has a connection: it is
\* written under no lock, far from the peer it speaks of.
StateMatchesPeer ==
    mode.orderly /\ ~mode.merciful /\ Rest => (connected <=> peer # NoConn)

\* A session without a connection is not shown as connected, even if reconnects
\* are merciful: without them it could never be connected to.
NoGhost == mode.orderly /\ connected => peer # NoConn

\* A session whose last connection is gone is not left the host by what that
\* connection's messages did.
HostLeaves == mode.orderly /\ peer = NoConn => ~hosting

\* When all is quiet, the session's connection is one it is shown to have: the
\* disconnect of an old connection is ignored.
PeerIsConnected == Rest /\ peer # NoConn => connected

\* An open socket that is served but is not the session's peer is one somebody
\* is about to close: no connection works on unseen after it was replaced.
NoOrphan ==
    \A c \in Conns :
        stage[c] = "handle" /\ c \in open /\ peer # c =>
            \/ \E d \in Conns : /\ old[d] = c
                                /\ stage[d] \in {"set", "replace"}
            \/ \E t \in Threads : /\ call[t].peer = c
                                  /\ call[t].pc = "destroy"

\* A connection that is over does not stay the session's peer: the delayed
\* disconnect happens unless another connection takes its place.
DeadLeaves ==
    \A c \in Conns :
        (mode.orderly /\ ~mode.merciful /\ stage[c] = "gone") ~> (peer # c)
=============================================================================
