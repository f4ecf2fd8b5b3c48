---------------------------- MODULE WsSessionProofs ----------------------------
(***************************************************************************)
(* For any number of connections and of requests that disconnect them:     *)
(* NoOrphan of WsSession in every mode, and NoGhost, HostLeaves and        *)
(* StateMatchesPeer for orderly clients.                                   *)
(***************************************************************************)
EXTENDS WsSession, TLAPS

\* What a connection does from the swap until its client or the server ends it.
Serving == {"set", "replace", "handle"}
Ended == {"end", "gone"}

\* Somebody is about to close the socket of c.
Closing(c) ==
    \/ \E d \in Conns : old[d] = c /\ stage[d] \in {"set", "replace"}
    \/ \E t \in Threads : call[t].peer = c /\ call[t].pc = "destroy"

Types ==
    /\ peer \in Conns \cup {NoConn}
    /\ stage \in [Conns -> Stages]
    /\ old \in [Conns -> Conns \cup {NoConn}]
    /\ call \in [Threads -> [pc : CallPcs, peer : Conns \cup {NoConn},
                             delayed : BOOLEAN]]
    /\ timer \in [Conns -> {"none", "armed", "over"}]
    /\ wsTimer \in Conns \cup {NoConn}

\* A connection's own call and its timer's are about it, and only when it has
\* ended; only requests destroy.
CallsInv ==
    /\ \A c \in Conns :
          /\ call[<<"own", c>>].pc # "idle" =>
                call[<<"own", c>>].peer = c /\ stage[c] \in Ended
          /\ call[<<"timer", c>>].pc # "idle" =>
                call[<<"timer", c>>].peer = c /\ stage[c] \in Ended
          /\ timer[c] = "armed" => stage[c] \in Ended
    /\ \A t \in Threads : t[1] # "own" => ~call[t].delayed
    /\ \A t \in Threads : call[t].pc = "destroy" => t[1] = "kick"

OrphanInv ==
    \A c \in Conns :
        stage[c] \in Serving /\ c \in open /\ peer # c => Closing(c)

SessionInv == Types /\ CallsInv /\ OrphanInv

-----------------------------------------------------------------------------
LEMMA ThreadsFact ==
    /\ \A c \in Conns : <<"own", c>> \in Threads /\ <<"timer", c>> \in Threads
    /\ \A k \in Kickers : <<"kick", k>> \in Threads
    /\ \A t \in Threads :
          \/ \E c \in Conns : t = <<"own", c>> \/ t = <<"timer", c>>
          \/ \E k \in Kickers : t = <<"kick", k>>
BY DEF Threads

LEMMA SessionStarts == Init => SessionInv
<1> SUFFICES ASSUME Init PROVE SessionInv
  OBVIOUS
<1>1. \A t \in Threads : /\ call[t].pc = "idle" /\ call[t].peer = NoConn
                         /\ ~call[t].delayed
  BY DEF Init, Idle
<1>2. Types BY DEF Init, Types, Idle, Stages, CallPcs
<1>3. CallsInv BY <1>1, ThreadsFact DEF Init, CallsInv
<1>4. OrphanInv BY DEF Init, OrphanInv
<1> QED BY <1>2, <1>3, <1>4 DEF SessionInv

\* A step of connect() that ends no connection and makes no call.
LEMMA ConnectKeeps ==
    ASSUME SessionInv, Types', UNCHANGED <<call, timer>>,
           \A c \in Conns : stage[c] \in Ended => stage'[c] \in Ended
    PROVE  CallsInv'
BY DEF SessionInv, CallsInv, Ended

\* A step of a disconnect that keeps its subject and changes no connection.
LEMMA CallKeeps ==
    ASSUME SessionInv, NEW t \in Threads, call[t].pc # "idle",
           NEW pc \in CallPcs \ {"idle"}, pc = "destroy" => t[1] = "kick",
           call' = [call EXCEPT ![t].pc = pc],
           UNCHANGED <<stage, old>>,
           \A c \in Conns : timer'[c] = "armed" =>
               timer[c] = "armed" \/ stage[c] \in Ended
    PROVE  /\ CallsInv'
           /\ \A u \in Threads : call'[u].peer = call[u].peer
           /\ call'[t].pc = pc
           /\ \A u \in Threads \ {t} : call'[u] = call[u]
<1>1. /\ \A u \in Threads : /\ call'[u].peer = call[u].peer
                            /\ call'[u].delayed <=> call[u].delayed
      /\ call'[t].pc = pc
      /\ \A u \in Threads \ {t} : call'[u] = call[u]
  BY DEF SessionInv, Types
<1>2. \A u \in Threads : call'[u].pc # "idle" => call[u].pc # "idle"
  BY <1>1
<1>3. \A u \in Threads : call'[u].pc = "destroy" => u[1] = "kick"
  BY <1>1 DEF SessionInv, CallsInv
<1>4. CallsInv'
  BY <1>1, <1>2, <1>3, ThreadsFact DEF SessionInv, CallsInv
<1> QED BY <1>1, <1>4

\* A step that moves no peer and opens no socket, but may take a connection from
\* Closing only if it closes it.
LEMMA OrphanKeeps ==
    ASSUME SessionInv, peer' = peer, open' \subseteq open,
           \A c \in Conns : stage'[c] \in Serving => stage[c] \in Serving,
           \A c \in Conns : Closing(c) => Closing(c)' \/ c \notin open'
    PROVE  OrphanInv'
BY DEF SessionInv, OrphanInv

LEMMA SessionStep == SessionInv /\ [Next]_vars => SessionInv'
<1> SUFFICES ASSUME SessionInv, [Next]_vars PROVE SessionInv'
  OBVIOUS
<1> USE DEF peerVars, connVars, callVars
<1>1. CASE UNCHANGED vars
  <2>1. \A c \in Conns : Closing(c)' <=> Closing(c) BY <1>1 DEF vars, Closing
  <2>2. Types' BY <1>1 DEF vars, SessionInv, Types
  <2>3. CallsInv' BY <1>1 DEF vars, SessionInv, CallsInv
  <2>4. OrphanInv' BY <1>1, <2>1 DEF vars, SessionInv, OrphanInv
  <2> QED BY <2>2, <2>3, <2>4 DEF SessionInv
<1> SUFFICES ASSUME Next PROVE SessionInv'
  BY <1>1
<1>2. ASSUME NEW c \in Conns, Open(c) PROVE SessionInv'
  <2>1. /\ stage[c] = "new" /\ stage' = [stage EXCEPT ![c] = "check"]
        /\ open' = open \cup {c}
        /\ UNCHANGED <<peer, old, call, timer, wsTimer>>
    BY <1>2 DEF Open
  <2>2. Types' BY <2>1 DEF SessionInv, Types, Stages
  <2>3. CallsInv' BY <2>1, <2>2, ConnectKeeps DEF SessionInv, Types, Ended
  <2>4. /\ \A d \in Conns : stage'[d] \in Serving => stage[d] \in Serving /\ d # c
        /\ \A d \in Conns : Closing(d) => Closing(d)'
    BY <2>1 DEF SessionInv, Types, Serving, Closing
  <2>5. OrphanInv' BY <2>1, <2>4 DEF SessionInv, OrphanInv
  <2> QED BY <2>2, <2>3, <2>5 DEF SessionInv
<1>3. ASSUME NEW c \in Conns, Check(c) PROVE SessionInv'
  <2>1. /\ stage[c] = "check" /\ open' \subseteq open
        /\ \E s \in {"swap", "gone"} : stage' = [stage EXCEPT ![c] = s]
        /\ UNCHANGED <<peer, old, call, timer, wsTimer>>
    BY <1>3 DEF Check
  <2>2. Types' BY <2>1 DEF SessionInv, Types, Stages
  <2>3. CallsInv' BY <2>1, <2>2, ConnectKeeps DEF SessionInv, Types, Ended
  <2>4. /\ \A d \in Conns : stage'[d] \in Serving => stage[d] \in Serving
        /\ \A d \in Conns : Closing(d) => Closing(d)'
    BY <2>1 DEF SessionInv, Types, Serving, Closing
  <2>5. OrphanInv' BY <2>1, <2>4, OrphanKeeps
  <2> QED BY <2>2, <2>3, <2>5 DEF SessionInv
<1>4. ASSUME NEW c \in Conns, Swap(c) PROVE SessionInv'
  <2>1. /\ stage[c] = "swap" /\ stage' = [stage EXCEPT ![c] = "set"]
        /\ peer' = c /\ old' = [old EXCEPT ![c] = peer]
        /\ UNCHANGED <<open, call, timer, wsTimer>>
    BY <1>4 DEF Swap
  <2>2. Types' BY <2>1 DEF SessionInv, Types, Stages
  <2>3. CallsInv' BY <2>1, <2>2, ConnectKeeps DEF SessionInv, Types, Ended
  <2>4. ASSUME NEW d \in Conns, stage'[d] \in Serving, d \in open', peer' # d
        PROVE  Closing(d)'
    <3>1. d # c /\ stage[d] \in Serving /\ d \in open
      BY <2>1, <2>4 DEF SessionInv, Types
    <3>2. CASE peer = d
      <4>1. old'[c] = d /\ stage'[c] = "set"
        BY <2>1, <3>2 DEF SessionInv, Types
      <4> QED BY <4>1 DEF Closing
    <3>3. CASE peer # d
      <4>1. Closing(d) BY <3>1, <3>3 DEF SessionInv, OrphanInv
      <4>2. \A e \in Conns \ {c} : old'[e] = old[e] /\ stage'[e] = stage[e]
        BY <2>1 DEF SessionInv, Types
      <4> QED BY <2>1, <4>1, <4>2 DEF Closing
    <3> QED BY <3>2, <3>3
  <2>5. OrphanInv' BY <2>4 DEF OrphanInv
  <2> QED BY <2>2, <2>3, <2>5 DEF SessionInv
<1>5. ASSUME NEW c \in Conns, SetConnected(c) PROVE SessionInv'
  <2>1. /\ stage[c] = "set" /\ stage' = [stage EXCEPT ![c] = "replace"]
        /\ UNCHANGED <<peer, open, old, call, timer, wsTimer>>
    BY <1>5 DEF SetConnected
  <2>2. Types' BY <2>1 DEF SessionInv, Types, Stages
  <2>3. CallsInv' BY <2>1, <2>2, ConnectKeeps DEF SessionInv, Types, Ended
  <2>4. /\ \A d \in Conns : stage'[d] \in Serving => stage[d] \in Serving
        /\ \A d \in Conns : Closing(d) => Closing(d)'
    BY <2>1 DEF SessionInv, Types, Serving, Closing
  <2>5. OrphanInv' BY <2>1, <2>4, OrphanKeeps
  <2> QED BY <2>2, <2>3, <2>5 DEF SessionInv
<1>6. ASSUME NEW c \in Conns, Replace(c) PROVE SessionInv'
  <2>1. /\ stage[c] = "replace" /\ stage' = [stage EXCEPT ![c] = "handle"]
        /\ open' = open \ {old[c]}
        /\ UNCHANGED <<peer, old, call, timer, wsTimer>>
    BY <1>6 DEF Replace
  <2>2. Types' BY <2>1 DEF SessionInv, Types, Stages
  <2>3. CallsInv' BY <2>1, <2>2, ConnectKeeps DEF SessionInv, Types, Ended
  <2>4. /\ \A d \in Conns : stage'[d] \in Serving => stage[d] \in Serving
        /\ \A d \in Conns : Closing(d) => Closing(d)' \/ d \notin open'
    BY <2>1 DEF SessionInv, Types, Serving, Closing
  <2>5. OrphanInv' BY <2>1, <2>4, OrphanKeeps
  <2> QED BY <2>2, <2>3, <2>5 DEF SessionInv
<1>7. CASE LoseHost \/ \E c \in Conns : BecomeHost(c)
  <2>1. UNCHANGED <<peer, open, stage, old, call, timer, wsTimer>>
    BY <1>7 DEF BecomeHost, LoseHost
  <2>2. Types' BY <2>1 DEF SessionInv, Types
  <2>3. CallsInv' BY <2>1 DEF SessionInv, CallsInv
  <2>4. \A d \in Conns : Closing(d) => Closing(d)' BY <2>1 DEF Closing
  <2>5. OrphanInv' BY <2>1, <2>4, OrphanKeeps
  <2> QED BY <2>2, <2>3, <2>5 DEF SessionInv
<1>8. ASSUME NEW c \in Conns, HandleEnds(c) PROVE SessionInv'
  <2> DEFINE own == <<"own", c>>
  <2>1. PICK delayed \in BOOLEAN :
           call' = [call EXCEPT ![own] =
                       [pc |-> "check", peer |-> c, delayed |-> delayed]]
    BY <1>8 DEF HandleEnds
  <2>2. /\ stage[c] = "handle" /\ stage' = [stage EXCEPT ![c] = "end"]
        /\ open' = open \ {c}
        /\ UNCHANGED <<peer, old, timer, wsTimer>>
    BY <1>8 DEF HandleEnds
  <2>3. own \in Threads /\ own[1] = "own" /\ own[2] = c BY ThreadsFact
  <2>4. Types' BY <2>1, <2>2, <2>3 DEF SessionInv, Types, Stages, CallPcs
  <2>5. /\ call'[own].pc = "check" /\ call'[own].peer = c
        /\ \A t \in Threads \ {own} : call'[t] = call[t]
        /\ stage'[c] = "end" /\ \A d \in Conns \ {c} : stage'[d] = stage[d]
    BY <2>1, <2>2, <2>3 DEF SessionInv, Types
  <2>6. CallsInv'
    <3>1. \A d \in Conns : /\ <<"own", d>> = own => d = c
                           /\ <<"timer", d>> # own
      OBVIOUS
    <3>2. \A d \in Conns : stage[d] \in Ended => stage'[d] \in Ended
      BY <2>2, <2>5 DEF Ended
    <3>3. ASSUME NEW d \in Conns
          PROVE  /\ call'[<<"own", d>>].pc # "idle" =>
                       call'[<<"own", d>>].peer = d /\ stage'[d] \in Ended
                 /\ call'[<<"timer", d>>].pc # "idle" =>
                       call'[<<"timer", d>>].peer = d /\ stage'[d] \in Ended
                 /\ timer'[d] = "armed" => stage'[d] \in Ended
      BY <2>2, <2>5, <3>1, <3>2, ThreadsFact DEF SessionInv, CallsInv, Ended
    <3>4. \A t \in Threads : /\ t[1] # "own" => ~call'[t].delayed
                             /\ call'[t].pc = "destroy" => t[1] = "kick"
      BY <2>3, <2>5 DEF SessionInv, CallsInv
    <3> QED BY <3>3, <3>4 DEF CallsInv
  <2>7. \A d \in Conns : Closing(d) => Closing(d)'
    <3>1. call[own].pc # "destroy" BY <2>3 DEF SessionInv, CallsInv
    <3>2. \A d \in Conns : stage[d] \in {"set", "replace"} => stage'[d] = stage[d]
      BY <2>2, <2>5
    <3> HIDE DEF own
    <3> QED BY <2>2, <2>5, <3>1, <3>2 DEF Closing
  <2>8. \A d \in Conns : stage'[d] \in Serving => stage[d] \in Serving
    BY <2>5 DEF Serving
  <2>9. OrphanInv' BY <2>2, <2>7, <2>8, OrphanKeeps
  <2> QED BY <2>4, <2>6, <2>9 DEF SessionInv
<1>9. ASSUME NEW c \in Conns, ConnectReturns(c) PROVE SessionInv'
  <2>1. /\ stage[c] = "end" /\ stage' = [stage EXCEPT ![c] = "gone"]
        /\ UNCHANGED <<peer, open, old, call, timer, wsTimer>>
    BY <1>9 DEF ConnectReturns
  <2>2. Types' BY <2>1 DEF SessionInv, Types, Stages
  <2>3. CallsInv' BY <2>1, <2>2, ConnectKeeps DEF SessionInv, Types, Ended
  <2>4. /\ \A d \in Conns : stage'[d] \in Serving => stage[d] \in Serving
        /\ \A d \in Conns : Closing(d) => Closing(d)'
    BY <2>1 DEF SessionInv, Types, Serving, Closing
  <2>5. OrphanInv' BY <2>1, <2>4, OrphanKeeps
  <2> QED BY <2>2, <2>3, <2>5 DEF SessionInv
<1>10. ASSUME NEW c \in Conns, TimerFires(c) PROVE SessionInv'
  <2> DEFINE own == <<"timer", c>>
  <2>1. /\ timer[c] = "armed" /\ timer' = [timer EXCEPT ![c] = "over"]
        /\ call' = [call EXCEPT ![own] =
                       [pc |-> "check", peer |-> c, delayed |-> FALSE]]
        /\ UNCHANGED <<peer, open, stage, old, wsTimer>>
    BY <1>10 DEF TimerFires
  <2>2. own \in Threads /\ own[1] = "timer" /\ own[2] = c BY ThreadsFact
  <2>3. Types' BY <2>1, <2>2 DEF SessionInv, Types, CallPcs
  <2>4. /\ call'[own].pc = "check" /\ call'[own].peer = c /\ ~call'[own].delayed
        /\ \A t \in Threads \ {own} : call'[t] = call[t]
        /\ \A d \in Conns : timer'[d] = "armed" => timer[d] = "armed"
    BY <2>1, <2>2 DEF SessionInv, Types
  <2>5. CallsInv'
    <3>1. \A d \in Conns : /\ <<"timer", d>> = own => d = c
                           /\ <<"own", d>> # own
      OBVIOUS
    <3>2. stage[c] \in Ended BY <2>1 DEF SessionInv, CallsInv
    <3>3. ASSUME NEW d \in Conns
          PROVE  /\ call'[<<"own", d>>].pc # "idle" =>
                       call'[<<"own", d>>].peer = d /\ stage'[d] \in Ended
                 /\ call'[<<"timer", d>>].pc # "idle" =>
                       call'[<<"timer", d>>].peer = d /\ stage'[d] \in Ended
                 /\ timer'[d] = "armed" => stage'[d] \in Ended
      BY <2>1, <2>4, <3>1, <3>2, ThreadsFact DEF SessionInv, CallsInv
    <3>4. \A t \in Threads : /\ t[1] # "own" => ~call'[t].delayed
                             /\ call'[t].pc = "destroy" => t[1] = "kick"
      BY <2>2, <2>4 DEF SessionInv, CallsInv
    <3> QED BY <3>3, <3>4 DEF CallsInv
  <2>6. \A d \in Conns : Closing(d) => Closing(d)'
    <3>1. call[own].pc # "destroy" BY <2>2 DEF SessionInv, CallsInv
    <3> HIDE DEF own
    <3> QED BY <2>1, <2>4, <3>1 DEF Closing
  <2>7. OrphanInv' BY <2>1, <2>6, OrphanKeeps
  <2> QED BY <2>3, <2>5, <2>7 DEF SessionInv
<1>11. ASSUME NEW k \in Kickers, Kick(k) PROVE SessionInv'
  <2> DEFINE own == <<"kick", k>>
  <2>1. /\ call[own].pc = "idle"
        /\ \E pc \in {"done", "check"} :
              call' = [call EXCEPT ![own] =
                          [pc |-> pc, peer |-> peer, delayed |-> FALSE]]
        /\ UNCHANGED <<peer, open, stage, old, timer, wsTimer>>
    BY <1>11 DEF Kick
  <2>2. own \in Threads /\ own[1] = "kick" BY ThreadsFact
  <2>3. Types' BY <2>1, <2>2 DEF SessionInv, Types, CallPcs
  <2>4. /\ call'[own].pc # "destroy" /\ ~call'[own].delayed
        /\ \A t \in Threads \ {own} : call'[t] = call[t]
    BY <2>1, <2>2 DEF SessionInv, Types
  <2>5. CallsInv'
    <3>1. \A d \in Conns : <<"timer", d>> # own /\ <<"own", d>> # own
      OBVIOUS
    <3>2. ASSUME NEW d \in Conns
          PROVE  /\ call'[<<"own", d>>] = call[<<"own", d>>]
                 /\ call'[<<"timer", d>>] = call[<<"timer", d>>]
      BY <2>4, <3>1, ThreadsFact
    <3>3. \A t \in Threads : /\ t[1] # "own" => ~call'[t].delayed
                             /\ call'[t].pc = "destroy" => t[1] = "kick"
      BY <2>2, <2>4 DEF SessionInv, CallsInv
    <3> QED BY <2>1, <3>2, <3>3 DEF SessionInv, CallsInv
  <2>6. \A d \in Conns : Closing(d) => Closing(d)'
    <3> HIDE DEF own
    <3> QED BY <2>1, <2>4 DEF Closing
  <2>7. OrphanInv' BY <2>1, <2>6, OrphanKeeps
  <2> QED BY <2>3, <2>5, <2>7 DEF SessionInv
<1>12. ASSUME NEW t \in Threads, DisconnectStep(t) PROVE SessionInv'
  <2>1. PICK pc \in CallPcs \ {"idle"} :
           call' = [call EXCEPT ![t].pc = pc] /\ (pc = "destroy" => t[1] = "kick")
    BY <1>12 DEF DisconnectStep, CheckCurrent, ReplaceTimer, SetDisconnected,
                 EmitDisconnected, ClearPeer, Destroy, Leave, GoTo, CallPcs
  <2>2. call[t].pc # "idle" /\ UNCHANGED <<stage, old>>
    BY <1>12 DEF DisconnectStep, CheckCurrent, ReplaceTimer, SetDisconnected,
                 EmitDisconnected, ClearPeer, Destroy
  <2>3. call[t].delayed => stage[call[t].peer] \in Ended /\ call[t].peer \in Conns
    <3>1. ASSUME call[t].delayed PROVE \E c \in Conns : t = <<"own", c>>
      <4>1. t[1] = "own" BY <3>1 DEF SessionInv, CallsInv
      <4> QED BY <4>1, ThreadsFact
    <3> QED BY <2>2, <3>1 DEF SessionInv, CallsInv
  <2>4. /\ timer' \in [Conns -> {"none", "armed", "over"}]
        /\ wsTimer' \in Conns \cup {NoConn}
        /\ \A c \in Conns : timer'[c] = "armed" =>
              timer[c] = "armed" \/ stage[c] \in Ended
    <3>1. CASE ReplaceTimer(t)
      <4> DEFINE stopped == IF wsTimer # NoConn /\ timer[wsTimer] = "armed"
                            THEN [timer EXCEPT ![wsTimer] = "over"] ELSE timer
      <4>1. /\ stopped \in [Conns -> {"none", "armed", "over"}]
            /\ \A c \in Conns : stopped[c] = "armed" => timer[c] = "armed"
        BY DEF SessionInv, Types
      <4>2. \/ /\ call[t].delayed /\ wsTimer' = call[t].peer
               /\ timer' = [stopped EXCEPT ![call[t].peer] = "armed"]
            \/ timer' = stopped /\ wsTimer' = NoConn
        BY <3>1 DEF ReplaceTimer
      <4> HIDE DEF stopped
      <4> QED BY <2>3, <4>1, <4>2
    <3>2. CASE UNCHANGED <<timer, wsTimer>>
      BY <3>2 DEF SessionInv, Types
    <3> QED
      BY <1>12, <3>1, <3>2 DEF DisconnectStep, CheckCurrent, SetDisconnected,
                               EmitDisconnected, ClearPeer, Destroy
  <2>5. /\ CallsInv'
        /\ \A u \in Threads : call'[u].peer = call[u].peer
        /\ call'[t].pc = pc
        /\ \A u \in Threads \ {t} : call'[u] = call[u]
    BY <2>1, <2>2, <2>4, CallKeeps
  <2>6. ASSUME NEW d \in Conns, Closing(d), call[t].pc # "destroy"
        PROVE  Closing(d)'
    BY <2>2, <2>5, <2>6 DEF Closing
  <2>7. call' \in [Threads -> [pc : CallPcs, peer : Conns \cup {NoConn},
                              delayed : BOOLEAN]]
    BY <2>1 DEF SessionInv, Types
  <2>8. peer' \in Conns \cup {NoConn}
    BY <1>12 DEF DisconnectStep, CheckCurrent, ReplaceTimer, SetDisconnected,
                 EmitDisconnected, ClearPeer, Destroy, SessionInv, Types
  <2>9. Types' BY <2>2, <2>4, <2>7, <2>8 DEF SessionInv, Types
  <2>10. OrphanInv'
    <3>1. CASE ClearPeer(t)
      <4>1. /\ call[t].pc = "clear" /\ open' = open /\ Leave(t)
            /\ peer' = IF peer = call[t].peer THEN NoConn ELSE peer
        BY <3>1 DEF ClearPeer
      <4>2. ASSUME NEW d \in Conns, stage'[d] \in Serving, d \in open', peer' # d
            PROVE  Closing(d)'
        <5>1. CASE peer = d
          <6>1. call[t].peer = d BY <4>1, <4>2, <5>1
          <6>2. stage[d] \notin Ended BY <2>2, <4>2 DEF Serving, Ended
          <6>3. t[1] = "kick"
            <7>1. ASSUME NEW c \in Conns, t = <<"own", c>> \/ t = <<"timer", c>>
                  PROVE  FALSE
              <8>1. call[t].peer = c /\ stage[c] \in Ended
                BY <2>2, <7>1 DEF SessionInv, CallsInv
              <8> QED BY <6>1, <6>2, <8>1
            <7>2. PICK k \in Kickers : t = <<"kick", k>>
              BY <7>1, ThreadsFact
            <7> QED BY <7>2
          <6>4. call'[t].pc = "destroy"
            BY <4>1, <6>3 DEF Leave, GoTo, SessionInv, Types
          <6> QED BY <2>5, <6>1, <6>4 DEF Closing
        <5>2. CASE peer # d
          <6>1. Closing(d) BY <2>2, <4>1, <4>2, <5>2 DEF SessionInv, OrphanInv
          <6> QED BY <2>6, <4>1, <6>1
        <5> QED BY <5>1, <5>2
      <4> QED BY <4>2 DEF OrphanInv
    <3>2. CASE Destroy(t)
      <4>1. open' = open \ {call[t].peer} /\ peer' = peer BY <3>2 DEF Destroy
      <4>2. \A d \in Conns : Closing(d) => Closing(d)' \/ d \notin open'
        BY <2>2, <2>5, <4>1 DEF Closing
      <4> QED BY <2>2, <4>1, <4>2, OrphanKeeps
    <3>3. CASE UNCHANGED <<peer, open>> /\ call[t].pc # "destroy"
      BY <2>2, <2>6, <3>3, OrphanKeeps
    <3> QED
      BY <1>12, <3>1, <3>2, <3>3 DEF DisconnectStep, CheckCurrent, ReplaceTimer,
                                     SetDisconnected, EmitDisconnected
  <2> QED BY <2>5, <2>9, <2>10 DEF SessionInv
<1> QED
  BY <1>2, <1>3, <1>4, <1>5, <1>6, <1>7, <1>8, <1>9, <1>10, <1>11, <1>12
  DEF Next, ConnectStep

-----------------------------------------------------------------------------
(***************************************************************************)
(* Orderly clients: one connection at a time, and no request disconnects.  *)
(* What is left to race are the timer's disconnects of earlier connections *)
(* with the next connection.                                               *)
(***************************************************************************)
OneInv ==
    /\ \A k \in Kickers : call[<<"kick", k>>].pc = "idle"
    /\ \A c, d \in Conns : c = d \/ Over(c) \/ Over(d)
    /\ \A c \in Conns : stage[c] \in Serving => peer = c
    /\ \A c \in Conns : peer = c => stage[c] \in Serving \cup Ended
    /\ \A c \in Conns :
          /\ call[<<"own", c>>].pc \notin {"idle", "done"} => stage[c] = "end"
          /\ call[<<"timer", c>>].pc # "idle" \/ timer[c] = "armed" =>
                call[<<"own", c>>].pc = "done"
          /\ timer[c] = "armed" => call[<<"timer", c>>].pc = "idle"

\* The disconnect of the peer does its work in this order.
LeaveInv ==
    /\ peer = NoConn => ~connected /\ ~hosting
    /\ \A t \in Threads :
          call[t].peer = peer /\ call[t].pc \in {"emit", "clear"} => ~connected
    /\ \A t \in Threads :
          call[t].peer = peer /\ call[t].pc = "clear" => ~hosting

\* If second connections are refused, the peer that a disconnect has found to be
\* its own stays the peer until the state says disconnected, and the state says
\* so only while the disconnect goes on.
RefuseInv ==
    /\ \A c \in Conns : stage[c] = "swap" => ~connected
    /\ \A t \in Threads : call[t].pc \in {"timer", "state"} => call[t].peer = peer
    /\ \A c \in Conns : peer = c /\ stage[c] # "set" /\ ~connected =>
          \E t \in Threads : call[t].peer = c /\ call[t].pc \in {"emit", "clear"}

OrderlyInv == mode.orderly => OneInv /\ LeaveInv /\ (~mode.merciful => RefuseInv)

LEMMA OrderlyStarts == Init => OrderlyInv
<1> SUFFICES ASSUME Init PROVE OrderlyInv
  OBVIOUS
<1>1. \A t \in Threads : call[t].pc = "idle" BY DEF Init, Idle
<1>2. OneInv
  BY <1>1, ThreadsFact, WsSessionAssumption
  DEF Init, OneInv, Over, Serving
<1>3. LeaveInv BY <1>1 DEF Init, LeaveInv
<1>4. RefuseInv BY <1>1, WsSessionAssumption DEF Init, RefuseInv
<1> QED BY <1>2, <1>3, <1>4 DEF OrderlyInv

\* A call that was made is about a connection that has ended.
LEMMA CallsFact ==
    ASSUME SessionInv, OneInv, NEW t \in Threads, call[t].pc # "idle"
    PROVE  \E c \in Conns : /\ t = <<"own", c>> \/ t = <<"timer", c>>
                            /\ call[t].peer = c /\ stage[c] \in Ended
<1>1. PICK c \in Conns : t = <<"own", c>> \/ t = <<"timer", c>>
  BY ThreadsFact DEF OneInv
<1>2. call[t].peer = c /\ stage[c] \in Ended
  BY <1>1 DEF SessionInv, CallsInv
<1> QED BY <1>1, <1>2

LEMMA OrderlyConnect ==
    ASSUME SessionInv, OneInv, LeaveInv, ~mode.merciful => RefuseInv,
           mode' = mode, mode.orderly, NEW c \in Conns,
           Open(c) \/ ConnectStep(c) \/ BecomeHost(c)
    PROVE  OneInv' /\ LeaveInv' /\ (~mode.merciful => RefuseInv')
<1> USE DEF peerVars, connVars, callVars
<1>1. \A t \in Threads : call[t].pc # "idle" => stage[call[t].peer] \in Ended
  BY CallsFact
<1>2. stage \in [Conns -> Stages] /\ old \in [Conns -> Conns \cup {NoConn}]
  BY DEF SessionInv, Types
<1>3. CASE Open(c)
  <2>1. /\ stage[c] = "new" /\ \A d \in Conns : Over(d)
        /\ stage' = [stage EXCEPT ![c] = "check"]
        /\ UNCHANGED <<peer, connected, hosting, call, timer>>
    BY <1>3 DEF Open
  <2>2. stage'[c] = "check" /\ \A d \in Conns \ {c} : stage'[d] = stage[d]
    BY <1>2, <2>1
  <2>3. OneInv'
    BY <2>1, <2>2 DEF OneInv, Over, Serving, Ended
  <2>4. LeaveInv' BY <2>1 DEF LeaveInv
  <2>5. ~mode.merciful => RefuseInv' BY <2>1, <2>2 DEF RefuseInv, OneInv, Serving, Ended
  <2> QED BY <2>3, <2>4, <2>5
<1>4. CASE Check(c)
  <2>1. /\ stage[c] = "check"
        /\ \/ stage' = [stage EXCEPT ![c] = "gone"]
           \/ /\ stage' = [stage EXCEPT ![c] = "swap"]
              /\ ~connected \/ mode.merciful
        /\ UNCHANGED <<peer, connected, hosting, call, timer>>
    BY <1>4 DEF Check, Admitted
  <2>2. /\ \/ stage'[c] = "gone"
           \/ stage'[c] = "swap" /\ (~connected \/ mode.merciful)
        /\ \A d \in Conns \ {c} : stage'[d] = stage[d]
    BY <1>2, <2>1
  <2>3. OneInv'
    BY <2>1, <2>2 DEF OneInv, Over, Serving, Ended
  <2>4. LeaveInv' BY <2>1 DEF LeaveInv
  <2>5. ~mode.merciful => RefuseInv'
    BY <2>1, <2>2 DEF RefuseInv, OneInv, Serving, Ended
  <2> QED BY <2>3, <2>4, <2>5
<1>5. CASE Swap(c)
  <2>1. /\ stage[c] = "swap" /\ stage' = [stage EXCEPT ![c] = "set"]
        /\ peer' = c /\ UNCHANGED <<connected, hosting, call, timer>>
    BY <1>5 DEF Swap
  <2>2. stage'[c] = "set" /\ \A d \in Conns \ {c} : stage'[d] = stage[d]
    BY <1>2, <2>1
  <2>3. OneInv'
    BY <2>1, <2>2 DEF OneInv, Over, Serving, Ended
  <2>4. \A t \in Threads : call[t].pc # "idle" => call[t].peer # c
    BY <1>1, <2>1 DEF Ended
  <2>5. LeaveInv' BY <2>1, <2>4, WsSessionAssumption DEF LeaveInv
  <2>6. ~mode.merciful => RefuseInv'
    <3> SUFFICES ASSUME ~mode.merciful PROVE RefuseInv'
      OBVIOUS
    <3>1. RefuseInv /\ ~connected BY <2>1 DEF RefuseInv
    <3>2. ASSUME NEW t \in Threads, call[t].pc \in {"timer", "state"} PROVE FALSE
      <4>1. PICK d \in Conns : /\ t = <<"own", d>> \/ t = <<"timer", d>>
                               /\ call[t].peer = d /\ stage[d] \in Ended
        BY <3>2, CallsFact
      <4>2. peer = d /\ stage[d] # "set" BY <3>1, <3>2, <4>1 DEF RefuseInv, Ended
      <4>3. PICK u \in Threads : call[u].peer = d /\ call[u].pc \in {"emit", "clear"}
        BY <3>1, <4>2 DEF RefuseInv
      <4>4. u = <<"own", d>> \/ u = <<"timer", d>> BY <4>3, CallsFact
      <4>5. stage[d] = "end"
        BY <3>2, <4>1, <4>3, <4>4 DEF OneInv
      <4> QED BY <2>1, <4>5 DEF OneInv, Over
    <3>3. \A d \in Conns \ {c} : stage'[d] # "swap"
      BY <2>1, <2>2 DEF OneInv, Over
    <3> QED BY <2>1, <2>2, <3>2, <3>3 DEF RefuseInv
  <2> QED BY <2>3, <2>5, <2>6
<1>6. CASE SetConnected(c)
  <2>1. /\ stage[c] = "set" /\ stage' = [stage EXCEPT ![c] = "replace"]
        /\ connected' = TRUE /\ UNCHANGED <<peer, hosting, call, timer>>
    BY <1>6 DEF SetConnected
  <2>2. stage'[c] = "replace" /\ \A d \in Conns \ {c} : stage'[d] = stage[d]
    BY <1>2, <2>1
  <2>3. OneInv'
    BY <2>1, <2>2 DEF OneInv, Over, Serving, Ended
  <2>4. peer = c BY <2>1 DEF OneInv, Serving
  <2>5. \A t \in Threads : call[t].pc # "idle" => call[t].peer # c
    BY <1>1, <2>1 DEF Ended
  <2>6. LeaveInv' BY <2>1, <2>4, <2>5, WsSessionAssumption DEF LeaveInv
  <2>7. ~mode.merciful => RefuseInv'
    BY <2>1, <2>2 DEF RefuseInv, OneInv, Over
  <2> QED BY <2>3, <2>6, <2>7
<1>7. CASE Replace(c) \/ BecomeHost(c)
  <2>1. /\ \/ /\ stage[c] = "replace" /\ stage' = [stage EXCEPT ![c] = "handle"]
              /\ hosting' = hosting
           \/ stage[c] = "handle" /\ stage' = stage
        /\ UNCHANGED <<peer, connected, call, timer>>
    BY <1>7 DEF Replace, BecomeHost
  <2>2. /\ stage'[c] = "handle" /\ stage[c] \in Serving /\ stage[c] # "set"
        /\ \A d \in Conns \ {c} : stage'[d] = stage[d]
    BY <1>2, <2>1 DEF Serving
  <2>3. OneInv'
    BY <2>1, <2>2 DEF OneInv, Over, Serving, Ended
  <2>4. peer = c BY <2>2 DEF OneInv
  <2>5. \A t \in Threads : call[t].pc # "idle" => call[t].peer # c
    BY <1>1, <2>2 DEF Ended, Serving
  <2>6. LeaveInv' BY <2>1, <2>4, <2>5, WsSessionAssumption DEF LeaveInv
  <2>7. ~mode.merciful => RefuseInv'
    BY <2>1, <2>2 DEF RefuseInv, OneInv, Over
  <2> QED BY <2>3, <2>6, <2>7
<1>8. CASE ConnectReturns(c)
  <2>1. /\ stage[c] = "end" /\ stage' = [stage EXCEPT ![c] = "gone"]
        /\ call[<<"own", c>>].pc = "done"
        /\ UNCHANGED <<peer, connected, hosting, call, timer>>
    BY <1>8 DEF ConnectReturns
  <2>2. stage'[c] = "gone" /\ \A d \in Conns \ {c} : stage'[d] = stage[d]
    BY <1>2, <2>1
  <2>3. OneInv'
    BY <2>1, <2>2 DEF OneInv, Over, Serving, Ended
  <2>4. LeaveInv' BY <2>1 DEF LeaveInv
  <2>5. ~mode.merciful => RefuseInv'
    BY <2>1, <2>2 DEF RefuseInv, OneInv, Serving, Ended
  <2> QED BY <2>3, <2>4, <2>5
<1> QED BY <1>3, <1>4, <1>5, <1>6, <1>7, <1>8 DEF ConnectStep

LEMMA OrderlyEnds ==
    ASSUME SessionInv, OneInv, LeaveInv, ~mode.merciful => RefuseInv,
           mode' = mode, mode.orderly, NEW c \in Conns,
           HandleEnds(c) \/ TimerFires(c)
    PROVE  OneInv' /\ LeaveInv' /\ (~mode.merciful => RefuseInv')
<1> USE DEF peerVars, connVars, callVars
<1>1. /\ <<"own", c>> # <<"timer", c>>
      /\ \A d \in Conns : /\ <<"own", d>> \in Threads /\ <<"timer", d>> \in Threads
                          /\ <<"own", d>> # <<"timer", c>>
                          /\ <<"timer", d>> # <<"own", c>>
                          /\ <<"own", d>> = <<"own", c>> => d = c
                          /\ <<"timer", d>> = <<"timer", c>> => d = c
      /\ \A k \in Kickers : /\ <<"kick", k>> \in Threads
                            /\ <<"kick", k>> # <<"own", c>>
                            /\ <<"kick", k>> # <<"timer", c>>
  BY ThreadsFact
<1>2. CASE HandleEnds(c)
  <2> DEFINE mine == <<"own", c>>
  <2>1. /\ stage[c] = "handle" /\ stage' = [stage EXCEPT ![c] = "end"]
        /\ UNCHANGED <<peer, connected, hosting, timer>>
    BY <1>2 DEF HandleEnds
  <2>7. PICK delayed \in BOOLEAN :
           call' = [call EXCEPT ![mine] =
                       [pc |-> "check", peer |-> c, delayed |-> delayed]]
    BY <1>2 DEF HandleEnds
  <2>8. /\ call'[mine].pc = "check"
        /\ \A t \in Threads \ {mine} : call'[t] = call[t]
    BY <1>1, <2>7 DEF SessionInv, Types
  <2>9. /\ stage'[c] = "end"
        /\ \A d \in Conns \ {c} : stage'[d] = stage[d]
    BY <2>1 DEF SessionInv, Types
  <2>2. /\ stage'[c] = "end" /\ call'[mine].pc = "check"
        /\ \A d \in Conns \ {c} : stage'[d] = stage[d]
        /\ \A t \in Threads \ {mine} : call'[t] = call[t]
    BY <2>8, <2>9
  <2>3. call[mine].pc = "idle" /\ call[<<"timer", c>>].pc = "idle" /\ timer[c] # "armed"
    BY <2>1 DEF SessionInv, CallsInv, Ended
  <2>4. OneInv'
    <3>1. ASSUME NEW k \in Kickers PROVE call'[<<"kick", k>>].pc = "idle"
      <4>1. <<"kick", k>> \in Threads \ {mine} BY <1>1
      <4>2. call'[<<"kick", k>>] = call[<<"kick", k>>] BY <2>2, <4>1
      <4> QED BY <4>2 DEF OneInv
    <3>2. /\ \A d, e \in Conns : (d = e \/ Over(d) \/ Over(e))'
          /\ \A d \in Conns : stage'[d] \in Serving => peer' = d
          /\ \A d \in Conns : peer' = d => stage'[d] \in Serving \cup Ended
      BY <2>1, <2>2 DEF OneInv, Over, Serving, Ended
    <3>3. ASSUME NEW d \in Conns
          PROVE  /\ call'[<<"own", d>>].pc \notin {"idle", "done"} => stage'[d] = "end"
                 /\ call'[<<"timer", d>>].pc # "idle" \/ timer'[d] = "armed" =>
                        call'[<<"own", d>>].pc = "done"
                 /\ timer'[d] = "armed" => call'[<<"timer", d>>].pc = "idle"
      BY <1>1, <2>1, <2>2, <2>3 DEF OneInv
    <3> QED BY <3>1, <3>2, <3>3 DEF OneInv
  <2>5. LeaveInv' BY <2>1, <2>2 DEF LeaveInv
  <2>6. ~mode.merciful => RefuseInv'
    BY <2>1, <2>2, <2>3 DEF RefuseInv
  <2> QED BY <2>4, <2>5, <2>6
<1>3. CASE TimerFires(c)
  <2> DEFINE mine == <<"timer", c>>
  <2>1. /\ timer[c] = "armed" /\ timer' = [timer EXCEPT ![c] = "over"]
        /\ call' = [call EXCEPT ![mine] =
                       [pc |-> "check", peer |-> c, delayed |-> FALSE]]
        /\ UNCHANGED <<peer, connected, hosting, stage>>
    BY <1>3 DEF TimerFires
  <2>2. /\ call'[mine].pc = "check" /\ timer'[c] = "over"
        /\ \A t \in Threads \ {mine} : call'[t] = call[t]
        /\ \A d \in Conns \ {c} : timer'[d] = timer[d]
    BY <1>1, <2>1 DEF SessionInv, Types
  <2>3. call[mine].pc = "idle" BY <2>1 DEF OneInv
  <2>4. OneInv'
    <3>1. ASSUME NEW k \in Kickers PROVE call'[<<"kick", k>>].pc = "idle"
      <4>1. <<"kick", k>> \in Threads \ {mine} BY <1>1
      <4>2. call'[<<"kick", k>>] = call[<<"kick", k>>] BY <2>2, <4>1
      <4> QED BY <4>2 DEF OneInv
    <3>2. /\ \A d, e \in Conns : (d = e \/ Over(d) \/ Over(e))'
          /\ \A d \in Conns : stage'[d] \in Serving => peer' = d
          /\ \A d \in Conns : peer' = d => stage'[d] \in Serving \cup Ended
      BY <2>1 DEF OneInv, Over
    <3>3. ASSUME NEW d \in Conns
          PROVE  /\ call'[<<"own", d>>].pc \notin {"idle", "done"} => stage'[d] = "end"
                 /\ call'[<<"timer", d>>].pc # "idle" \/ timer'[d] = "armed" =>
                        call'[<<"own", d>>].pc = "done"
                 /\ timer'[d] = "armed" => call'[<<"timer", d>>].pc = "idle"
      BY <1>1, <2>1, <2>2, <2>3 DEF OneInv
    <3> QED BY <3>1, <3>2, <3>3 DEF OneInv
  <2>5. LeaveInv' BY <2>1, <2>2 DEF LeaveInv
  <2>6. ~mode.merciful => RefuseInv'
    BY <2>1, <2>2, <2>3 DEF RefuseInv
  <2> QED BY <2>4, <2>5, <2>6
<1> QED BY <1>2, <1>3

LEMMA OrderlyCalls ==
    ASSUME SessionInv, OneInv, LeaveInv, ~mode.merciful => RefuseInv,
           mode' = mode, mode.orderly, NEW t \in Threads, DisconnectStep(t)
    PROVE  OneInv' /\ LeaveInv' /\ (~mode.merciful => RefuseInv')
<1> USE DEF peerVars, connVars, callVars
<1>1. call[t].pc # "idle" /\ UNCHANGED stage
  BY DEF DisconnectStep, CheckCurrent, ReplaceTimer, SetDisconnected,
         EmitDisconnected, ClearPeer, Destroy
<1>2. PICK c \in Conns : /\ t = <<"own", c>> \/ t = <<"timer", c>>
                         /\ call[t].peer = c /\ stage[c] \in Ended
  BY <1>1, CallsFact
<1>3. /\ <<"own", c>> # <<"timer", c>>
      /\ \A d \in Conns \ {c} : <<"own", d>> # t /\ <<"timer", d>> # t
      /\ \A d \in Conns : <<"own", d>> \in Threads /\ <<"timer", d>> \in Threads
      /\ \A k \in Kickers : <<"kick", k>> \in Threads /\ <<"kick", k>> # t
      /\ t[1] # "kick"
  BY <1>2, ThreadsFact
<1>4. ~Destroy(t)
  BY <1>3 DEF Destroy, SessionInv, CallsInv
\* Of the two calls about c, only t is under way.
<1>5. /\ \A u \in Threads \ {t} : call[u].pc \notin {"idle", "done"} => call[u].peer # c
      /\ timer[c] = "armed" => call[t].pc = "done"
  <2>1. ASSUME NEW u \in Threads \ {t}, call[u].pc \notin {"idle", "done"},
               call[u].peer = c
        PROVE  FALSE
    <3>1. u = <<"own", c>> \/ u = <<"timer", c>> BY <2>1, CallsFact
    <3>2. CASE u = <<"own", c>>
      <4>1. t = <<"timer", c>> BY <1>2, <3>2
      <4> QED BY <1>1, <2>1, <3>2, <4>1 DEF OneInv
    <3>3. CASE u = <<"timer", c>>
      <4>1. t = <<"own", c>> /\ call[t].pc = "done" BY <1>2, <2>1, <3>3 DEF OneInv
      <4> QED
        BY <1>4, <4>1 DEF DisconnectStep, CheckCurrent, ReplaceTimer,
                          SetDisconnected, EmitDisconnected, ClearPeer
    <3> QED BY <3>1, <3>2, <3>3
  <2>2. timer[c] = "armed" => call[t].pc = "done"
    BY <1>1, <1>2 DEF OneInv
  <2> QED BY <2>1, <2>2
<1>6. call[t].pc # "done"
  BY <1>4 DEF DisconnectStep, CheckCurrent, ReplaceTimer, SetDisconnected,
              EmitDisconnected, ClearPeer
\* What a step of t leaves true of connections and calls.
<1>7. ASSUME NEW pc \in CallPcs \ {"idle"}, call' = [call EXCEPT ![t].pc = pc],
             peer' = peer \/ (peer = c /\ peer' = NoConn),
             \/ UNCHANGED timer
             \/ /\ \A d \in Conns \ {c} : timer'[d] = "armed" => timer[d] = "armed"
                /\ timer'[c] = "armed" => pc = "done" /\ t = <<"own", c>>
      PROVE  /\ OneInv'
             /\ call'[t].pc = pc /\ call'[t].peer = c
             /\ \A u \in Threads \ {t} : call'[u] = call[u]
  <2>1. /\ call'[t].pc = pc /\ call'[t].peer = c
        /\ \A u \in Threads \ {t} : call'[u] = call[u]
    BY <1>2, <1>7 DEF SessionInv, Types
  <2>2. ASSUME NEW k \in Kickers PROVE call'[<<"kick", k>>].pc = "idle"
    <3>1. call'[<<"kick", k>>] = call[<<"kick", k>>] BY <1>3, <2>1
    <3> QED BY <3>1 DEF OneInv
  <2>3. stage[c] \notin Serving BY <1>2 DEF Serving, Ended
  <2>4. /\ \A d, e \in Conns : (d = e \/ Over(d) \/ Over(e))'
        /\ \A d \in Conns : stage'[d] \in Serving => peer' = d
        /\ \A d \in Conns : peer' = d => stage'[d] \in Serving \cup Ended
    BY <1>1, <1>7, <2>3, WsSessionAssumption DEF OneInv, Over
  <2>5. ASSUME NEW d \in Conns \ {c}
        PROVE  /\ call'[<<"own", d>>].pc \notin {"idle", "done"} => stage'[d] = "end"
               /\ call'[<<"timer", d>>].pc # "idle" \/ timer'[d] = "armed" =>
                      call'[<<"own", d>>].pc = "done"
               /\ timer'[d] = "armed" => call'[<<"timer", d>>].pc = "idle"
    <3>1. /\ call'[<<"own", d>>] = call[<<"own", d>>]
          /\ call'[<<"timer", d>>] = call[<<"timer", d>>]
      BY <1>3, <2>1
    <3>2. timer'[d] = "armed" => timer[d] = "armed" BY <1>7
    <3> QED BY <1>1, <3>1, <3>2 DEF OneInv
  <2>6. /\ call'[<<"own", c>>].pc \notin {"idle", "done"} => stage'[c] = "end"
        /\ call'[<<"timer", c>>].pc # "idle" \/ timer'[c] = "armed" =>
               call'[<<"own", c>>].pc = "done"
        /\ timer'[c] = "armed" => call'[<<"timer", c>>].pc = "idle"
    <3>1. timer'[c] = "armed" => pc = "done" /\ t = <<"own", c>>
      BY <1>5, <1>6, <1>7
    <3>2. CASE t = <<"own", c>>
      <4>1. stage[c] = "end" BY <1>1, <1>6, <3>2, <1>3 DEF OneInv
      <4>2. call[<<"timer", c>>].pc = "idle" BY <1>6, <3>2 DEF OneInv
      <4>3. call'[<<"timer", c>>].pc = "idle" BY <1>3, <2>1, <3>2, <4>2
      <4> QED BY <1>1, <2>1, <3>1, <3>2, <4>1, <4>3
    <3>3. CASE t = <<"timer", c>>
      <4>1. call[<<"own", c>>].pc = "done" BY <1>1, <3>3 DEF OneInv
      <4>2. call'[<<"own", c>>].pc = "done" BY <1>3, <2>1, <3>3, <4>1
      <4> QED BY <1>3, <2>1, <3>1, <3>3, <4>2
    <3> QED BY <1>2, <3>2, <3>3
  <2>7. ASSUME NEW d \in Conns
        PROVE  /\ call'[<<"own", d>>].pc \notin {"idle", "done"} => stage'[d] = "end"
               /\ call'[<<"timer", d>>].pc # "idle" \/ timer'[d] = "armed" =>
                      call'[<<"own", d>>].pc = "done"
               /\ timer'[d] = "armed" => call'[<<"timer", d>>].pc = "idle"
    BY <2>5, <2>6
  <2>8. OneInv' BY <2>2, <2>4, <2>7 DEF OneInv
  <2> QED BY <2>1, <2>8
<1>8. CASE CheckCurrent(t)
  <2>1. /\ call[t].pc = "check" /\ UNCHANGED <<peer, connected, hosting, timer>>
        /\ \E pc \in {"timer", "done"} : /\ call' = [call EXCEPT ![t].pc = pc]
                                         /\ pc = "timer" => call[t].peer = peer
    BY <1>3, <1>8 DEF CheckCurrent, Leave, GoTo
  <2>2. PICK pc \in {"timer", "done"} : /\ call' = [call EXCEPT ![t].pc = pc]
                                        /\ pc = "timer" => call[t].peer = peer
    BY <2>1
  <2>3. /\ OneInv' /\ call'[t].pc = pc /\ call'[t].peer = c
        /\ \A u \in Threads \ {t} : call'[u] = call[u]
    BY <1>7, <2>1, <2>2 DEF CallPcs
  <2>4. LeaveInv' BY <2>1, <2>3 DEF LeaveInv
  <2>5. ~mode.merciful => RefuseInv'
    BY <1>1, <1>2, <2>1, <2>2, <2>3 DEF RefuseInv
  <2> QED BY <2>3, <2>4, <2>5
<1>9. CASE ReplaceTimer(t)
  <2>1. call[t].pc = "timer" /\ UNCHANGED <<peer, connected, hosting>>
    BY <1>9 DEF ReplaceTimer
  <2> DEFINE stopped == IF wsTimer # NoConn /\ timer[wsTimer] = "armed"
                        THEN [timer EXCEPT ![wsTimer] = "over"] ELSE timer
  <2>2. /\ stopped \in [Conns -> {"none", "armed", "over"}]
        /\ \A d \in Conns : stopped[d] = "armed" => timer[d] = "armed"
    BY DEF SessionInv, Types
  <2>3. \/ /\ call[t].delayed /\ timer' = [stopped EXCEPT ![c] = "armed"]
           /\ call' = [call EXCEPT ![t].pc = "done"]
        \/ timer' = stopped /\ call' = [call EXCEPT ![t].pc = "state"]
    BY <1>2, <1>3, <1>9 DEF ReplaceTimer, Leave, GoTo
  <2> HIDE DEF stopped
  <2>4. call[t].delayed => t = <<"own", c>>
    BY <1>2 DEF SessionInv, CallsInv
  <2>5. PICK pc \in {"done", "state"} :
           /\ call' = [call EXCEPT ![t].pc = pc]
           /\ \A d \in Conns \ {c} : timer'[d] = "armed" => timer[d] = "armed"
           /\ timer'[c] = "armed" => pc = "done" /\ t = <<"own", c>>
    <3>1. timer[c] # "armed" BY <1>5, <1>6
    <3>2. CASE /\ call[t].delayed /\ timer' = [stopped EXCEPT ![c] = "armed"]
               /\ call' = [call EXCEPT ![t].pc = "done"]
      BY <2>2, <2>4, <3>2
    <3>3. CASE timer' = stopped /\ call' = [call EXCEPT ![t].pc = "state"]
      BY <2>2, <3>1, <3>3
    <3> QED BY <2>3, <3>2, <3>3
  <2>6. /\ OneInv' /\ call'[t].pc = pc /\ call'[t].peer = c
        /\ \A u \in Threads \ {t} : call'[u] = call[u]
    BY <1>7, <2>1, <2>5 DEF CallPcs
  <2>7. LeaveInv' BY <2>1, <2>6 DEF LeaveInv
  <2>8. ~mode.merciful => RefuseInv'
    BY <1>1, <1>2, <2>1, <2>6 DEF RefuseInv
  <2> QED BY <2>6, <2>7, <2>8
<1>10. CASE SetDisconnected(t)
  <2>1. /\ call[t].pc = "state" /\ connected' = FALSE
        /\ call' = [call EXCEPT ![t].pc = "emit"] /\ UNCHANGED <<peer, hosting, timer>>
    BY <1>10 DEF SetDisconnected, GoTo
  <2>2. /\ OneInv' /\ call'[t].pc = "emit" /\ call'[t].peer = c
        /\ \A u \in Threads \ {t} : call'[u] = call[u]
    BY <1>7, <2>1 DEF CallPcs
  <2>3. LeaveInv' BY <2>1, <2>2 DEF LeaveInv
  <2>4. ~mode.merciful => RefuseInv'
    BY <1>1, <1>2, <2>1, <2>2 DEF RefuseInv
  <2> QED BY <2>2, <2>3, <2>4
<1>11. CASE EmitDisconnected(t)
  <2>1. /\ call[t].pc = "emit" /\ hosting' = FALSE
        /\ call' = [call EXCEPT ![t].pc = "clear"] /\ UNCHANGED <<peer, connected, timer>>
    BY <1>11 DEF EmitDisconnected, GoTo
  <2>2. /\ OneInv' /\ call'[t].pc = "clear" /\ call'[t].peer = c
        /\ \A u \in Threads \ {t} : call'[u] = call[u]
    BY <1>7, <2>1 DEF CallPcs
  <2>3. LeaveInv' BY <1>2, <2>1, <2>2 DEF LeaveInv
  <2>4. ~mode.merciful => RefuseInv'
    BY <1>1, <1>2, <2>1, <2>2 DEF RefuseInv
  <2> QED BY <2>2, <2>3, <2>4
<1>12. CASE ClearPeer(t)
  <2>1. /\ call[t].pc = "clear" /\ UNCHANGED <<connected, hosting, timer>>
        /\ peer' = IF peer = c THEN NoConn ELSE peer
        /\ call' = [call EXCEPT ![t].pc = "done"]
    BY <1>2, <1>3, <1>12 DEF ClearPeer, Leave, GoTo
  <2>2. /\ OneInv' /\ call'[t].pc = "done" /\ call'[t].peer = c
        /\ \A u \in Threads \ {t} : call'[u] = call[u]
    <3>1. peer' = peer \/ (peer = c /\ peer' = NoConn) BY <2>1
    <3> QED BY <1>7, <2>1, <3>1 DEF CallPcs
  <2>3. \A u \in Threads \ {t} :
           call[u].pc \in {"timer", "state", "emit", "clear"} =>
              call[u].peer # c /\ call[u].peer # NoConn
    <3>1. \A u \in Threads \ {t} : call[u].pc # "idle" => call[u].peer \in Conns
      BY CallsFact
    <3> QED BY <1>5, <3>1, WsSessionAssumption
  <2>4. LeaveInv' BY <1>2, <2>1, <2>2, <2>3 DEF LeaveInv
  <2>5. ~mode.merciful => RefuseInv'
    <3> SUFFICES ASSUME ~mode.merciful PROVE RefuseInv'
      OBVIOUS
    <3>1. RefuseInv OBVIOUS
    <3>2. CASE peer = c
      BY <1>1, <2>1, <2>2, <2>3, <3>1, <3>2, WsSessionAssumption DEF RefuseInv
    <3>3. CASE peer # c
      BY <1>1, <1>2, <2>1, <2>2, <3>1, <3>3 DEF RefuseInv
    <3> QED BY <3>2, <3>3
  <2> QED BY <2>2, <2>4, <2>5
<1> QED
  BY <1>4, <1>8, <1>9, <1>10, <1>11, <1>12 DEF DisconnectStep

LEMMA OrderlyStep == SessionInv /\ OrderlyInv /\ [Next]_vars => OrderlyInv'
<1> SUFFICES ASSUME SessionInv, OrderlyInv, [Next]_vars PROVE OrderlyInv'
  OBVIOUS
<1> USE DEF peerVars, connVars, callVars
<1>1. CASE UNCHANGED vars
  BY <1>1 DEF vars, OrderlyInv, OneInv, LeaveInv, RefuseInv, Over
<1>2. CASE Next
  <2>1. mode' = mode
    BY <1>2 DEF Next, Open, ConnectStep, Check, Swap, SetConnected, Replace,
                ConnectReturns, BecomeHost, HandleEnds, TimerFires,
                DisconnectStep, CheckCurrent, ReplaceTimer, SetDisconnected,
                EmitDisconnected, ClearPeer, Destroy, Kick, LoseHost
  <2> SUFFICES ASSUME mode.orderly
               PROVE  OneInv' /\ LeaveInv' /\ (~mode.merciful => RefuseInv')
    BY <2>1 DEF OrderlyInv
  <2>2. OneInv /\ LeaveInv /\ (~mode.merciful => RefuseInv) BY DEF OrderlyInv
  <2>3. CASE LoseHost
    <3>1. hosting' = FALSE /\ UNCHANGED <<peer, connected, stage, call, timer>>
      BY <2>3 DEF LoseHost
    <3> QED BY <2>2, <3>1 DEF OneInv, LeaveInv, RefuseInv, Over
  <2>4. \A k \in Kickers : ~Kick(k) BY DEF Kick
  <2> QED
    BY <1>2, <2>1, <2>2, <2>3, <2>4, OrderlyConnect, OrderlyEnds, OrderlyCalls
    DEF Next
<1> QED BY <1>1, <1>2

-----------------------------------------------------------------------------
LEMMA SessionInvariant == Spec => []SessionInv
BY SessionStarts, SessionStep, PTL DEF Spec

\* However many connections a member opens and however they are replaced, end,
\* time out or are disconnected by requests: a connection that is served and is
\* not the session's peer any more is one somebody is about to close.
THEOREM NoOrphanCorrect == Spec => []NoOrphan
<1>1. SessionInv => NoOrphan
  BY DEF SessionInv, OrphanInv, NoOrphan, Serving, Closing
<1> QED BY <1>1, SessionInvariant, PTL

LEMMA OrderlyInvariant == Spec => []OrderlyInv
<1>1. Init => SessionInv /\ OrderlyInv BY SessionStarts, OrderlyStarts
<1>2. SessionInv /\ OrderlyInv /\ [Next]_vars => (SessionInv /\ OrderlyInv)'
  BY SessionStep, OrderlyStep
<1> QED BY <1>1, <1>2, PTL DEF Spec

\* However many connections one after the other, and however late their timers
\* disconnect them: a session without a connection is not shown as connected,
THEOREM NoGhostCorrect == Spec => []NoGhost
<1>1. OrderlyInv => NoGhost BY DEF OrderlyInv, LeaveInv, NoGhost
<1> QED BY <1>1, OrderlyInvariant, PTL

\* nor is it the host,
THEOREM HostLeavesCorrect == Spec => []HostLeaves
<1>1. OrderlyInv => HostLeaves BY DEF OrderlyInv, LeaveInv, HostLeaves
<1> QED BY <1>1, OrderlyInvariant, PTL

\* and if second connections are refused, it is shown as connected whenever it
\* has a connection and all is quiet.
THEOREM StateMatchesPeerCorrect == Spec => []StateMatchesPeer
<1>1. SessionInv /\ OrderlyInv => StateMatchesPeer
  <2> SUFFICES ASSUME SessionInv, OrderlyInv, mode.orderly, ~mode.merciful, Rest
               PROVE  connected <=> peer # NoConn
    BY DEF StateMatchesPeer
  <2>1. connected => peer # NoConn BY DEF OrderlyInv, LeaveInv
  <2>2. ASSUME peer # NoConn, ~connected PROVE FALSE
    <3>1. peer \in Conns BY <2>2 DEF SessionInv, Types
    <3>2. stage[peer] # "set" BY <3>1 DEF Rest
    <3>3. \E t \in Threads : call[t].pc \in {"emit", "clear"}
      BY <2>2, <3>1, <3>2 DEF OrderlyInv, RefuseInv
    <3> QED BY <3>3 DEF Rest
  <2> QED BY <2>1, <2>2
<1>2. Spec => []SessionInv BY SessionInvariant
<1> QED BY <1>1, <1>2, OrderlyInvariant, PTL
=============================================================================
