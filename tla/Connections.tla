----------------------------- MODULE Connections -----------------------------
(***************************************************************************)
(* The goroutines of internal/websocket and their end: each connection has *)
(* a loop and a reader that hands over to it, the positions of the         *)
(* inactive cursors are sent by a goroutine that follows the settings, and *)
(* Shutdown waits for the readers and for that goroutine, after the HTTP   *)
(* server and the plugins have been shut down and before anything else is. *)
(***************************************************************************)
EXTENDS Naturals, Sequences, FiniteSets

CONSTANTS Conns,        \* connections
          Requests,     \* REST requests that change the settings
          MaxRequests   \* bound: of them

ASSUME ConnectionsAssumption == MaxRequests \in Nat

VARIABLES
    socket,     \* connections that are open
    reader,     \* the goroutine that reads one
    loop,       \* the loop of handle()
    why,        \* why it returned
    late,       \* history: connections whose loop began during the shutdown
    shutdown,   \* where serve.Shutdown is
    inactive,   \* settings.inactive_cursors
    quit,       \* shutdownInactiveCursors: "nil", "open" or "closed"
    sender,     \* whether a goroutine sends inactive cursors
    ending,     \* how many of those are about to end
    update,     \* where a request is, with the values it has
    made,       \* requests made
    asked,      \* history: what the last request asked for
    disturbed   \* history: requests overlapped, or one met a closed channel

connectionVars == <<socket, reader, loop, why, late>>
settingVars == <<inactive, update, made, asked>>
cursorsVars == <<quit, sender, ending, disturbed>>
serverVars == <<connectionVars, shutdown, settingVars, cursorsVars>>

\* The order of serve.Shutdown.
Stages == <<"http", "plugins", "close", "cursors", "wait", "webrtc",
            "capture", "desktop", "member", "end">>
Stage(s) == shutdown \in DOMAIN Stages /\ Stages[shutdown] = s

\* close(manager.shutdown) has been reached.
Stopping == shutdown > 3

-----------------------------------------------------------------------------
(* handle() and its reader                                                  *)

\* A connection is upgraded, and is no longer the HTTP server's,
Upgrade(c) ==
    /\ loop[c] = "none" /\ shutdown <= 1
    /\ socket' = socket \cup {c}
    /\ loop' = [loop EXCEPT ![c] = "connect"]
    /\ UNCHANGED <<reader, why, late, shutdown, settingVars, cursorsVars>>

\* before it is authenticated and gets its loop and its reader.
Connect(c) ==
    /\ loop[c] = "connect"
    /\ reader' = [reader EXCEPT ![c] = "read"]
    /\ loop' = [loop EXCEPT ![c] = "select"]
    /\ late' = IF Stopping THEN late \cup {c} ELSE late
    /\ UNCHANGED <<socket, why, shutdown, settingVars, cursorsVars>>

\* The client goes, or the network does.
Drop(c) ==
    /\ socket' = socket \ {c} /\ c \in socket
    /\ UNCHANGED <<reader, loop, why, late, shutdown, settingVars, cursorsVars>>

\* ReadMessage returns a message or, of a closed connection, an error.
Read(c) ==
    /\ reader[c] = "read"
    /\ reader' = [reader EXCEPT ![c] = IF c \in socket THEN "message" ELSE "error"]
    /\ UNCHANGED <<socket, loop, why, late, shutdown, settingVars, cursorsVars>>

\* mutant of TakeMessage: a message that cannot be parsed ends the loop
TakeOrLeave(c) ==
    /\ loop[c] = "select" /\ reader[c] = "message"
    /\ reader' = [reader EXCEPT ![c] = "read"]
    /\ \/ loop' = [loop EXCEPT ![c] = "handle"] /\ UNCHANGED why
       \/ loop' = [loop EXCEPT ![c] = "ended"] /\ why' = [why EXCEPT ![c] = "error"]
    /\ UNCHANGED <<socket, late, shutdown, settingVars, cursorsVars>>

\* Both are handed over to a loop that is waiting: a message is handled, known
\* or not, and the reader reads on;
TakeMessage(c) ==
    /\ loop[c] = "select" /\ reader[c] = "message"
    /\ reader' = [reader EXCEPT ![c] = "read"]
    /\ loop' = [loop EXCEPT ![c] = "handle"]
    /\ UNCHANGED <<socket, why, late, shutdown, settingVars, cursorsVars>>

Handled(c) ==
    /\ loop[c] = "handle"
    /\ loop' = [loop EXCEPT ![c] = "select"]
    /\ UNCHANGED <<socket, reader, why, late, shutdown, settingVars, cursorsVars>>

Leave(c, reason) == /\ loop' = [loop EXCEPT ![c] = "ended"]
                    /\ why' = [why EXCEPT ![c] = reason]

\* an error ends both.
TakeError(c) ==
    /\ loop[c] = "select" /\ reader[c] = "error"
    /\ reader' = [reader EXCEPT ![c] = "done"]
    /\ Leave(c, "error")
    /\ UNCHANGED <<socket, late, shutdown, settingVars, cursorsVars>>

\* The loop returns without its reader when the server shuts down or a ping
\* cannot be written.
SeeShutdown(c) ==
    /\ loop[c] = "select" /\ Stopping
    /\ socket' = socket \ {c}
    /\ Leave(c, "shutdown")
    /\ UNCHANGED <<reader, late, shutdown, settingVars, cursorsVars>>

PingFails(c) ==
    /\ loop[c] = "select" /\ c \notin socket
    /\ Leave(c, "ping")
    /\ UNCHANGED <<socket, reader, late, shutdown, settingVars, cursorsVars>>

\* A reader nobody takes anything from any more.
Abandoned(c) == reader[c] \in {"message", "error"} /\ loop[c] = "ended"

-----------------------------------------------------------------------------
(* The settings and the inactive cursors                                    *)

\* alone is history: no other request was under way since it began.
NoUpdate == [at |-> "none", old |-> FALSE, new |-> FALSE, alone |-> FALSE]
Active == {r \in Requests : update[r].at # "none"}

\* settingsSet reads the settings, decodes the request over them, which sets
\* inactive_cursors or leaves it as read,
ReadSettings(r) ==
    /\ update[r].at = "none" /\ made < MaxRequests /\ shutdown <= 1
    /\ made' = made + 1
    /\ \E sets \in BOOLEAN, value \in BOOLEAN :
          /\ update' = [q \in Requests |->
                IF q = r THEN [at |-> "store", old |-> inactive,
                               new |-> IF sets THEN value ELSE inactive,
                               alone |-> Active = {}]
                ELSE [update[q] EXCEPT !.alone = FALSE]]
          /\ asked' = IF sets THEN value ELSE asked
    /\ UNCHANGED <<connectionVars, shutdown, inactive, cursorsVars>>

\* stores them,
StoreSettings(r) ==
    /\ update[r].at = "store"
    /\ inactive' = update[r].new
    /\ update' = [update EXCEPT ![r].at = "notify", ![r].old = inactive]
    /\ UNCHANGED <<connectionVars, shutdown, made, asked, cursorsVars>>

\* startInactiveCursors does nothing while the channel is there.
StartCursors == /\ quit' = IF quit = "nil" THEN "open" ELSE quit
                /\ sender' = (sender \/ quit = "nil")

\* stopInactiveCursors closes it.  To close it a second time is a panic, which
\* ends the goroutine.
StopCursors == /\ quit' = IF quit = "open" THEN "closed" ELSE quit
               /\ UNCHANGED sender

\* and the listener compares them with those it replaced.  A request that
\* changes the setting alone puts right what others may have left behind.
Notify(r) ==
    LET starts == update[r].new /\ ~update[r].old
        stops == ~update[r].new /\ update[r].old
    IN
    /\ update[r].at = "notify"
    /\ \/ starts /\ StartCursors
       \/ stops /\ StopCursors
       \/ ~starts /\ ~stops /\ UNCHANGED <<quit, sender>>
    /\ disturbed' = \/ quit = "closed" /\ sender
                    \/ ~update[r].alone
                    \/ disturbed /\ ~starts /\ ~stops
    /\ update' = [update EXCEPT ![r] = NoUpdate]
    /\ UNCHANGED <<connectionVars, shutdown, inactive, made, asked, ending>>

\* mutant of SenderStops: the channel stays as it is
SenderForgets ==
    /\ sender /\ quit = "closed"
    /\ sender' = FALSE /\ ending' = ending + 1
    /\ UNCHANGED <<connectionVars, shutdown, settingVars, quit, disturbed>>

\* The sender notices that the channel is closed,
SenderStops ==
    /\ sender /\ quit = "closed"
    /\ quit' = "nil" /\ sender' = FALSE /\ ending' = ending + 1
    /\ UNCHANGED <<connectionVars, shutdown, settingVars, disturbed>>

\* and ends once the clients were sent an empty list.
SenderEnds ==
    /\ ending > 0 /\ ending' = ending - 1
    /\ UNCHANGED <<connectionVars, shutdown, settingVars, quit, sender, disturbed>>

-----------------------------------------------------------------------------
(* Shutdown                                                                 *)

\* An interrupt is received.
Interrupt ==
    /\ shutdown = 0 /\ shutdown' = 1
    /\ UNCHANGED <<connectionVars, settingVars, cursorsVars>>

Counted == {c \in Conns : reader[c] \notin {"none", "done"}}

\* Each manager in its turn.  The HTTP server waits for the requests it serves,
\* connections are no longer its own.
ShutdownNext ==
    /\ shutdown \in 1 .. Len(Stages) - 1 /\ ~Stage("cursors")
    /\ Stage("http") => Active = {}
    /\ Stage("wait") => Counted = {} /\ ~sender /\ ending = 0
    /\ shutdown' = shutdown + 1
    /\ UNCHANGED <<connectionVars, settingVars, cursorsVars>>

\* The channel is closed, maybe for the second time, which nobody recovers here.
ShutdownCursors ==
    /\ Stage("cursors")
    /\ StopCursors
    /\ shutdown' = IF quit = "closed" THEN Len(Stages) + 1 ELSE shutdown + 1
    /\ UNCHANGED <<connectionVars, settingVars, ending, disturbed>>

-----------------------------------------------------------------------------
ConnectionsInit ==
    /\ socket = {}
    /\ reader = [c \in Conns |-> "none"] /\ loop = [c \in Conns |-> "none"]
    /\ why = [c \in Conns |-> "none"] /\ late = {}
    /\ shutdown = 0
    /\ inactive \in BOOLEAN
    /\ quit = IF inactive THEN "open" ELSE "nil"
    /\ sender = inactive /\ ending = 0
    /\ update = [r \in Requests |-> NoUpdate] /\ made = 0
    /\ asked = inactive /\ disturbed = FALSE

ConnectionsNext ==
    \/ \E c \in Conns :
          \/ Upgrade(c) \/ Connect(c) \/ Drop(c) \/ Read(c)
          \/ TakeMessage(c) \/ Handled(c) \/ TakeError(c)
          \/ SeeShutdown(c) \/ PingFails(c)
    \/ \E r \in Requests : ReadSettings(r) \/ StoreSettings(r) \/ Notify(r)
    \/ SenderStops \/ SenderEnds
    \/ Interrupt \/ ShutdownNext \/ ShutdownCursors

ConnectionsSpec == ConnectionsInit /\ [][ConnectionsNext]_serverVars

-----------------------------------------------------------------------------
ConnectionsTypeOK ==
    /\ socket \subseteq Conns
    /\ reader \in [Conns -> {"none", "read", "message", "error", "done"}]
    /\ loop \in [Conns -> {"none", "connect", "select", "handle", "ended"}]
    /\ why \in [Conns -> {"none", "error", "shutdown", "ping"}]
    /\ late \subseteq Conns
    /\ shutdown \in 0 .. Len(Stages) + 1
    /\ inactive \in BOOLEAN /\ quit \in {"nil", "open", "closed"}
    /\ sender \in BOOLEAN /\ ending \in Nat
    /\ update \in [Requests -> [at : {"none", "store", "notify"},
                                 old : BOOLEAN, new : BOOLEAN, alone : BOOLEAN]]
    /\ made \in 0 .. MaxRequests
    /\ asked \in BOOLEAN /\ disturbed \in BOOLEAN

\* A reader that will never be heard again, for which Shutdown waits for ever,
\* is one whose loop returned by the shutdown or by a failed ping; and when
\* Shutdown is past the connections, with the peers, pipelines and the display
\* to be closed next, nobody handles messages, but on a connection that was
\* upgraded before and got its loop too late to be waited for.
ReadersEnd ==
    /\ \A c \in Conns : Abandoned(c) => why[c] \in {"shutdown", "ping"}
    /\ shutdown \in 6 .. Len(Stages) =>
          \A c \in Conns \ late : loop[c] \in {"none", "connect", "ended"}

\* Requests that come one at a time, and not before the sender has noticed the
\* one before, get what they ask for: the cursors are sent exactly while the
\* setting says so, and the setting is the last one asked for.  Otherwise they may
\* be sent while the setting is off, or not while it is on, and a channel may be
\* closed twice, until a request changes the setting alone.
CursorsFollow ==
    (Active = {} /\ ~disturbed /\ ~Stopping) =>
        /\ inactive <=> asked
        /\ (sender /\ quit = "open") <=> inactive
=============================================================================
