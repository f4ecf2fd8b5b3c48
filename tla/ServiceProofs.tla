---------------------------- MODULE ServiceProofs ----------------------------
(***************************************************************************)
(* The connections with settings and shutdown, the file dialog and the     *)
(* plugins, for any number of sessions, requests, dialogs, viewers and     *)
(* plugins: three of the parts that Service puts side by side, and that a  *)
(* behaviour of Service is one of each part.                               *)
(***************************************************************************)
EXTENDS Service, FiniteSetTheorems, WellFoundedInduction, TLAPS

\* What the server does around a session is, for each part, what that part's own
\* specification allows: so what is proved of the parts holds of all of it.
THEOREM PartsImplemented ==
    Spec => /\ AccountsSpec /\ DesktopSpec /\ DialogSpec
            /\ ConnectionsSpec /\ PluginsSpec
<1>1. Init => /\ AccountsInit /\ DesktopInit /\ DialogInit
              /\ ConnectionsInit /\ PluginsInit
  BY DEF Init
<1>2. [Next]_serviceVars =>
          /\ [AccountsNext]_accountsVars /\ [DesktopNext]_desktopVars
          /\ [DialogNext]_dialogVars /\ [ConnectionsNext]_serverVars
          /\ [PluginsNext]_pluginsVars
  BY DEF Next, serviceVars
<1> QED BY <1>1, <1>2, PTL
        DEF Spec, AccountsSpec, DesktopSpec, DialogSpec, ConnectionsSpec, PluginsSpec

-----------------------------------------------------------------------------
\* serve.Shutdown has ten steps; the connections are told in the third and waited
\* for in the fifth.
LEMMA StagesFact ==
    /\ Len(Stages) = 10
    /\ Stage("http") <=> shutdown = 1
    /\ Stage("cursors") <=> shutdown = 4
    /\ Stage("wait") <=> shutdown = 5
BY DEF Stages, Stage

-----------------------------------------------------------------------------
(***************************************************************************)
(* The readers.  A loop that took its reader's error took the reader with  *)
(* it; one that runs has a reader, so that none runs once Shutdown has     *)
(* waited for the readers.                                                 *)
(***************************************************************************)
ReadersInv ==
    /\ reader \in [Conns -> {"none", "read", "message", "error", "done"}]
    /\ loop \in [Conns -> {"none", "connect", "select", "handle", "ended"}]
    /\ why \in [Conns -> {"none", "error", "shutdown", "ping"}]
    /\ late \subseteq Conns /\ shutdown \in 0 .. 11
    /\ \A c \in Conns :
          /\ loop[c] = "ended" => why[c] # "none"
          /\ why[c] = "error" => loop[c] = "ended" /\ reader[c] = "done"
          /\ loop[c] \in {"select", "handle"} =>
                reader[c] \in {"read", "message", "error"}
          /\ shutdown \in 6 .. 10 /\ c \notin late =>
                loop[c] \in {"none", "connect", "ended"}

LEMMA ReadersInit == ConnectionsInit => ReadersInv
BY DEF ConnectionsInit, ReadersInv

LEMMA ReadersStep == ReadersInv /\ [ConnectionsNext]_serverVars => ReadersInv'
<1> SUFFICES ASSUME ReadersInv, [ConnectionsNext]_serverVars
             PROVE  ReadersInv'
  OBVIOUS
<1> USE StagesFact DEF ReadersInv, connectionVars
<1>1. ASSUME NEW c \in Conns,
             \/ Upgrade(c) \/ Connect(c) \/ Drop(c) \/ Read(c)
             \/ TakeMessage(c) \/ Handled(c) \/ TakeError(c)
             \/ SeeShutdown(c) \/ PingFails(c)
      PROVE  ReadersInv'
  <2>1. CASE Upgrade(c) BY <2>1 DEF Upgrade
  <2>2. CASE Connect(c) BY <2>2 DEF Connect, Stopping
  <2>3. CASE Drop(c) BY <2>3 DEF Drop
  <2>4. CASE Read(c) BY <2>4 DEF Read
  <2>5. CASE TakeMessage(c) BY <2>5 DEF TakeMessage
  <2>6. CASE Handled(c) BY <2>6 DEF Handled
  <2>7. CASE TakeError(c) BY <2>7 DEF TakeError, Leave
  <2>8. CASE SeeShutdown(c) BY <2>8 DEF SeeShutdown, Leave
  <2>9. CASE PingFails(c) BY <2>9 DEF PingFails, Leave
  <2> QED BY <1>1, <2>1, <2>2, <2>3, <2>4, <2>5, <2>6, <2>7, <2>8, <2>9
<1>2. CASE ShutdownNext
  <2>1. shutdown \in 1 .. 9 /\ shutdown' = shutdown + 1 /\ UNCHANGED connectionVars
    BY <1>2 DEF ShutdownNext
  <2>2. shutdown = 5 =>
            \A c \in Conns : loop[c] \in {"none", "connect", "ended"}
    BY <1>2 DEF ShutdownNext, Counted
  <2> QED BY <2>1, <2>2
<1>3. CASE ShutdownCursors
  BY <1>3 DEF ShutdownCursors
<1>4. CASE Interrupt
  BY <1>4 DEF Interrupt
<1>5. CASE UNCHANGED <<connectionVars, shutdown>>
  BY <1>5
<1>6. ASSUME NEW r \in Requests,
             ReadSettings(r) \/ StoreSettings(r) \/ Notify(r)
      PROVE  UNCHANGED <<connectionVars, shutdown>>
  BY <1>6 DEF ReadSettings, StoreSettings, Notify
<1>7. ASSUME SenderStops \/ SenderEnds \/ UNCHANGED serverVars
      PROVE  UNCHANGED <<connectionVars, shutdown>>
  BY <1>7 DEF SenderStops, SenderEnds, serverVars
<1> QED BY <1>1, <1>2, <1>3, <1>4, <1>5, <1>6, <1>7 DEF ConnectionsNext

\* A reader that hands over to nobody for ever is one of a loop that left because
\* of the shutdown or a ping, and past the connections Shutdown finds no loop
\* running but of those that came late.
THEOREM ReadersEndCorrect == ConnectionsSpec => []ReadersEnd
<1>1. ReadersInv => ReadersEnd
  BY StagesFact DEF ReadersInv, ReadersEnd, Abandoned
<1> QED BY ReadersInit, ReadersStep, <1>1, PTL DEF ConnectionsSpec

-----------------------------------------------------------------------------
(***************************************************************************)
(* The cursors.  A request that is alone knows what the setting was, and   *)
(* unless the order was lost before, that the sender followed it.          *)
(***************************************************************************)
RequestType == [Requests -> [at : {"none", "store", "notify"}, old : BOOLEAN,
                             new : BOOLEAN, alone : BOOLEAN]]

UpdateAt(r, step) == update[r].at = step

\* What holds between the steps of a request that is alone.
Alone(r) ==
    /\ UpdateAt(r, "store") =>
          /\ update[r].old <=> inactive
          /\ (update[r].new <=> update[r].old) \/ (update[r].new <=> asked)
          /\ ~disturbed => (update[r].new <=> asked)
    /\ UpdateAt(r, "notify") =>
          /\ inactive <=> update[r].new
          /\ (update[r].new <=> update[r].old) \/ (update[r].new <=> asked)
          /\ ~disturbed => (update[r].new <=> asked)
    /\ ~disturbed => (quit = "open" <=> update[r].old)

CursorsInv ==
    /\ update \in RequestType
    /\ quit \in {"nil", "open", "closed"}
    /\ quit = "nil" <=> ~sender
    /\ \A r \in Requests : update[r].alone /\ ~UpdateAt(r, "none") =>
          \A q \in Requests \ {r} : UpdateAt(q, "none")
    /\ ~Stopping =>
          /\ ~disturbed /\ (\A r \in Requests : UpdateAt(r, "none")) =>
                /\ inactive <=> asked
                /\ quit = "open" <=> inactive
          /\ \A r \in Requests : ~UpdateAt(r, "none") /\ update[r].alone => Alone(r)

LEMMA CursorsInit == ConnectionsInit => CursorsInv
<1> SUFFICES ASSUME ConnectionsInit PROVE CursorsInv
  OBVIOUS
<1> USE DEF ConnectionsInit, NoUpdate, UpdateAt
<1>1. update \in RequestType /\ \A r \in Requests : UpdateAt(r, "none")
  BY DEF RequestType
<1>2. /\ quit \in {"nil", "open", "closed"}
      /\ quit = "nil" <=> ~sender
      /\ quit = "open" <=> inactive
      /\ inactive <=> asked
  OBVIOUS
<1> QED BY <1>1, <1>2 DEF CursorsInv

LEMMA UpdateType ==
    ASSUME update \in RequestType, NEW r \in Requests
    PROVE  /\ update[r] = [at |-> update[r].at, old |-> update[r].old,
                           new |-> update[r].new, alone |-> update[r].alone]
           /\ update[r].at \in {"none", "store", "notify"}
           /\ update[r].old \in BOOLEAN /\ update[r].new \in BOOLEAN
           /\ update[r].alone \in BOOLEAN
BY DEF RequestType

\* What the steps of a request do to update.
LEMMA ReadUpdates ==
    ASSUME update \in RequestType, NEW r \in Requests, ReadSettings(r),
           inactive \in BOOLEAN
    PROVE  /\ update' \in RequestType
           /\ update'[r].at = "store"
           /\ update'[r].old <=> inactive
           /\ update'[r].alone <=> (\A q \in Requests : UpdateAt(q, "none"))
           /\ \/ (update'[r].new <=> inactive) /\ (asked' <=> asked)
              \/ update'[r].new <=> asked'
           /\ \A q \in Requests \ {r} :
                 update'[q].at = update[q].at /\ ~update'[q].alone
<1>1. PICK sets \in BOOLEAN, value \in BOOLEAN :
          /\ update' = [q \in Requests |->
                IF q = r THEN [at |-> "store", old |-> inactive,
                               new |-> IF sets THEN value ELSE inactive,
                               alone |-> Active = {}]
                ELSE [update[q] EXCEPT !.alone = FALSE]]
          /\ asked' = IF sets THEN value ELSE asked
  BY DEF ReadSettings
<1>2. Active = {} <=> (\A q \in Requests : UpdateAt(q, "none"))
  BY DEF Active, UpdateAt
<1>3. PICK new \in BOOLEAN : new = IF sets THEN value ELSE inactive
  OBVIOUS
<1>4. PICK one \in BOOLEAN : one = (Active = {})
  OBVIOUS
<1>5. update'[r] = [at |-> "store", old |-> inactive, new |-> new, alone |-> one]
  BY <1>1, <1>3, <1>4
<1>6. \A q \in Requests \ {r} : update'[q] = [update[q] EXCEPT !.alone = FALSE]
  BY <1>1
<1>7. \A q \in Requests \ {r} :
         /\ update'[q].at = update[q].at /\ update'[q].alone = FALSE
         /\ update'[q].old = update[q].old /\ update'[q].new = update[q].new
  BY <1>6, UpdateType
<1> DEFINE U == [at : {"none", "store", "notify"}, old : BOOLEAN,
                 new : BOOLEAN, alone : BOOLEAN]
<1>8. \A q \in Requests : update'[q] \in U
  <2>1. [at |-> "store", old |-> inactive, new |-> new, alone |-> one] \in U
    OBVIOUS
  <2>2. \A q \in Requests : [update[q] EXCEPT !.alone = FALSE] \in U
    BY DEF RequestType
  <2> HIDE DEF U
  <2>3. \A q \in Requests \ {r} : update'[q] \in U BY <2>2, <1>6
  <2>4. update'[r] \in U BY <2>1, <1>5
  <2> QED BY <2>3, <2>4
<1>9. update' \in RequestType
  BY <1>1, <1>8 DEF RequestType
<1>10. /\ update'[r].at = "store"
       /\ update'[r].old <=> inactive
       /\ update'[r].new <=> new
       /\ update'[r].alone <=> one
  BY <1>5
<1>11. \/ (new <=> inactive) /\ (asked' <=> asked)
       \/ new <=> asked'
  BY <1>1, <1>3
<1> QED BY <1>2, <1>4, <1>7, <1>9, <1>10, <1>11

LEMMA StoreUpdates ==
    ASSUME update \in RequestType, NEW r \in Requests, StoreSettings(r),
           inactive \in BOOLEAN
    PROVE  /\ update' \in RequestType
           /\ update'[r].at = "notify"
           /\ update'[r].old <=> inactive
           /\ update'[r].new <=> update[r].new
           /\ update'[r].alone <=> update[r].alone
           /\ \A q \in Requests \ {r} : update'[q] = update[q]
<1>1. update' = [update EXCEPT ![r].at = "notify", ![r].old = inactive]
  BY DEF StoreSettings
<1>2. update'[r] = [at |-> "notify", old |-> inactive, new |-> update[r].new,
                    alone |-> update[r].alone]
  BY <1>1, UpdateType DEF RequestType
<1>3. \A q \in Requests \ {r} : update'[q] = update[q]
  BY <1>1 DEF RequestType
<1>4. update' \in RequestType
  BY <1>1, <1>2, UpdateType DEF RequestType
<1> QED BY <1>2, <1>3, <1>4

LEMMA NotifyUpdates ==
    ASSUME update \in RequestType, NEW r \in Requests, Notify(r)
    PROVE  /\ update' \in RequestType
           /\ update'[r].at = "none"
           /\ \A q \in Requests \ {r} : update'[q] = update[q]
<1>1. update' = [update EXCEPT ![r] = NoUpdate]
  BY DEF Notify
<1>2. NoUpdate \in [at : {"none", "store", "notify"}, old : BOOLEAN,
                    new : BOOLEAN, alone : BOOLEAN]
  BY DEF NoUpdate
<1> QED BY <1>1, <1>2 DEF RequestType, NoUpdate

LEMMA CursorsStep ==
    ReadersInv /\ CursorsInv /\ inactive \in BOOLEAN
        /\ [ConnectionsNext]_serverVars => CursorsInv'
<1> SUFFICES ASSUME ReadersInv, CursorsInv, inactive \in BOOLEAN,
                    [ConnectionsNext]_serverVars
             PROVE  CursorsInv'
  OBVIOUS
<1>1. ASSUME UNCHANGED <<update, quit, sender, inactive, asked, disturbed>>,
             Stopping => Stopping'
      PROVE  CursorsInv'
  BY <1>1 DEF CursorsInv, Alone, UpdateAt, RequestType
<1>2. ASSUME NEW r \in Requests, ReadSettings(r) PROVE CursorsInv'
  <2>1. /\ update[r].at = "none"
        /\ UNCHANGED <<shutdown, inactive, quit, sender, disturbed>>
    BY <1>2 DEF ReadSettings, cursorsVars
  <2>2. UNCHANGED Stopping BY <2>1 DEF Stopping
  <2> DEFINE calm == ~disturbed /\ \A q \in Requests : UpdateAt(q, "none")
  <2>3. update \in RequestType BY DEF CursorsInv
  <2>4. /\ update' \in RequestType
        /\ update'[r].at = "store"
        /\ update'[r].old <=> inactive
        /\ update'[r].alone <=> (\A q \in Requests : UpdateAt(q, "none"))
        /\ \/ (update'[r].new <=> inactive) /\ (asked' <=> asked)
           \/ update'[r].new <=> asked'
        /\ \A q \in Requests \ {r} :
              update'[q].at = update[q].at /\ ~update'[q].alone
    BY <1>2, <2>3, ReadUpdates
  <2>5. \A q \in Requests : update'[q].alone /\ ~UpdateAt(q, "none")' =>
            \A p \in Requests \ {q} : UpdateAt(p, "none")'
    BY <2>4 DEF UpdateAt
  <2>6. ASSUME ~Stopping PROVE update'[r].alone => Alone(r)'
    <3>1. ASSUME update'[r].alone PROVE Alone(r)'
      <4>1. \A q \in Requests : UpdateAt(q, "none") BY <2>4, <3>1
      <4>2. ~disturbed => (inactive <=> asked) /\ (quit = "open" <=> inactive)
        BY <4>1, <2>6 DEF CursorsInv
      <4> QED BY <4>2, <2>1, <2>4 DEF Alone, UpdateAt
    <3> QED BY <3>1
  <2>7. ~(\A q \in Requests : UpdateAt(q, "none")') BY <2>4 DEF UpdateAt
  <2>8. /\ quit' \in {"nil", "open", "closed"}
        /\ quit' = "nil" <=> ~sender'
    BY <2>1 DEF CursorsInv
  <2>9. \A q \in Requests : ~Stopping /\ update'[q].alone => Alone(q)'
    BY <2>4, <2>6
  <2> QED BY <2>2, <2>4, <2>5, <2>7, <2>8, <2>9 DEF CursorsInv
<1>3. ASSUME NEW r \in Requests, StoreSettings(r) PROVE CursorsInv'
  <2>1. /\ update[r].at = "store"
        /\ inactive' = update[r].new
        /\ UNCHANGED <<shutdown, asked, quit, sender, disturbed>>
    BY <1>3 DEF StoreSettings, cursorsVars
  <2>2. UNCHANGED Stopping BY <2>1 DEF Stopping
  <2>3. update \in RequestType BY DEF CursorsInv
  <2>4. /\ update' \in RequestType
        /\ update'[r].at = "notify"
        /\ update'[r].old <=> inactive
        /\ update'[r].new <=> update[r].new
        /\ update'[r].alone <=> update[r].alone
        /\ \A q \in Requests \ {r} : update'[q] = update[q]
    BY <1>3, <2>3, StoreUpdates
  <2>5. \A q \in Requests : update'[q].alone /\ ~UpdateAt(q, "none")' =>
            \A p \in Requests \ {q} : UpdateAt(p, "none")'
    BY <2>1, <2>4 DEF UpdateAt, CursorsInv
  <2>6. ASSUME ~Stopping, update'[r].alone PROVE Alone(r)'
    <3>1. Alone(r) BY <2>1, <2>4, <2>6 DEF CursorsInv, UpdateAt
    <3> QED BY <3>1, <2>1, <2>4 DEF Alone, UpdateAt
  <2>7. ASSUME NEW q \in Requests \ {r}, ~UpdateAt(q, "none")', update'[q].alone
        PROVE  FALSE
    BY <2>1, <2>4, <2>7 DEF UpdateAt, CursorsInv
  <2>8. /\ quit' \in {"nil", "open", "closed"}
        /\ quit' = "nil" <=> ~sender'
    BY <2>1 DEF CursorsInv
  <2>9. ~(\A q \in Requests : UpdateAt(q, "none")') BY <2>4 DEF UpdateAt
  <2>10. \A q \in Requests : ~Stopping /\ ~UpdateAt(q, "none")' /\ update'[q].alone
                                => Alone(q)'
    BY <2>6, <2>7
  <2> QED BY <2>2, <2>4, <2>5, <2>8, <2>9, <2>10 DEF CursorsInv
<1>4. ASSUME NEW r \in Requests, Notify(r) PROVE CursorsInv'
  <2> DEFINE starts == update[r].new /\ ~update[r].old
             stops == ~update[r].new /\ update[r].old
  <2>1. /\ update[r].at = "notify"
        /\ UNCHANGED <<shutdown, inactive, asked>>
        /\ \/ starts /\ StartCursors
           \/ stops /\ StopCursors
           \/ ~starts /\ ~stops /\ UNCHANGED <<quit, sender>>
    BY <1>4 DEF Notify
  <2>2. ~disturbed' => /\ ~(quit = "closed" /\ sender)
                       /\ update[r].alone
                       /\ disturbed => starts \/ stops
    BY <1>4 DEF Notify
  <2>3. UNCHANGED Stopping BY <2>1 DEF Stopping
  <2>4. update \in RequestType BY DEF CursorsInv
  <2>5. /\ update' \in RequestType
        /\ update'[r].at = "none"
        /\ \A q \in Requests \ {r} : update'[q] = update[q]
    BY <1>4, <2>4, NotifyUpdates
  <2>6. \A q \in Requests : update'[q].alone /\ ~UpdateAt(q, "none")' =>
            \A p \in Requests \ {q} : UpdateAt(p, "none")'
    BY <2>5 DEF UpdateAt, CursorsInv
  <2>7. /\ quit' \in {"nil", "open", "closed"}
        /\ quit' = "nil" <=> ~sender'
    <3>1. /\ quit \in {"nil", "open", "closed"}
          /\ quit = "nil" <=> ~sender
      BY DEF CursorsInv
    <3>2. CASE StartCursors BY <3>1, <3>2 DEF StartCursors
    <3>3. CASE StopCursors BY <3>1, <3>3 DEF StopCursors
    <3>4. CASE UNCHANGED <<quit, sender>> BY <3>1, <3>4
    <3> QED BY <2>1, <3>2, <3>3, <3>4
  <2>8. ASSUME ~Stopping, ~disturbed'
        PROVE  (inactive' <=> asked') /\ (quit' = "open" <=> inactive')
    <3>1. Alone(r) BY <2>1, <2>2, <2>8 DEF CursorsInv, UpdateAt
    <3>2. /\ inactive <=> update[r].new
          /\ update[r].new <=> asked
      BY <3>1, <2>1, <2>2, <2>8 DEF Alone, UpdateAt
    <3>3. quit' = "open" <=> update[r].new
      BY <3>1, <2>1, <2>2, <2>8
         DEF Alone, UpdateAt, StartCursors, StopCursors, CursorsInv
    <3> QED BY <2>1, <3>2, <3>3
  <2>9. \A q \in Requests : ~UpdateAt(q, "none")' => ~update'[q].alone
    BY <2>1, <2>5 DEF UpdateAt, CursorsInv
  <2> QED BY <2>3, <2>5, <2>6, <2>7, <2>8, <2>9 DEF CursorsInv
<1>5. CASE SenderStops
  <2>1. /\ quit = "closed" /\ quit' = "nil" /\ ~sender'
        /\ UNCHANGED <<update, shutdown, inactive, asked, disturbed>>
    BY <1>5 DEF SenderStops, settingVars
  <2> QED BY <2>1 DEF CursorsInv, Alone, UpdateAt, RequestType, Stopping
<1>6. CASE ShutdownCursors
  <2>1. /\ Stopping'
        /\ quit' = IF quit = "open" THEN "closed" ELSE quit
        /\ UNCHANGED <<update, sender>>
    BY <1>6, StagesFact
       DEF ShutdownCursors, StopCursors, settingVars, Stopping, ReadersInv
  <2> QED BY <2>1 DEF CursorsInv, Alone, UpdateAt, RequestType
<1>7. CASE Interrupt \/ ShutdownNext
  <2>1. UNCHANGED <<update, quit, sender, inactive, asked, disturbed>>
    BY <1>7 DEF Interrupt, ShutdownNext, settingVars, cursorsVars
  <2>2. Stopping => Stopping'
    BY <1>7, StagesFact DEF Interrupt, ShutdownNext, Stopping, ReadersInv
  <2> QED BY <2>1, <2>2, <1>1
<1>8. ASSUME NEW c \in Conns,
             \/ Upgrade(c) \/ Connect(c) \/ Drop(c) \/ Read(c)
             \/ TakeMessage(c) \/ Handled(c) \/ TakeError(c)
             \/ SeeShutdown(c) \/ PingFails(c)
      PROVE  CursorsInv'
  <2>1. UNCHANGED <<update, quit, sender, inactive, asked, disturbed, shutdown>>
    BY <1>8 DEF Upgrade, Connect, Drop, Read, TakeMessage, Handled, TakeError,
                SeeShutdown, PingFails, settingVars, cursorsVars
  <2> QED BY <2>1, <1>1 DEF Stopping
<1>9. CASE SenderEnds \/ UNCHANGED serverVars
  <2>1. UNCHANGED <<update, quit, sender, inactive, asked, disturbed, shutdown>>
    BY <1>9 DEF SenderEnds, serverVars, settingVars, cursorsVars
  <2> QED BY <2>1, <1>1 DEF Stopping
<1> QED BY <1>2, <1>3, <1>4, <1>5, <1>6, <1>7, <1>8, <1>9 DEF ConnectionsNext

\* The setting is stored by requests only, from values they have.
LEMMA InactiveStep ==
    inactive \in BOOLEAN /\ CursorsInv /\ [ConnectionsNext]_serverVars
        => inactive' \in BOOLEAN
<1> SUFFICES ASSUME inactive \in BOOLEAN, CursorsInv,
                    [ConnectionsNext]_serverVars
             PROVE  inactive' \in BOOLEAN
  OBVIOUS
<1>1. ASSUME NEW r \in Requests, StoreSettings(r) PROVE inactive' \in BOOLEAN
  <2>1. inactive' = update[r].new BY <1>1 DEF StoreSettings
  <2>2. update[r].new \in BOOLEAN BY DEF CursorsInv, RequestType
  <2> QED BY <2>1, <2>2
<1>2. ASSUME NEW r \in Requests, ReadSettings(r) \/ Notify(r)
      PROVE  inactive' = inactive
  BY <1>2 DEF ReadSettings, Notify
<1>3. ASSUME NEW c \in Conns,
             \/ Upgrade(c) \/ Connect(c) \/ Drop(c) \/ Read(c)
             \/ TakeMessage(c) \/ Handled(c) \/ TakeError(c)
             \/ SeeShutdown(c) \/ PingFails(c)
      PROVE  inactive' = inactive
  BY <1>3 DEF Upgrade, Connect, Drop, Read, TakeMessage, Handled, TakeError,
              SeeShutdown, PingFails, settingVars
<1>4. ASSUME \/ SenderStops \/ SenderEnds \/ Interrupt \/ ShutdownNext
             \/ ShutdownCursors \/ UNCHANGED serverVars
      PROVE  inactive' = inactive
  BY <1>4 DEF SenderStops, SenderEnds, Interrupt, ShutdownNext, ShutdownCursors,
              serverVars, settingVars
<1> QED BY <1>1, <1>2, <1>3, <1>4 DEF ConnectionsNext

\* Once requests have come one at a time, the cursors are sent exactly while the
\* setting, which is the last one asked for, says so.
THEOREM CursorsFollowCorrect == ConnectionsSpec => []CursorsFollow
<1> DEFINE Inv == ReadersInv /\ CursorsInv /\ inactive \in BOOLEAN
<1>1. ConnectionsInit => Inv
  BY ReadersInit, CursorsInit DEF ConnectionsInit
<1>2. Inv /\ [ConnectionsNext]_serverVars => Inv'
  BY ReadersStep, CursorsStep, InactiveStep
<1>3. Inv => CursorsFollow
  BY DEF CursorsInv, CursorsFollow, Active, UpdateAt
<1> QED BY <1>1, <1>2, <1>3, PTL DEF ConnectionsSpec

-----------------------------------------------------------------------------
(* The file dialog.                                                         *)

Windows == 1 .. MaxDialogs
Kinds == {"configure", "unmap"}
Places == {"off", "connect", "tell", "on", "lost", "close"}

Types ==
    /\ opened \in 0 .. MaxDialogs /\ dialogs \subseteq 1 .. opened
    /\ xevents \in Seq(Kinds \X Windows)
    /\ eventLoop \in [at : {"next", "opened", "owned", "closed"},
                      host : Viewers \cup {NoViewer}]
    /\ eventLoop.at = "owned" => eventLoop.host \in Viewers
    /\ known \in 0 .. MaxDialogs
    /\ active \in [who : Viewers, of : Windows] \cup {NoActive}
    /\ casts \subseteq [of : Windows, to : SUBSET Viewers]
    /\ presence \in [Viewers -> Places]
    /\ heard \in [Viewers -> SUBSET Windows]

\* What is connected knows of the dialog or is about to.
Told(s) ==
    \/ active.of \in heard[s]
    \/ \E b \in casts : b.of = active.of /\ s \in b.to

TellInv ==
    active # NoActive =>
        \A s \in Viewers : presence[s] \in {"on", "lost"} => Told(s)

\* A dialog that went is one the event loop will see go after whatever else it
\* will see of it.
Leaving(events, w, i) ==
    \E j \in DOMAIN events : j > i /\ events[j] = <<"unmap", w>>

EventsInv ==
    /\ \A i \in DOMAIN xevents : xevents[i][2] <= opened
    /\ \A i \in DOMAIN xevents :
          xevents[i][1] = "configure" =>
              xevents[i][2] \in dialogs \/ Leaving(xevents, xevents[i][2], i)
    /\ known <= opened
    /\ known # 0 => known \in dialogs \/ Leaving(xevents, known, 0)

\* The owner is that of the dialog that is known, until it is forgotten.
OwnerInv ==
    /\ active # NoActive => active.of = known \/ eventLoop.at = "closed"
    /\ active # NoActive => active.of <= opened
    /\ eventLoop.at \in {"opened", "owned"} => active = NoActive /\ known # 0
    /\ known = 0 /\ eventLoop.at # "closed" => active = NoActive

\* An owner that is gone has closed the dialog or is excused.
CloseInv ==
    active # NoActive /\ active.of \in dialogs /\ presence[active.who] = "off" =>
        active.of \in excused

DialogInv == Types /\ TellInv /\ EventsInv /\ OwnerInv /\ CloseInv

-----------------------------------------------------------------------------
LEMMA DialogStarts == DialogInit => DialogInv
<1> SUFFICES ASSUME DialogInit PROVE DialogInv
  OBVIOUS
<1>1. Types
  BY DialogAssumption DEF DialogInit, Types, Idling, Places
<1>2. TellInv /\ CloseInv BY DEF DialogInit, TellInv, CloseInv
<1>3. EventsInv BY DEF DialogInit, EventsInv
<1>4. OwnerInv BY DEF DialogInit, OwnerInv, Idling
<1> QED BY <1>1, <1>2, <1>3, <1>4 DEF DialogInv

LEMMA ActiveFact ==
    ASSUME Types, active # NoActive
    PROVE  active \in [who : Viewers, of : Windows]
BY DEF Types

\* An event about w is appended, and w may leave the display.
LEMMA AppendKeeps ==
    ASSUME DialogInv, NEW kind \in Kinds, NEW w \in Windows, w <= opened',
           opened' \in 0 .. MaxDialogs, opened <= opened',
           xevents' = Append(xevents, <<kind, w>>), known' = known,
           \A v \in dialogs : v \in dialogs' \/ (kind = "unmap" /\ v = w),
           kind = "configure" => w \in dialogs'
    PROVE  xevents' \in Seq(Kinds \X Windows) /\ EventsInv'
<1>1. /\ xevents \in Seq(Kinds \X Windows) /\ Len(xevents) \in Nat
      /\ DOMAIN xevents = 1 .. Len(xevents)
  BY DEF DialogInv, Types
<1>2. /\ xevents' \in Seq(Kinds \X Windows)
      /\ DOMAIN xevents' = 1 .. (Len(xevents) + 1)
      /\ xevents'[Len(xevents) + 1] = <<kind, w>>
      /\ \A i \in DOMAIN xevents : xevents'[i] = xevents[i]
  BY <1>1
<1>3. opened \in Nat /\ opened' \in Nat BY DEF DialogInv, Types
<1>4. \A i \in DOMAIN xevents : xevents[i][2] \in Nat
  <2> TAKE i \in DOMAIN xevents
  <2>1. xevents[i] \in Kinds \X Windows BY <1>1
  <2> QED BY <2>1 DEF Windows
<1>5. ASSUME NEW v, NEW i, Leaving(xevents, v, i) PROVE Leaving(xevents', v, i)
  <2>1. PICK j \in DOMAIN xevents : j > i /\ xevents[j] = <<"unmap", v>>
    BY <1>5 DEF Leaving
  <2>2. j \in DOMAIN xevents' /\ xevents'[j] = <<"unmap", v>>
    BY <1>1, <1>2, <2>1
  <2> QED BY <2>1, <2>2 DEF Leaving
<1>6. ASSUME NEW v, NEW i \in 0 .. Len(xevents), v \in dialogs \/ Leaving(xevents, v, i)
      PROVE  v \in dialogs' \/ Leaving(xevents', v, i)
  <2>1. CASE kind = "unmap" /\ v = w
    <3>1. Len(xevents) + 1 > i BY <1>1
    <3> QED BY <1>1, <1>2, <2>1, <3>1 DEF Leaving
  <2>2. CASE ~(kind = "unmap" /\ v = w)
    BY <1>5, <1>6, <2>2
  <2> QED BY <2>1, <2>2
<1>7. \A i \in DOMAIN xevents' : xevents'[i][2] <= opened'
  <2> TAKE i \in DOMAIN xevents'
  <2>1. CASE i = Len(xevents) + 1 BY <1>2, <2>1
  <2>2. CASE i \in DOMAIN xevents
    <3>1. xevents[i][2] <= opened BY <2>2 DEF DialogInv, EventsInv
    <3> QED BY <1>2, <1>3, <1>4, <2>2, <3>1
  <2> QED BY <1>1, <1>2, <2>1, <2>2
<1>8. \A i \in DOMAIN xevents' :
         xevents'[i][1] = "configure" =>
             xevents'[i][2] \in dialogs' \/ Leaving(xevents', xevents'[i][2], i)
  <2> TAKE i \in DOMAIN xevents'
  <2> HAVE xevents'[i][1] = "configure"
  <2>1. CASE i = Len(xevents) + 1
    <3>1. xevents'[i][1] = kind /\ xevents'[i][2] = w BY <1>2, <2>1
    <3> QED BY <3>1
  <2>2. CASE i \in DOMAIN xevents
    <3>1. xevents[i][2] \in dialogs \/ Leaving(xevents, xevents[i][2], i)
      BY <1>2, <2>2 DEF DialogInv, EventsInv
    <3>2. i \in 0 .. Len(xevents) BY <1>1, <2>2
    <3>3. xevents'[i] = xevents[i] BY <1>2, <2>2
    <3> QED BY <1>6, <3>1, <3>2, <3>3
  <2> QED BY <1>1, <1>2, <2>1, <2>2
<1>9. known # 0 => known \in dialogs' \/ Leaving(xevents', known, 0)
  <2>1. 0 \in 0 .. Len(xevents) BY <1>1
  <2> QED BY <1>6, <2>1 DEF DialogInv, EventsInv
<1>10. known <= opened' BY <1>3 DEF DialogInv, EventsInv, Types
<1> QED BY <1>2, <1>7, <1>8, <1>9, <1>10 DEF EventsInv, Leaving

\* The event loop has seen the first event.
LEMMA NextKeeps ==
    ASSUME DialogInv, xevents # <<>>, xevents' = Tail(xevents),
           UNCHANGED <<opened, dialogs>>,
           NEW kind, NEW w, Head(xevents) = <<kind, w>>,
           \/ kind = "configure" /\ known' = w
           \/ known' = 0
           \/ known' = known /\ (kind = "unmap" => known # w)
    PROVE  /\ xevents' \in Seq(Kinds \X Windows) /\ EventsInv'
           /\ kind \in Kinds /\ w \in Windows /\ w <= opened
<1>1. /\ xevents \in Seq(Kinds \X Windows) /\ Len(xevents) \in Nat
      /\ DOMAIN xevents = 1 .. Len(xevents) /\ Len(xevents) # 0
  BY DEF DialogInv, Types
<1>2. /\ xevents' \in Seq(Kinds \X Windows)
      /\ DOMAIN xevents' = 1 .. (Len(xevents) - 1)
      /\ \A i \in 1 .. (Len(xevents) - 1) : xevents'[i] = xevents[i + 1]
  BY <1>1
<1>3. /\ 1 \in DOMAIN xevents /\ xevents[1] = <<kind, w>>
      /\ kind \in Kinds /\ w \in Windows
  <2>1. 1 \in DOMAIN xevents BY <1>1
  <2>2. Head(xevents) = xevents[1] BY <1>1
  <2>3. xevents[1] \in Kinds \X Windows BY <1>1, <2>1
  <2> QED BY <2>1, <2>2, <2>3
<1>4. w <= opened
  <2>1. xevents[1][2] <= opened BY <1>3 DEF DialogInv, EventsInv
  <2> QED BY <1>3, <2>1
\* What leaves after the first event leaves one event earlier.
<1>5. ASSUME NEW v, NEW i \in Nat, Leaving(xevents, v, i + 1)
      PROVE  Leaving(xevents', v, i)
  <2>1. PICK j \in DOMAIN xevents : j > i + 1 /\ xevents[j] = <<"unmap", v>>
    BY <1>5 DEF Leaving
  <2>2. /\ j - 1 \in 1 .. (Len(xevents) - 1) /\ j - 1 > i /\ (j - 1) + 1 = j
    BY <1>1, <2>1
  <2>3. xevents'[j - 1] = <<"unmap", v>> BY <1>2, <2>1, <2>2
  <2> QED BY <1>2, <2>2, <2>3 DEF Leaving
<1>6. \A i \in DOMAIN xevents' :
         /\ xevents'[i][2] <= opened
         /\ xevents'[i][1] = "configure" =>
                xevents'[i][2] \in dialogs \/ Leaving(xevents', xevents'[i][2], i)
  <2> TAKE i \in DOMAIN xevents'
  <2>1. /\ i \in Nat /\ i + 1 \in DOMAIN xevents /\ xevents'[i] = xevents[i + 1]
    BY <1>1, <1>2
  <2>2. /\ xevents[i + 1][2] <= opened
        /\ xevents[i + 1][1] = "configure" =>
               \/ xevents[i + 1][2] \in dialogs
               \/ Leaving(xevents, xevents[i + 1][2], i + 1)
    BY <2>1 DEF DialogInv, EventsInv
  <2> QED BY <1>5, <2>1, <2>2
<1>7. /\ known' <= opened
      /\ known' # 0 => known' \in dialogs \/ Leaving(xevents', known', 0)
  <2>1. CASE kind = "configure" /\ known' = w
    <3>1. xevents[1][1] = "configure" /\ xevents[1][2] = w BY <1>3, <2>1
    <3>2. w \in dialogs \/ Leaving(xevents, w, 1)
      BY <1>3, <3>1 DEF DialogInv, EventsInv
    <3>3. w \in dialogs \/ Leaving(xevents', w, 0)
      <4>1. 0 \in Nat /\ 0 + 1 = 1 OBVIOUS
      <4> QED BY <1>5, <3>2, <4>1
    <3> QED BY <1>4, <2>1, <3>3
  <2>2. CASE known' = 0
    <3>1. opened \in Nat BY DEF DialogInv, Types
    <3> QED BY <2>2, <3>1
  <2>3. CASE known' = known /\ (kind = "unmap" => known # w)
    <3>1. known <= opened BY DEF DialogInv, EventsInv
    <3>2. ASSUME Leaving(xevents, known, 0) PROVE Leaving(xevents', known, 0)
      <4>1. PICK j \in DOMAIN xevents : j > 0 /\ xevents[j] = <<"unmap", known>>
        BY <3>2 DEF Leaving
      <4>2. j # 1 BY <1>3, <2>3, <4>1
      <4>3. j > 0 + 1 BY <1>1, <4>1, <4>2
      <4>4. Leaving(xevents, known, 0 + 1) BY <4>1, <4>3 DEF Leaving
      <4>5. 0 \in Nat OBVIOUS
      <4> QED BY <1>5, <4>4, <4>5
    <3> QED BY <2>3, <3>1, <3>2 DEF DialogInv, EventsInv
  <2> QED BY <2>1, <2>2, <2>3
<1>8. EventsInv' BY <1>6, <1>7 DEF EventsInv
<1> QED BY <1>2, <1>3, <1>4, <1>8

\* A step after which whoever is connected was so before, and heard what it had.
LEMMA TellKeeps ==
    ASSUME TellInv, UNCHANGED <<active, casts>>,
           \A s \in Viewers : presence'[s] \in {"on", "lost"} =>
               presence[s] \in {"on", "lost"} /\ heard[s] \subseteq heard'[s]
    PROVE  TellInv'
BY DEF TellInv, Told

LEMMA DialogStep == DialogInv /\ [DialogNext]_dialogVars => DialogInv'
<1> SUFFICES ASSUME DialogInv, [DialogNext]_dialogVars PROVE DialogInv'
  OBVIOUS
<1> USE DEF dialogWindows, loopVars
<1>1. CASE UNCHANGED dialogVars
  <2>1. Types' BY <1>1 DEF dialogVars, DialogInv, Types
  <2>2. TellInv' BY <1>1, TellKeeps DEF dialogVars, DialogInv
  <2>3. EventsInv' BY <1>1 DEF dialogVars, DialogInv, EventsInv
  <2>4. OwnerInv' /\ CloseInv'
    BY <1>1 DEF dialogVars, DialogInv, OwnerInv, CloseInv
  <2> QED BY <2>1, <2>2, <2>3, <2>4 DEF DialogInv
<1> SUFFICES ASSUME DialogNext PROVE DialogInv'
  BY <1>1
<1>2. MaxDialogs \in Nat /\ opened \in Nat BY DialogAssumption DEF DialogInv, Types
<1>3. CASE OpenDialog
  <2>1. /\ opened < MaxDialogs /\ opened' = opened + 1
        /\ dialogs' = dialogs \cup {opened + 1}
        /\ xevents' = Append(xevents, <<"configure", opened + 1>>)
        /\ UNCHANGED <<eventLoop, known, active, casts, presence, heard, excused>>
    BY <1>3 DEF OpenDialog
  <2>2. /\ opened + 1 \in Windows /\ opened' \in 0 .. MaxDialogs
        /\ opened <= opened' /\ opened + 1 <= opened'
    BY <1>2, <2>1 DEF Windows
  <2>3. xevents' \in Seq(Kinds \X Windows) /\ EventsInv'
    BY <2>1, <2>2, AppendKeeps DEF Kinds
  <2>9. dialogs' \subseteq 1 .. opened' BY <1>2, <2>1 DEF DialogInv, Types
  <2>4. Types' BY <2>1, <2>2, <2>3, <2>9 DEF DialogInv, Types
  <2>5. TellInv' BY <2>1, TellKeeps DEF DialogInv
  <2>6. active # NoActive => active.of \in Nat /\ active.of <= opened
    BY ActiveFact DEF DialogInv, OwnerInv, Windows
  <2>7. OwnerInv' BY <1>2, <2>1, <2>6 DEF DialogInv, OwnerInv
  <2>8. CloseInv' BY <1>2, <2>1, <2>6 DEF DialogInv, CloseInv
  <2> QED BY <2>3, <2>4, <2>5, <2>7, <2>8 DEF DialogInv
<1>4. ASSUME NEW kind \in Kinds, NEW w \in dialogs,
             xevents' = Append(xevents, <<kind, w>>),
             dialogs' = IF kind = "unmap" THEN dialogs \ {w} ELSE dialogs,
             UNCHANGED <<opened, known>>
      PROVE  /\ xevents' \in Seq(Kinds \X Windows) /\ EventsInv'
             /\ dialogs' \subseteq dialogs /\ dialogs' \subseteq 1 .. opened'
  <2>1. /\ w \in Windows /\ w <= opened' /\ opened' \in 0 .. MaxDialogs
        /\ opened <= opened'
    BY <1>2, <1>4 DEF DialogInv, Types, Windows
  <2>2. xevents' \in Seq(Kinds \X Windows) /\ EventsInv'
    BY <1>4, <2>1, AppendKeeps DEF Kinds
  <2> QED BY <1>4, <2>2 DEF DialogInv, Types
\* A dialog that is gone is nobody's any more.
<1>5. ASSUME UNCHANGED <<opened, eventLoop, known, active>>
      PROVE  OwnerInv'
  BY <1>5 DEF DialogInv, OwnerInv
<1>6. ASSUME NEW w \in dialogs, ConfigureDialog(w) \/ UploadDialog(w)
      PROVE  DialogInv'
  <2>1. PICK kind \in Kinds :
           /\ xevents' = Append(xevents, <<kind, w>>)
           /\ dialogs' = IF kind = "unmap" THEN dialogs \ {w} ELSE dialogs
    BY <1>6 DEF ConfigureDialog, UploadDialog, Unmap, Kinds
  <2>2. UNCHANGED <<opened, eventLoop, known, active, casts, presence, heard, excused>>
    BY <1>6 DEF ConfigureDialog, UploadDialog
  <2>3. /\ xevents' \in Seq(Kinds \X Windows) /\ EventsInv'
        /\ dialogs' \subseteq dialogs /\ dialogs' \subseteq 1 .. opened'
    BY <1>4, <2>1, <2>2
  <2>4. Types' BY <2>2, <2>3 DEF DialogInv, Types
  <2>5. TellInv' BY <2>2, TellKeeps DEF DialogInv
  <2>6. CloseInv' BY <2>2, <2>3 DEF DialogInv, CloseInv
  <2> QED BY <1>5, <2>2, <2>3, <2>4, <2>5, <2>6 DEF DialogInv
<1>7. CASE NextEvent
  <2> DEFINE kind == Head(xevents)[1]
             w == Head(xevents)[2]
  <2>1. /\ eventLoop = Idling /\ xevents # <<>> /\ xevents' = Tail(xevents)
        /\ UNCHANGED <<opened, dialogs, active, casts, presence, heard, excused>>
        /\ \/ /\ kind = "configure" /\ known = 0
              /\ known' = w /\ eventLoop' = [Idling EXCEPT !.at = "opened"]
           \/ /\ kind = "unmap" /\ known = w
              /\ known' = 0 /\ eventLoop' = [Idling EXCEPT !.at = "closed"]
           \/ /\ kind = "unmap" => known # w
              /\ UNCHANGED <<known, eventLoop>>
    BY <1>7 DEF NextEvent
  <2>2. Head(xevents) = <<kind, w>>
    <3>1. Head(xevents) \in Kinds \X Windows
      BY <2>1 DEF DialogInv, Types
    <3> QED BY <3>1
  <2> HIDE DEF kind, w
  <2>3. /\ xevents' \in Seq(Kinds \X Windows) /\ EventsInv'
        /\ w \in Windows /\ w <= opened
    BY <2>1, <2>2, NextKeeps
  <2>4. eventLoop.at = "next" BY <2>1 DEF Idling
  <2>5. \/ /\ known = 0 /\ known' = w /\ eventLoop'.at = "opened"
        \/ known' = 0 /\ eventLoop'.at = "closed"
        \/ UNCHANGED <<known, eventLoop>>
    BY <2>1 DEF Idling
  <2>6. /\ known' \in 0 .. MaxDialogs
        /\ eventLoop' \in [at : {"next", "opened", "owned", "closed"},
                           host : Viewers \cup {NoViewer}]
        /\ eventLoop'.at # "owned"
    <3>1. known' \in 0 .. MaxDialogs
      BY <1>2, <2>3, <2>5 DEF DialogInv, Types, Windows
    <3> QED BY <2>1, <2>4, <3>1 DEF DialogInv, Types, Idling
  <2>7. Types' BY <2>1, <2>3, <2>6 DEF DialogInv, Types
  <2>8. TellInv' BY <2>1, TellKeeps DEF DialogInv
  <2>9. w # 0 BY <2>3 DEF Windows
  <2>10. OwnerInv' BY <2>1, <2>4, <2>5, <2>9 DEF DialogInv, OwnerInv
  <2>11. CloseInv' BY <2>1 DEF DialogInv, CloseInv
  <2> QED BY <2>3, <2>7, <2>8, <2>10, <2>11 DEF DialogInv
<1>8. ASSUME NEW h \in Viewers \cup {NoViewer}, FindOwner(h) PROVE DialogInv'
  <2>1. /\ eventLoop.at = "opened"
        /\ eventLoop' = IF h = NoViewer THEN Idling ELSE [at |-> "owned", host |-> h]
        /\ UNCHANGED <<opened, dialogs, xevents, known, active, casts, presence,
                       heard, excused>>
    BY <1>8 DEF FindOwner
  <2>2. /\ eventLoop' \in [at : {"next", "opened", "owned", "closed"},
                           host : Viewers \cup {NoViewer}]
        /\ eventLoop'.at = "owned" => eventLoop'.host \in Viewers
        /\ eventLoop'.at \in {"next", "owned"}
    BY <2>1 DEF Idling
  <2>3. Types' BY <2>1, <2>2 DEF DialogInv, Types
  <2>4. TellInv' BY <2>1, TellKeeps DEF DialogInv
  <2>5. EventsInv' BY <2>1 DEF DialogInv, EventsInv
  <2>6. OwnerInv' BY <2>1, <2>2 DEF DialogInv, OwnerInv
  <2>7. CloseInv' BY <2>1 DEF DialogInv, CloseInv
  <2> QED BY <2>3, <2>4, <2>5, <2>6, <2>7 DEF DialogInv
<1>9. CASE StoreOwner
  <2> DEFINE h == eventLoop.host
  <2>1. /\ eventLoop.at = "owned" /\ active' = [who |-> h, of |-> known]
        /\ casts' = casts \cup {[of |-> known, to |-> Viewers]}
        /\ excused' = IF presence[h] \in {"close", "off"}
                      THEN excused \cup {known} ELSE excused
        /\ eventLoop' = Idling
        /\ UNCHANGED <<opened, dialogs, xevents, known, presence, heard>>
    BY <1>9 DEF StoreOwner
  <2>2. h \in Viewers /\ known # 0 /\ known \in Windows /\ known <= opened
    BY <2>1 DEF DialogInv, Types, OwnerInv, EventsInv, Windows
  <2> HIDE DEF h
  <2>3. /\ active' \in [who : Viewers, of : Windows]
        /\ active'.who = h /\ active'.of = known
        /\ [of |-> known, to |-> Viewers] \in [of : Windows, to : SUBSET Viewers]
    BY <2>1, <2>2
  <2>4. /\ eventLoop'.at = "next"
        /\ eventLoop' \in [at : {"next", "opened", "owned", "closed"},
                           host : Viewers \cup {NoViewer}]
    BY <2>1 DEF Idling
  <2>5. Types' BY <2>1, <2>3, <2>4 DEF DialogInv, Types
  <2>6. TellInv'
    <3> DEFINE all == [of |-> known, to |-> Viewers]
    <3>2. all \in casts' /\ all.of = active'.of /\ all.to = Viewers BY <2>1, <2>3
    <3> HIDE DEF all
    <3>1. \A s \in Viewers : Told(s)' BY <3>2 DEF Told
    <3> QED BY <3>1 DEF TellInv
  <2>7. EventsInv' BY <2>1 DEF DialogInv, EventsInv
  <2>8. OwnerInv' BY <2>1, <2>2, <2>3, <2>4 DEF OwnerInv
  <2>9. CloseInv' BY <2>1, <2>3 DEF CloseInv
  <2> QED BY <2>5, <2>6, <2>7, <2>8, <2>9 DEF DialogInv
<1>10. CASE ForgetOwner
  <2>1. /\ eventLoop' = Idling /\ active' = NoActive
        /\ UNCHANGED <<opened, dialogs, xevents, known, casts, presence, heard, excused>>
    BY <1>10 DEF ForgetOwner
  <2>2. /\ eventLoop'.at = "next"
        /\ eventLoop' \in [at : {"next", "opened", "owned", "closed"},
                           host : Viewers \cup {NoViewer}]
    BY <2>1 DEF Idling
  <2>3. Types' BY <2>1, <2>2 DEF DialogInv, Types
  <2>4. TellInv' /\ CloseInv' BY <2>1 DEF TellInv, CloseInv
  <2>5. EventsInv' BY <2>1 DEF DialogInv, EventsInv
  <2>6. OwnerInv' BY <2>1, <2>2 DEF OwnerInv
  <2> QED BY <2>3, <2>4, <2>5, <2>6 DEF DialogInv
<1>11. ASSUME NEW b \in casts, NEW s \in Viewers, BroadcastTo(b, s) PROVE DialogInv'
  <2> DEFINE rest == [b EXCEPT !.to = @ \ {s}]
  <2>1. /\ s \in b.to
        /\ casts' = (casts \ {b}) \cup (IF b.to = {s} THEN {} ELSE {rest})
        /\ heard' = IF Connected(s) THEN [heard EXCEPT ![s] = @ \cup {b.of}] ELSE heard
        /\ UNCHANGED <<opened, dialogs, xevents, eventLoop, known, active, presence,
                       excused>>
    BY <1>11 DEF BroadcastTo
  <2>2. b \in [of : Windows, to : SUBSET Viewers] BY DEF DialogInv, Types
  <2>3. /\ rest \in [of : Windows, to : SUBSET Viewers]
        /\ rest.of = b.of /\ rest.to = b.to \ {s}
    BY <2>2
  <2> HIDE DEF rest
  <2>4. heard' \in [Viewers -> SUBSET Windows]
    BY <2>1, <2>2 DEF DialogInv, Types
  <2>5. Types' BY <2>1, <2>3, <2>4 DEF DialogInv, Types
  <2>6. ASSUME NEW v \in Viewers, active # NoActive, presence[v] \in {"on", "lost"}
        PROVE  Told(v)'
    <3>1. heard[v] \subseteq heard'[v] BY <2>1 DEF DialogInv, Types
    <3>2. CASE active.of \in heard[v] BY <2>1, <3>1, <3>2 DEF Told
    <3>3. ASSUME NEW d \in casts, d.of = active.of, v \in d.to PROVE Told(v)'
      <4>1. CASE d # b BY <2>1, <3>3, <4>1 DEF Told
      <4>2. CASE d = b /\ v = s
        <5>1. Connected(s) BY <2>6, <4>2 DEF Connected
        <5>2. b.of \in heard'[s] BY <2>1, <5>1 DEF DialogInv, Types
        <5> QED BY <2>1, <3>3, <4>2, <5>2 DEF Told
      <4>3. CASE d = b /\ v # s
        <5>1. b.to # {s} BY <3>3, <4>3
        <5>2. rest \in casts' /\ rest.of = active.of /\ v \in rest.to
          BY <2>1, <2>3, <3>3, <4>3, <5>1
        <5> QED BY <2>1, <5>2 DEF Told
      <4> QED BY <4>1, <4>2, <4>3
    <3> QED BY <2>6, <3>2, <3>3 DEF DialogInv, TellInv, Told
  <2>7. TellInv' BY <2>1, <2>6 DEF TellInv
  <2>8. EventsInv' /\ OwnerInv' /\ CloseInv'
    BY <2>1 DEF DialogInv, EventsInv, OwnerInv, CloseInv
  <2> QED BY <2>5, <2>7, <2>8 DEF DialogInv
\* A step of the listeners of connections moves one session.
<1>12. ASSUME NEW s \in Viewers, NEW place \in Places, At(s, place)
       PROVE  /\ presence' \in [Viewers -> Places] /\ presence'[s] = place
              /\ \A v \in Viewers \ {s} : presence'[v] = presence[v]
  BY <1>12 DEF At, DialogInv, Types
<1>13. ASSUME NEW s \in Viewers, ConnectViewer(s) \/ LookForOwner(s)
       PROVE  DialogInv'
  <2>1. /\ \/ At(s, "connect")
           \/ At(s, "tell")
           \/ At(s, "on") /\ active = NoActive
        /\ heard' \in [Viewers -> SUBSET Windows]
        /\ \A v \in Viewers \ {s} : heard'[v] = heard[v]
        /\ UNCHANGED <<opened, dialogs, xevents, eventLoop, known, active, casts,
                       excused>>
    BY <1>13 DEF ConnectViewer, LookForOwner, DialogInv, Types
  <2>2. PICK place \in {"connect", "tell", "on"} :
           At(s, place) /\ (place = "on" => active = NoActive)
    BY <2>1
  <2>3. /\ presence' \in [Viewers -> Places] /\ presence'[s] = place
        /\ \A v \in Viewers \ {s} : presence'[v] = presence[v]
    BY <1>12, <2>2 DEF Places
  <2>4. Types' BY <2>1, <2>3 DEF DialogInv, Types
  <2>5. TellInv'
    <3>1. CASE active = NoActive BY <2>1, <3>1 DEF TellInv
    <3>2. CASE active # NoActive
      <4>1. place \notin {"on", "lost"} BY <2>2, <3>2
      <4> QED BY <2>1, <2>3, <4>1, TellKeeps DEF DialogInv
    <3> QED BY <3>1, <3>2
  <2>6. EventsInv' BY <2>1 DEF DialogInv, EventsInv
  <2>7. CloseInv'
    <3>1. \A v \in Viewers : presence'[v] = "off" => presence[v] = "off"
      BY <2>3
    <3>2. active # NoActive => active.who \in Viewers
      BY ActiveFact DEF DialogInv
    <3> QED BY <2>1, <3>1, <3>2 DEF DialogInv, CloseInv
  <2> QED BY <1>5, <2>1, <2>4, <2>5, <2>6, <2>7 DEF DialogInv
<1>14. ASSUME NEW s \in Viewers, TellViewer(s) PROVE DialogInv'
  <2>1. /\ \/ active = NoActive /\ At(s, "lost") /\ heard' = heard
           \/ /\ active # NoActive /\ At(s, "on")
              /\ heard' = [heard EXCEPT ![s] = @ \cup {active.of}]
        /\ UNCHANGED <<opened, dialogs, xevents, eventLoop, known, active, casts,
                       excused>>
    BY <1>14 DEF TellViewer
  <2>2. /\ presence' \in [Viewers -> Places] /\ presence'[s] # "off"
        /\ \A v \in Viewers \ {s} : presence'[v] = presence[v]
    BY <1>12, <2>1 DEF Places
  <2>3. active # NoActive => active \in [who : Viewers, of : Windows]
    BY ActiveFact DEF DialogInv
  <2>4. heard' \in [Viewers -> SUBSET Windows]
    BY <2>1, <2>3 DEF DialogInv, Types
  <2>5. Types' BY <2>1, <2>2, <2>4 DEF DialogInv, Types
  <2>6. TellInv'
    <3>1. ASSUME NEW v \in Viewers, active # NoActive, presence'[v] \in {"on", "lost"}
          PROVE  Told(v)'
      <4>1. heard[v] \subseteq heard'[v] /\ active.of \in heard'[s]
        BY <2>1, <3>1 DEF DialogInv, Types
      <4>2. CASE v = s BY <2>1, <4>1, <4>2 DEF Told
      <4>3. CASE v # s
        <5>1. Told(v) BY <2>2, <3>1, <4>3 DEF DialogInv, TellInv
        <5> QED BY <2>1, <4>1, <5>1 DEF Told
      <4> QED BY <4>2, <4>3
    <3> QED BY <2>1, <3>1 DEF TellInv
  <2>7. EventsInv' BY <2>1 DEF DialogInv, EventsInv
  <2>8. CloseInv' BY <2>1, <2>2, <2>3 DEF DialogInv, CloseInv
  <2> QED BY <1>5, <2>1, <2>5, <2>6, <2>7, <2>8 DEF DialogInv
<1>15. ASSUME NEW s \in Viewers, OwnerLeaves(s) PROVE DialogInv'
  <2>1. /\ \/ At(s, "close")
           \/ At(s, "off") /\ ~(active # NoActive /\ active.who = s)
        /\ UNCHANGED <<opened, dialogs, xevents, eventLoop, known, active, casts,
                       heard, excused>>
    BY <1>15 DEF OwnerLeaves
  <2>2. PICK place \in {"close", "off"} :
           /\ At(s, place)
           /\ place = "off" => ~(active # NoActive /\ active.who = s)
    BY <2>1
  <2>3. /\ presence' \in [Viewers -> Places] /\ presence'[s] = place
        /\ \A v \in Viewers \ {s} : presence'[v] = presence[v]
    BY <1>12, <2>2 DEF Places
  <2>4. Types' BY <2>1, <2>3 DEF DialogInv, Types
  <2>5. TellInv' BY <2>1, <2>2, <2>3, TellKeeps DEF DialogInv
  <2>6. EventsInv' BY <2>1 DEF DialogInv, EventsInv
  <2>7. active # NoActive => active.who \in Viewers
    BY ActiveFact DEF DialogInv
  <2>8. CloseInv' BY <2>1, <2>2, <2>3, <2>7 DEF DialogInv, CloseInv
  <2> QED BY <1>5, <2>1, <2>4, <2>5, <2>6, <2>8 DEF DialogInv
<1>16. ASSUME NEW s \in Viewers, CloseDialog(s) PROVE DialogInv'
  <2>1. /\ UNCHANGED <<opened, eventLoop, known, active, casts, heard>>
        /\ \/ UNCHANGED <<dialogs, xevents>>
           \/ \E w \in dialogs : Unmap(w)
        /\ \/ presence' = presence /\ excused' = excused
           \/ At(s, "off") /\ dialogs' = {} /\ excused' = excused
           \/ At(s, "off") /\ excused' = excused \cup dialogs'
    BY <1>16 DEF CloseDialog
  <2>2. /\ xevents' \in Seq(Kinds \X Windows) /\ EventsInv'
        /\ dialogs' \subseteq dialogs /\ dialogs' \subseteq 1 .. opened'
    <3>1. CASE UNCHANGED <<dialogs, xevents>>
      BY <2>1, <3>1 DEF DialogInv, Types, EventsInv
    <3>2. CASE \E w \in dialogs : Unmap(w)
      <4>1. PICK w \in dialogs : Unmap(w) BY <3>2
      <4>2. "unmap" \in Kinds BY DEF Kinds
      <4> QED BY <1>4, <2>1, <4>1, <4>2 DEF Unmap
    <3> QED BY <2>1, <3>1, <3>2
  <2>3. /\ presence' \in [Viewers -> Places]
        /\ \A v \in Viewers : presence'[v] \in {presence[v], "off"}
        /\ \/ presence' = presence /\ excused' = excused
           \/ excused \subseteq excused' /\ dialogs' \subseteq excused'
    <3>1. CASE presence' = presence /\ excused' = excused
      BY <3>1 DEF DialogInv, Types
    <3>2. CASE At(s, "off") /\ \/ dialogs' = {} /\ excused' = excused
                               \/ excused' = excused \cup dialogs'
      BY <1>12, <3>2 DEF Places
    <3> QED BY <2>1, <3>1, <3>2
  <2>4. Types' BY <2>1, <2>2, <2>3 DEF DialogInv, Types
  <2>5. TellInv' BY <2>1, <2>3, TellKeeps DEF DialogInv
  <2>6. CloseInv' BY <2>1, <2>2, <2>3 DEF DialogInv, CloseInv
  <2> QED BY <1>5, <2>1, <2>2, <2>4, <2>5, <2>6 DEF DialogInv
<1> QED
  BY <1>3, <1>6, <1>7, <1>8, <1>9, <1>10, <1>11, <1>13, <1>14, <1>15, <1>16
  DEF DialogNext

LEMMA DialogInvariant == DialogSpec => []DialogInv
BY DialogStarts, DialogStep, PTL DEF DialogSpec

\* However many sessions connect and leave while dialogs come and go: when the
\* event loop has no work and nothing is being broadcast, whoever is connected
\* while a dialog has an owner knows of it, and the owner is there, or the dialog
\* is one that did not go when it was told to.
THEOREM DialogIsToldCorrect == DialogSpec => []DialogIsTold
<1>1. DialogInv => DialogIsTold
  <2> SUFFICES ASSUME DialogInv, Settled, active # NoActive
               PROVE  /\ \A s \in Viewers :
                            presence[s] \in {"on", "lost"} => active.of \in heard[s]
                      /\ presence[active.who] = "off" => active.of \in excused
    BY DEF DialogIsTold
  <2>1. \A s \in Viewers : presence[s] \in {"on", "lost"} => active.of \in heard[s]
    BY DEF DialogInv, TellInv, Told, Settled
  <2>2. active.of = known /\ known # 0
    BY DEF DialogInv, OwnerInv, Settled, Idling
  <2>3. ~Leaving(xevents, known, 0) BY DEF Settled, Leaving
  <2>4. active.of \in dialogs
    BY <2>2, <2>3 DEF DialogInv, EventsInv
  <2> QED BY <2>1, <2>4 DEF DialogInv, CloseInv
<1> QED BY <1>1, DialogInvariant, PTL

-----------------------------------------------------------------------------
(***************************************************************************)
(* The plugins, for any names, any dependencies and any order of files.    *)
(* The links form no cycle, as findPlugin looks for the plugin before one  *)
(* is made, so the object on top of the stack of startPlugin's calls       *)
(* cannot be linked to one below it, and all it is linked to are started.  *)
(***************************************************************************)
\* The object of a name when its plugin is added, and those an object is linked to.
Home(n) == <<n, 1>>
To(o) == {links[o][i] : i \in DOMAIN links[o]}
Starting == phase \in {"start", "run", "failed"}

GraphTypes ==
    /\ dependsOn \in [Names -> Seq(Names)]
    /\ deps \in [Names -> Objects \cup {NoObject}]
    /\ plugin \in [Objects -> Names \cup {NoPlugin}]
    /\ links \in [Objects -> Seq(Objects)]
    /\ loaded \subseteq Names
    /\ todo \in Seq(Names) /\ adding \in Names \cup {NoPlugin}
    /\ phase \in {"load", "start", "run", "failed", "panic"}

\* A plugin is in the first object of its name, which stays in the map unless the
\* plugin was in a cycle; an object without a plugin is not linked to any.
ObjectsInv ==
    /\ \A n \in Names : \/ deps[n] = NoObject \/ deps[n] = Home(n)
                        \/ deps[n] = <<n, 2>> /\ n \in loaded
    /\ \A o \in Objects :
          /\ plugin[o] # NoPlugin => o[1] \in loaded /\ o = Home(o[1])
                                     /\ plugin[o] = o[1]
          /\ links[o] # <<>> => plugin[o] # NoPlugin
          /\ \A q \in To(o) : plugin[q] # NoPlugin \/ deps[q[1]] = q
    /\ adding # NoPlugin => adding \in loaded \ broken
    /\ broken \subseteq loaded
    /\ \A n \in loaded \ broken : deps[n] = Home(n) /\ plugin[Home(n)] = n

\* The links of a plugin and the dependencies that are still to be looked at are
\* together what it depends on.
Remaining(n) == IF n = adding THEN todo ELSE <<>>

Linked(n) ==
    LET done == links[Home(n)]
        rest == Remaining(n)
    IN /\ Len(done) + Len(rest) = Len(dependsOn[n])
       /\ \A i \in DOMAIN done : done[i][1] = dependsOn[n][i]
       /\ \A i \in DOMAIN rest : rest[i] = dependsOn[n][Len(done) + i]

LinksInv == \A n \in loaded \ broken : Linked(n)

\* There is no cycle: among any objects there is one that is linked to none of them.
Acyclic == \A S \in SUBSET Objects : S # {} => \E o \in S : To(o) \cap S = {}

\* Every object that startPlugin may be called for has a plugin.
ConfiguredInv ==
    Starting =>
        /\ adding = NoPlugin
        /\ loaded \ broken \subseteq configured
        /\ \A o \in InMap : plugin[o] # NoPlugin
        /\ \A o \in Objects : \A q \in To(o) : plugin[q] # NoPlugin

\* The calls of startPlugin follow the links.
CallsInv ==
    /\ stack \in Seq(Objects) /\ order \in Seq(Names) /\ invoked \subseteq Objects
    /\ ~Starting => invoked = {} /\ stack = <<>> /\ order = <<>>
    /\ \A o \in invoked : plugin[o] # NoPlugin
    /\ \A i \in DOMAIN stack : stack[i] \in invoked
    /\ \A i, j \in DOMAIN stack : stack[i] = stack[j] => i = j
    /\ \A i \in DOMAIN stack :
          i + 1 \in DOMAIN stack => stack[i + 1] \in To(stack[i])

\* A call that is not on the stack has started its plugin, after those of all the
\* objects it is linked to.
OrderInv ==
    /\ \A i \in DOMAIN order : Home(order[i]) \in invoked
    /\ \A i \in DOMAIN order, j \in DOMAIN stack : stack[j] # Home(order[i])
    /\ \A i, j \in DOMAIN order : order[i] = order[j] => i = j
    /\ \A o \in invoked : \/ \E i \in DOMAIN stack : stack[i] = o
                          \/ \E i \in DOMAIN order : o = Home(order[i])
    /\ \A i \in DOMAIN order : \A q \in To(Home(order[i])) :
           \E j \in DOMAIN order : j < i /\ q = Home(order[j])

PluginsInv == /\ GraphTypes /\ ObjectsInv /\ LinksInv /\ Acyclic
              /\ ConfiguredInv /\ CallsInv /\ OrderInv

\* A name has two objects, and no object has two names.
LEMMA HomeFact ==
    /\ \A n \in Names : /\ Home(n) \in Objects /\ <<n, 2>> \in Objects
                        /\ Home(n)[1] = n /\ <<n, 2>>[1] = n
                        /\ Home(n) # <<n, 2>>
    /\ \A o \in Objects : o[1] \in Names
    /\ \A m, n \in Names : Home(m) = Home(n) => m = n
BY DEF Objects, Home

\* A set of numbers that is not empty has a least element.
LEMMA LeastFact ==
    ASSUME NEW T \in SUBSET Nat, T # {}
    PROVE  \E i \in T : \A j \in T : i <= j
<1> DEFINE Below(i) == {j \in T : j < i}
           Family == {Below(i) : i \in T}
<1>1. \A i \in T : IsFiniteSet(Below(i))
  <2> TAKE i \in T
  <2>0. i \in Int /\ 0 \in Int /\ T \subseteq Nat
    OBVIOUS
  <2>1. IsFiniteSet(0..i)
    BY <2>0, FS_Interval
  <2>2. ASSUME NEW k \in Below(i) PROVE k \in 0..i
    <3>1. k \in Nat /\ k < i /\ i \in Nat
      BY <2>0
    <3> QED BY <3>1
  <2> HIDE DEF Below
  <2> QED BY <2>1, <2>2, FS_Subset
<1>2. Family \subseteq FiniteSubsetsOf(Nat) /\ Family # {}
  BY <1>1 DEF FiniteSubsetsOf
<1>3. PICK x \in Family :
          \A y \in Family : <<y, x>> \notin StrictSubsetOrdering(Nat)
  <2> HIDE DEF Family
  <2> QED BY <1>2, FS_StrictSubsetOrderingWellFounded, WFMin
<1>4. PICK i \in T : x = Below(i)
  OBVIOUS
<1>5. ASSUME NEW j \in T, j < i PROVE FALSE
  <2>1. \A k \in T : k \in Int
    OBVIOUS
  <2>2. j \in Below(i) /\ j \notin Below(j)
    BY <1>5, <2>1
  <2>3. ASSUME NEW k \in Below(j) PROVE k \in Below(i)
    <3>1. k \in T /\ k \in Int /\ j \in Int /\ i \in Int /\ k < j /\ j < i
      BY <2>1, <1>5
    <3> QED BY <3>1
  <2>4. Below(i) \in SUBSET Nat /\ Below(j) \in SUBSET Nat
    OBVIOUS
  <2>5. <<Below(j), x>> \in StrictSubsetOrdering(Nat)
    BY <2>2, <2>3, <2>4, <1>4 DEF StrictSubsetOrdering
  <2> QED BY <2>5, <1>3
<1> QED BY <1>5

\* The first of some indices of a sequence is one of them.
LEMMA FirstFact ==
    ASSUME NEW A, NEW s \in Seq(A), NEW T \in SUBSET DOMAIN s, T # {}
    PROVE  First(T) \in T
<1>1. T \in SUBSET Nat
  OBVIOUS
<1>2. \E i \in T : \A j \in T : i <= j
  BY <1>1, LeastFact
<1> QED BY <1>2 DEF First

\* So the sets of objects without an answer, below, cannot become less for ever.
LEMMA ObjectsFinite == IsFiniteSet(Objects)
<1>1. IsFiniteSet({1}) /\ {1, 2} = {1} \cup {2}
  BY FS_Singleton
<1>2. IsFiniteSet({1, 2})
  BY <1>1, FS_AddElement
<1> QED BY <1>2, PluginsAssumption, FS_Product DEF Objects

-----------------------------------------------------------------------------
(***************************************************************************)
(* findPlugin.                                                             *)
(***************************************************************************)
\* The answer for an object, from those for the objects it is linked to.
Ends(f, o) == {i \in DOMAIN links[o] : f[links[o][i]] # "nothing"}

Answer(f, o, name) ==
    IF plugin[o] = NoPlugin THEN "panic"
    ELSE IF plugin[o] = name THEN "found"
    ELSE IF Ends(f, o) = {} THEN "nothing"
    ELSE f[links[o][First(Ends(f, o))]]

\* It depends on nothing else.
LEMMA AnswerFact ==
    ASSUME GraphTypes, NEW o \in Objects, NEW f, NEW g, NEW name,
           \A q \in To(o) : f[q] = g[q]
    PROVE  Answer(f, o, name) = Answer(g, o, name)
<1>1. Ends(f, o) = Ends(g, o)
  BY DEF Ends, To
<1>2. CASE Ends(f, o) = {}
  BY <1>1, <1>2 DEF Answer
<1>3. CASE Ends(f, o) # {}
  <2>1. links[o] \in Seq(Objects) /\ Ends(f, o) \in SUBSET DOMAIN links[o]
    BY DEF GraphTypes, Ends
  <2>2. First(Ends(f, o)) \in Ends(f, o)
    BY <1>3, <2>1, FirstFact
  <2>3. f[links[o][First(Ends(f, o))]] = g[links[o][First(Ends(f, o))]]
    BY <2>2 DEF Ends, To
  <2> QED BY <1>1, <1>3, <2>3 DEF Answer
<1> QED BY <1>2, <1>3

\* Where there is no cycle, there are answers that agree with each other: among
\* the sets of objects that are still without an answer there is a least one,
\* and the object in it that is linked to none of it could have been answered.
LEMMA AnswersExist ==
    ASSUME GraphTypes, Acyclic, NEW name
    PROVE  \E f : f = [o \in Objects |-> Answer(f, o, name)]
<1> DEFINE Fits(f, S) == \A o \in Objects \ S :
                             f[o] = Answer(f, o, name) /\ To(o) \cap S = {}
           Family == {S \in SUBSET Objects :
                         \E f : f = [o \in Objects |-> f[o]] /\ Fits(f, S)}
<1>1. Objects \in Family
  <2> DEFINE f == [o \in Objects |-> "nothing"]
  <2>1. f = [o \in Objects |-> f[o]] /\ Fits(f, Objects)
    OBVIOUS
  <2> HIDE DEF f, Fits
  <2> QED BY <2>1
<1>2. Family \subseteq FiniteSubsetsOf(Objects) /\ Family # {}
  BY <1>1, ObjectsFinite, FS_Subset DEF FiniteSubsetsOf
<1>3. PICK S \in Family :
          \A T \in Family : <<T, S>> \notin StrictSubsetOrdering(Objects)
  <2> HIDE DEF Family
  <2> QED BY <1>2, FS_StrictSubsetOrderingWellFounded, WFMin
<1>4. PICK f : f = [o \in Objects |-> f[o]] /\ Fits(f, S)
  OBVIOUS
<1>5. CASE S = {}
  <2>1. \A o \in Objects : f[o] = Answer(f, o, name)
    BY <1>4, <1>5
  <2> DEFINE g == [o \in Objects |-> Answer(f, o, name)]
  <2>2. g = [o \in Objects |-> f[o]]
    BY <2>1
  <2> QED BY <1>4, <2>2
<1>6. CASE S # {}
  <2>1. PICK q \in S : To(q) \cap S = {}
    BY <1>6 DEF Acyclic
  <2> DEFINE g == [o \in Objects |-> IF o = q THEN Answer(f, q, name) ELSE f[o]]
             T == S \ {q}
  <2>2. S \in SUBSET Objects /\ q \in Objects
    OBVIOUS
  <2>3. ASSUME NEW o \in Objects \ T
        PROVE  g[o] = Answer(g, o, name) /\ To(o) \cap T = {}
    <3>1. To(o) \cap S = {} /\ g[o] = Answer(f, o, name)
      BY <1>4, <2>1, <2>3
    <3>2. \A p \in To(o) : p \in Objects /\ p # q
      BY <2>1, <3>1 DEF To, GraphTypes
    <3>3. \A p \in To(o) : f[p] = g[p]
      BY <3>2
    <3> HIDE DEF g
    <3>4. Answer(f, o, name) = Answer(g, o, name)
      BY <3>3, AnswerFact
    <3> QED BY <3>1, <3>4
  <2>4. T \in Family
    <3>1. g = [o \in Objects |-> g[o]]
      OBVIOUS
    <3>2. Fits(g, T)
      BY <2>3
    <3>3. T \in SUBSET Objects
      BY <2>2
    <3> HIDE DEF g, T, Fits
    <3> QED BY <3>1, <3>2, <3>3
  <2>5. <<T, S>> \in StrictSubsetOrdering(Objects)
    BY <2>1, <2>2 DEF StrictSubsetOrdering
  <2> QED BY <1>3, <2>4, <2>5
<1> QED BY <1>5, <1>6

\* When findPlugin finds nothing, no object it has reached has the name, and none
\* is without a plugin: those that it answers "nothing" for are closed.
LEMMA FindsFact ==
    ASSUME GraphTypes, Acyclic, NEW name, NEW o \in Objects,
           Finds(name)[o] = "nothing"
    PROVE  \E R \in SUBSET Objects :
              /\ o \in R
              /\ \A q \in R : To(q) \subseteq R /\ plugin[q] # name
<1> DEFINE f == Finds(name)
           R == {q \in Objects : f[q] = "nothing"}
<1>1. f = CHOOSE g : g = [q \in Objects |-> Answer(g, q, name)]
  BY Zenon DEF Finds, Answer, Ends
<1>2. f = [q \in Objects |-> Answer(f, q, name)]
  <2> HIDE DEF f
  <2> QED BY <1>1, AnswersExist
<1> HIDE DEF f
<1>3. ASSUME NEW q \in R PROVE To(q) \subseteq R /\ plugin[q] # name
  <2>1. Answer(f, q, name) = "nothing"
    BY <1>2
  <2>2. plugin[q] # name
    BY <2>1 DEF Answer
  <2>3. Ends(f, q) = {}
    <3>1. links[q] \in Seq(Objects) /\ Ends(f, q) \in SUBSET DOMAIN links[q]
      BY DEF GraphTypes, Ends
    <3>2. ASSUME Ends(f, q) # {} PROVE FALSE
      <4>1. First(Ends(f, q)) \in Ends(f, q)
        BY <3>1, <3>2, FirstFact
      <4>2. f[links[q][First(Ends(f, q))]] # "nothing"
        BY <4>1 DEF Ends
      <4> QED BY <2>1, <3>2, <4>2 DEF Answer
    <3> QED BY <3>2
  <2>4. \A p \in To(q) : p \in Objects /\ f[p] = "nothing"
    BY <2>3 DEF To, Ends, GraphTypes
  <2> QED BY <2>2, <2>4
<1>4. o \in R
  BY DEF f
<1> QED BY <1>3, <1>4

-----------------------------------------------------------------------------
(***************************************************************************)
(* What the steps do to the graph.                                         *)
(***************************************************************************)
\* Links lead to objects.
LEMMA ToFact ==
    ASSUME GraphTypes, NEW o \in Objects
    PROVE  /\ To(o) \in SUBSET Objects
           /\ links[o] = <<>> => To(o) = {}
BY DEF GraphTypes, To

\* addPlugin is at work on a plugin, which is in its object.
Adding == /\ phase = "load" /\ adding \in Names
          /\ deps[adding] = Home(adding) /\ plugin[Home(adding)] = adding

\* The plugin goes into the first object of its name, which has no links yet.
LEMMA AddPluginFact ==
    ASSUME GraphTypes, ObjectsInv, NEW p \in Names, AddPlugin(p)
    PROVE  /\ deps' = [deps EXCEPT ![p] = Home(p)]
           /\ plugin' = [plugin EXCEPT ![Home(p)] = p]
           /\ plugin[Home(p)] = NoPlugin /\ links[Home(p)] = <<>>
           /\ p \notin loaded /\ loaded' = loaded \cup {p}
           /\ adding = NoPlugin /\ adding' = p /\ todo' = dependsOn[p]
           /\ phase = "load"
           /\ UNCHANGED <<dependsOn, phase, links, broken, configured, startVars>>
<1>1. p \notin loaded /\ loaded' = loaded \cup {p}
  BY DEF AddPlugin
<1>2. Fresh(p) = Home(p)
  BY <1>1 DEF Fresh, Home
<1>3. deps[p] # NoObject => deps[p] = Home(p)
  BY <1>1 DEF ObjectsInv
<1>4. plugin[Home(p)] = NoPlugin /\ links[Home(p)] = <<>>
  BY <1>1, HomeFact DEF ObjectsInv
<1> QED BY <1>1, <1>2, <1>3, <1>4 DEF AddPlugin

\* One link is added, from the plugin's object.
LEMMA LinkFact ==
    ASSUME GraphTypes, Adding, todo # <<>>, NEW o \in Objects, Link(o),
           NEW a, a = Home(adding)
    PROVE  /\ links' \in [Objects -> Seq(Objects)]
           /\ a \in Objects /\ links'[a] = Append(links[a], o)
           /\ To(a)' = To(a) \cup {o}
           /\ \A q \in Objects \ {a} : links'[q] = links[q] /\ To(q)' = To(q)
           /\ deps' = [deps EXCEPT ![Head(todo)] = o]
           /\ todo' = Tail(todo)
           /\ UNCHANGED <<phase, plugin, broken, adding>>
<1>1. links' = [links EXCEPT ![a] = Append(links[a], o)]
  BY DEF Link, Adding
<1>2. a \in Objects /\ links \in [Objects -> Seq(Objects)]
  BY HomeFact DEF Adding, GraphTypes
<1>3. /\ links' \in [Objects -> Seq(Objects)]
      /\ links'[a] = Append(links[a], o)
      /\ \A q \in Objects \ {a} : links'[q] = links[q]
  BY <1>1, <1>2
<1>4. To(a)' = To(a) \cup {o}
  <2> DEFINE s == links[a]
  <2>1. s \in Seq(Objects) /\ links'[a] = Append(s, o)
    BY <1>2, <1>3
  <2>2. {Append(s, o)[i] : i \in DOMAIN Append(s, o)}
            = {s[i] : i \in DOMAIN s} \cup {o}
    <3> HIDE DEF s
    <3>1. /\ DOMAIN Append(s, o) = 1..(Len(s) + 1) /\ DOMAIN s = 1..Len(s)
          /\ Len(s) \in Nat
          /\ \A i \in 1..Len(s) : Append(s, o)[i] = s[i]
          /\ Append(s, o)[Len(s) + 1] = o
      BY <2>1
    <3>2. ASSUME NEW i \in DOMAIN Append(s, o)
          PROVE  Append(s, o)[i] \in {s[k] : k \in DOMAIN s} \cup {o}
      BY <3>1
    <3>3. ASSUME NEW i \in DOMAIN s
          PROVE  s[i] \in {Append(s, o)[k] : k \in DOMAIN Append(s, o)}
      <4>1. i \in 1..(Len(s) + 1) /\ Append(s, o)[i] = s[i]
        BY <3>1
      <4> QED BY <3>1, <4>1
    <3>4. o \in {Append(s, o)[k] : k \in DOMAIN Append(s, o)}
      <4>1. Len(s) + 1 \in 1..(Len(s) + 1)
        BY <3>1
      <4> QED BY <3>1, <4>1
    <3> QED BY <3>2, <3>3, <3>4
  <2>3. To(a)' = {links'[a][i] : i \in DOMAIN links'[a]}
    BY DEF To
  <2> QED BY <2>1, <2>2, <2>3 DEF To
<1>5. \A q \in Objects \ {a} : To(q)' = To(q)
  BY <1>3 DEF To
<1> QED BY <1>2, <1>3, <1>4, <1>5 DEF Link

\* The dependency's object loses its links, and the plugin its place in the map.
Breaking(o) == /\ o = deps[Head(todo)] /\ plugin[o] # NoPlugin
               /\ BreakCycle

LEMMA BreakFact ==
    ASSUME GraphTypes, NEW o \in Objects, Breaking(o)
    PROVE  /\ links' \in [Objects -> Seq(Objects)]
           /\ links'[o] = <<>> /\ To(o)' = {}
           /\ \A q \in Objects \ {o} : links'[q] = links[q] /\ To(q)' = To(q)
           /\ broken' = broken \cup {plugin[o], adding}
           /\ deps' = [deps EXCEPT ![adding] = NoObject]
           /\ adding' = NoPlugin /\ todo' = <<>>
           /\ UNCHANGED <<phase, plugin>>
<1>1. links' = [links EXCEPT ![o] = <<>>]
  BY DEF BreakCycle, Breaking
<1>2. /\ links' \in [Objects -> Seq(Objects)] /\ links'[o] = <<>>
      /\ \A q \in Objects \ {o} : links'[q] = links[q]
  BY <1>1 DEF GraphTypes
<1>3. \A q \in Objects : To(q)' = {links'[q][i] : i \in DOMAIN links'[q]}
  BY DEF To
<1>4. To(o)' = {}
  BY <1>2, <1>3
<1>5. \A q \in Objects \ {o} : To(q)' = To(q)
  BY <1>2 DEF To
<1> QED BY <1>2, <1>4, <1>5 DEF BreakCycle, Breaking

\* What a dependency may come to.  An object that is linked reaches no object
\* that has the plugin which is added.
Linking(o) ==
    /\ Link(o) /\ o[1] = Head(todo)
    /\ \/ deps[Head(todo)] = o
       \/ deps[Head(todo)] = NoObject /\ o = Fresh(Head(todo))
    /\ \E R \in SUBSET Objects :
          o \in R /\ Home(adding) \notin R /\ \A q \in R : To(q) \subseteq R

Panics == /\ phase' = "panic"
          /\ UNCHANGED <<graphVars, broken, adding, todo>>

LEMMA DependencyFact ==
    ASSUME GraphTypes, ObjectsInv, Acyclic, AddDependency
    PROVE  /\ Adding /\ todo # <<>> /\ Head(todo) \in Names
           /\ UNCHANGED <<dependsOn, loaded, configured, startVars>>
           /\ (\E o \in Objects : Linking(o) \/ Breaking(o)) \/ Panics
<1>1. Adding
  BY DEF AddDependency, ObjectsInv, Adding, GraphTypes
<1>2. /\ todo # <<>> /\ Head(todo) \in Names
      /\ UNCHANGED <<dependsOn, loaded, configured, startVars>>
  BY DEF AddDependency, GraphTypes
<1> DEFINE name == Head(todo)
<1>3. ASSUME NEW o \in Objects, plugin[o] = NoPlugin
      PROVE  \E R \in SUBSET Objects :
                o \in R /\ Home(adding) \notin R /\ \A q \in R : To(q) \subseteq R
  <2>1. To(o) = {}
    BY <1>3, ToFact DEF ObjectsInv
  <2>2. o # Home(adding)
    BY <1>1, <1>3, PluginsAssumption DEF Adding
  <2> WITNESS {o} \in SUBSET Objects
  <2> QED BY <2>1, <2>2
<1>4. CASE deps[name] = NoObject
  <2> DEFINE o == Fresh(name)
  <2>1. Link(o)
    BY <1>4 DEF AddDependency
  <2>2. o \in Objects /\ o[1] = name
    BY <1>2, HomeFact DEF Fresh, Home
  <2>3. plugin[o] = NoPlugin
    BY <1>2, <2>2, HomeFact DEF ObjectsInv, Fresh, Home
  <2> HIDE DEF o, name
  <2>4. Linking(o)
    BY <1>3, <1>4, <2>1, <2>2, <2>3 DEF Linking, o, name
  <2> QED BY <1>1, <1>2, <2>2, <2>4
<1>5. CASE deps[name] # NoObject
  <2> DEFINE o == deps[name]
  <2>1. o \in Objects /\ o[1] = name
    BY <1>2, <1>5, HomeFact DEF GraphTypes, ObjectsInv
  <2>2. CASE plugin[o] = NoPlugin
    <3>1. Link(o)
      BY <1>5, <2>2 DEF AddDependency
    <3> QED BY <1>1, <1>2, <1>3, <2>1, <2>2, <3>1 DEF Linking
  <2>3. CASE plugin[o] # NoPlugin /\ Finds(adding)[o] = "nothing"
    <3>1. Link(o)
      BY <1>5, <2>3 DEF AddDependency
    <3>2. PICK R \in SUBSET Objects :
              o \in R /\ \A q \in R : To(q) \subseteq R /\ plugin[q] # adding
      <4> HIDE DEF o
      <4> QED BY <2>1, <2>3, FindsFact
    <3>3. Home(adding) \notin R
      BY <1>1, <3>2 DEF Adding
    <3> QED BY <1>1, <1>2, <2>1, <3>1, <3>2, <3>3 DEF Linking
  <2>4. CASE plugin[o] # NoPlugin /\ Finds(adding)[o] # "nothing"
    <3>1. BreakCycle \/ Panics
      BY <1>5, <2>4 DEF AddDependency, Panics
    <3> QED BY <1>1, <1>2, <2>1, <2>4, <3>1 DEF Breaking
  <2> QED BY <2>2, <2>3, <2>4
<1> QED BY <1>4, <1>5

\* A step adds a plugin, looks at a dependency, is done with a plugin, or leaves
\* the graph alone.
Still == UNCHANGED <<dependsOn, loaded, graphVars, todo, adding, broken>>

LEMMA StepFact ==
    ASSUME [PluginsNext]_pluginsVars
    PROVE  \/ \E p \in Names : AddPlugin(p)
           \/ AddDependency \/ Added \/ Still
BY DEF PluginsNext, pluginsVars, Configure, StartRoot, StartDependency,
       StartPlugin, Started, Still, graphVars, startVars

LEMMA GraphStep ==
    ASSUME GraphTypes, ObjectsInv, Acyclic, [PluginsNext]_pluginsVars
    PROVE  GraphTypes'
<1>1. ASSUME NEW p \in Names, AddPlugin(p) PROVE GraphTypes'
  <2>1. Home(p) \in Objects /\ dependsOn[p] \in Seq(Names)
    BY HomeFact DEF GraphTypes
  <2>2. /\ deps' = [deps EXCEPT ![p] = Home(p)]
        /\ plugin' = [plugin EXCEPT ![Home(p)] = p]
        /\ loaded' = loaded \cup {p} /\ adding' = p /\ todo' = dependsOn[p]
        /\ UNCHANGED <<dependsOn, phase, links>>
    BY <1>1, AddPluginFact
  <2> QED BY <2>1, <2>2 DEF GraphTypes
<1>2. CASE AddDependency
  <2>1. /\ Adding /\ todo # <<>> /\ Head(todo) \in Names
        /\ UNCHANGED <<dependsOn, loaded>>
    BY <1>2, DependencyFact
  <2>2. ASSUME NEW o \in Objects, Linking(o) PROVE GraphTypes'
    <3>1. Tail(todo) \in Seq(Names)
      BY <2>1 DEF GraphTypes
    <3>2. Link(o)
      BY <2>2 DEF Linking
    <3>3. /\ links' \in [Objects -> Seq(Objects)]
          /\ deps' = [deps EXCEPT ![Head(todo)] = o] /\ todo' = Tail(todo)
          /\ UNCHANGED <<phase, plugin, adding>>
      BY <2>1, <3>2, LinkFact
    <3>4. deps' \in [Names -> Objects \cup {NoObject}]
      BY <2>1, <3>3 DEF GraphTypes
    <3> QED BY <2>1, <3>1, <3>3, <3>4 DEF GraphTypes
  <2>3. ASSUME NEW o \in Objects, Breaking(o) PROVE GraphTypes'
    <3>1. /\ links' \in [Objects -> Seq(Objects)]
          /\ deps' = [deps EXCEPT ![adding] = NoObject]
          /\ adding' = NoPlugin /\ todo' = <<>>
          /\ UNCHANGED <<phase, plugin>>
      BY <2>3, BreakFact
    <3>2. deps' \in [Names -> Objects \cup {NoObject}]
      BY <3>1 DEF GraphTypes
    <3> QED BY <2>1, <3>1, <3>2 DEF GraphTypes
  <2>4. CASE Panics
    BY <2>1, <2>4 DEF GraphTypes, Panics, graphVars
  <2> QED BY <1>2, <2>2, <2>3, <2>4, DependencyFact
<1>3. CASE Added
  BY <1>3 DEF Added, GraphTypes, graphVars
<1>4. CASE Configure \/ StartRoot \/ StartDependency \/ StartPlugin \/ Started
           \/ UNCHANGED pluginsVars
  BY <1>4 DEF Configure, StartRoot, StartDependency, StartPlugin, Started,
              pluginsVars, GraphTypes, graphVars
<1> QED BY <1>1, <1>2, <1>3, <1>4 DEF PluginsNext

LEMMA ObjectsStep ==
    ASSUME GraphTypes, ObjectsInv, Acyclic, [PluginsNext]_pluginsVars
    PROVE  ObjectsInv'
<1>1. ASSUME NEW p \in Names, AddPlugin(p) PROVE ObjectsInv'
  <2>0. /\ deps' = [deps EXCEPT ![p] = Home(p)]
        /\ plugin' = [plugin EXCEPT ![Home(p)] = p]
        /\ loaded' = loaded \cup {p} /\ p \notin loaded
        /\ adding' = p /\ UNCHANGED <<links, broken>>
    BY <1>1, AddPluginFact
  <2>1. /\ \A n \in Names : deps'[n] = IF n = p THEN Home(p) ELSE deps[n]
        /\ \A o \in Objects : plugin'[o] = IF o = Home(p) THEN p ELSE plugin[o]
        /\ \A o \in Objects : links'[o] = links[o] /\ To(o)' = To(o)
        /\ Home(p) \in Objects /\ Home(p)[1] = p
        /\ loaded' = loaded \cup {p} /\ p \notin loaded /\ broken' = broken
        /\ adding' = p /\ p # NoPlugin
    <3>1. \A o \in Objects : links'[o] = links[o] /\ To(o)' = To(o)
      BY <2>0 DEF To
    <3> QED BY <2>0, <3>1, HomeFact, PluginsAssumption DEF GraphTypes
  <2>2. \A o \in Objects : o[1] \in Names /\ To(o) \subseteq Objects
    BY HomeFact, ToFact
  <2>3. \A n \in Names : \/ deps'[n] = NoObject \/ deps'[n] = Home(n)
                         \/ deps'[n] = <<n, 2>> /\ n \in loaded'
    BY <2>1 DEF ObjectsInv
  <2>4. ASSUME NEW o \in Objects
        PROVE  /\ plugin'[o] # NoPlugin => o[1] \in loaded' /\ o = Home(o[1])
                                           /\ plugin'[o] = o[1]
               /\ links'[o] # <<>> => plugin'[o] # NoPlugin
    BY <2>1 DEF ObjectsInv
  <2>5. ASSUME NEW o \in Objects, NEW q \in To(o)'
        PROVE  plugin'[q] # NoPlugin \/ deps'[q[1]] = q
    <3>1. q \in To(o) /\ q \in Objects /\ q[1] \in Names /\ q # NoObject
      BY <2>1, <2>2, <2>5, PluginsAssumption
    <3>2. CASE plugin[q] # NoPlugin
      BY <2>1, <3>1, <3>2
    <3>3. CASE deps[q[1]] = q
      BY <2>1, <3>1, <3>3 DEF ObjectsInv
    <3> QED BY <3>1, <3>2, <3>3 DEF ObjectsInv
  <2>6. /\ adding' # NoPlugin => adding' \in loaded' \ broken'
        /\ broken' \subseteq loaded'
        /\ \A n \in loaded' \ broken' :
              deps'[n] = Home(n) /\ plugin'[Home(n)] = n
    <3>1. loaded \subseteq Names /\ broken \subseteq loaded
      BY DEF GraphTypes, ObjectsInv
    <3>2. \A n \in loaded \ broken : deps[n] = Home(n) /\ plugin[Home(n)] = n
      BY DEF ObjectsInv
    <3>3. \A n \in Names : Home(n) \in Objects /\ (Home(n) = Home(p) => n = p)
      BY HomeFact
    <3> QED BY <2>1, <3>1, <3>2, <3>3
  <2> QED BY <2>3, <2>4, <2>5, <2>6 DEF ObjectsInv
<1>2. ASSUME NEW o \in Objects, AddDependency, Linking(o) PROVE ObjectsInv'
  <2>1. /\ Adding /\ todo # <<>> /\ Head(todo) \in Names /\ loaded' = loaded
        /\ Link(o)
    BY <1>2, DependencyFact DEF Linking
  <2>2. /\ \A n \in Names : deps'[n] = IF n = Head(todo) THEN o ELSE deps[n]
        /\ UNCHANGED <<plugin, broken, adding>>
        /\ Head(todo) = o[1]
        /\ deps[o[1]] = o \/ (deps[o[1]] = NoObject /\ o = Fresh(o[1]))
        /\ Home(adding) \in Objects
    <3>1. /\ deps' = [deps EXCEPT ![Head(todo)] = o]
          /\ UNCHANGED <<plugin, broken, adding>>
      BY <2>1, LinkFact
    <3>2. /\ o[1] = Head(todo)
          /\ \/ deps[Head(todo)] = o
             \/ deps[Head(todo)] = NoObject /\ o = Fresh(Head(todo))
      BY <1>2 DEF Linking
    <3>3. Home(adding) \in Objects
      BY <2>1, HomeFact DEF Adding
    <3>4. \A n \in Names : deps'[n] = IF n = Head(todo) THEN o ELSE deps[n]
      BY <2>1, <3>1 DEF GraphTypes
    <3> QED BY <3>1, <3>2, <3>3, <3>4, Zenon
  <2>3. \A n \in Names : \/ deps'[n] = NoObject \/ deps'[n] = Home(n)
                         \/ deps'[n] = <<n, 2>> /\ n \in loaded'
    BY <2>1, <2>2 DEF ObjectsInv, Fresh, Home
  <2>4. ASSUME NEW q \in Objects
        PROVE  links'[q] # <<>> => plugin'[q] # NoPlugin
    <3>1. CASE q = Home(adding)
      BY <2>1, <2>2, <3>1, PluginsAssumption DEF Adding
    <3>2. CASE q # Home(adding)
      <4>1. links'[q] = links[q]
        BY <2>1, <3>2, LinkFact
      <4> QED BY <2>2, <4>1 DEF ObjectsInv
    <3> QED BY <3>1, <3>2
  <2>5. ASSUME NEW q \in Objects, NEW t \in To(q)'
        PROVE  plugin'[t] # NoPlugin \/ deps'[t[1]] = t
    <3>1. t \in To(q) \/ t = o
      <4>1. PICK a \in Objects : /\ To(a)' = To(a) \cup {o}
                                 /\ \A p \in Objects \ {a} : To(p)' = To(p)
        BY <2>1, LinkFact
      <4> QED BY <2>5, <4>1
    <3>2. CASE t \in To(q)
      <4>1. t \in Objects /\ t[1] \in Names
        BY <3>2, ToFact, HomeFact
      <4>2. t # NoObject
        BY <4>1, PluginsAssumption
      <4> QED BY <2>2, <3>2, <4>1, <4>2 DEF ObjectsInv
    <3>3. CASE t = o
      BY <2>1, <2>2, <3>3
    <3> QED BY <3>1, <3>2, <3>3
  <2>6. \A n \in loaded' \ broken' :
            deps'[n] = Home(n) /\ plugin'[Home(n)] = n
    <3>1. \A n \in loaded : n \in Names /\ Home(n) \in Objects
      BY HomeFact DEF GraphTypes
    <3>2. \A n \in Names : Home(n) # NoObject
      BY HomeFact, PluginsAssumption
    <3> QED BY <2>1, <2>2, <3>1, <3>2 DEF ObjectsInv
  <2> QED BY <2>1, <2>2, <2>3, <2>4, <2>5, <2>6 DEF ObjectsInv
<1>3. ASSUME NEW o \in Objects, AddDependency, Breaking(o) PROVE ObjectsInv'
  <2>1. /\ Adding /\ loaded' = loaded
        /\ adding' = NoPlugin
        /\ broken' = broken \cup {plugin[o], adding} /\ plugin' = plugin
        /\ \A q \in Objects : links'[q] # <<>> => links[q] # <<>>
        /\ \A q \in Objects : To(q)' \subseteq To(q)
        /\ plugin[o] # NoPlugin
        /\ \A n \in Names : deps'[n] = IF n = adding THEN NoObject ELSE deps[n]
    BY <1>3, DependencyFact, BreakFact DEF Breaking, GraphTypes
  <2>2. ASSUME NEW q \in Objects, NEW t \in To(q)'
        PROVE  plugin'[t] # NoPlugin \/ deps'[t[1]] = t
    <3>1. t \in To(q) /\ t \in Objects /\ t[1] \in Names
      BY <2>1, ToFact, HomeFact
    <3>2. deps[t[1]] = t /\ t[1] = adding => plugin[t] # NoPlugin
      BY <2>1, PluginsAssumption DEF Adding
    <3> QED BY <2>1, <3>1, <3>2 DEF ObjectsInv
  <2>3. plugin[o] \in loaded /\ adding \in loaded
    BY <2>1, PluginsAssumption DEF ObjectsInv, Adding
  <2>4. \A n \in Names : \/ deps'[n] = NoObject \/ deps'[n] = Home(n)
                         \/ deps'[n] = <<n, 2>> /\ n \in loaded'
    BY <2>1 DEF ObjectsInv
  <2>5. \A n \in loaded' \ broken' :
            deps'[n] = Home(n) /\ plugin'[Home(n)] = n
    BY <2>1 DEF ObjectsInv, GraphTypes
  <2> QED BY <2>1, <2>2, <2>3, <2>4, <2>5 DEF ObjectsInv
<1>4. CASE Added
  BY <1>4 DEF Added, ObjectsInv, graphVars, To
<1>5. CASE Still
  BY <1>5 DEF Still, ObjectsInv, graphVars, To
<1>6. CASE AddDependency /\ Panics
  <2>1. UNCHANGED <<deps, plugin, links, loaded, broken, adding>>
    BY <1>6, DependencyFact DEF Panics, graphVars
  <2> QED BY <2>1 DEF ObjectsInv, To
<1> QED BY <1>1, <1>2, <1>3, <1>4, <1>5, <1>6, StepFact, DependencyFact

\* A link to an object that does not reach the plugin closes no cycle.
LEMMA AcyclicStep ==
    ASSUME GraphTypes, ObjectsInv, Acyclic, [PluginsNext]_pluginsVars
    PROVE  Acyclic'
<1>1. ASSUME \A o \in Objects : To(o)' \subseteq To(o) PROVE Acyclic'
  BY <1>1 DEF Acyclic
<1>2. ASSUME NEW o \in Objects, AddDependency, Linking(o) PROVE Acyclic'
  <2>1. PICK R \in SUBSET Objects :
            o \in R /\ Home(adding) \notin R /\ \A q \in R : To(q) \subseteq R
    BY <1>2 DEF Linking
  <2>2. PICK a \in Objects :
            /\ a = Home(adding) /\ To(a)' = To(a) \cup {o}
            /\ \A q \in Objects \ {a} : To(q)' = To(q)
    BY <1>2, DependencyFact, LinkFact DEF Linking
  <2>3. ASSUME NEW S \in SUBSET Objects, S # {},
               \A q \in S : To(q)' \cap S # {}
        PROVE  FALSE
    <3>1. PICK q \in S : To(q) \cap S = {}
      BY <2>3 DEF Acyclic
    <3>2. q = a /\ o \in S
      <4>1. PICK t \in To(q)' : t \in S
        BY <2>3
      <4>2. q \in Objects /\ t \notin To(q)
        BY <3>1, <4>1
      <4> QED BY <2>2, <4>1, <4>2
    <3>3. PICK t \in S \cap R : To(t) \cap (S \cap R) = {}
      BY <2>1, <3>2 DEF Acyclic
    <3>4. To(t)' = To(t) /\ To(t) \subseteq R
      BY <2>1, <2>2, <3>3
    <3> QED BY <2>3, <3>3, <3>4
  <2> QED BY <2>3 DEF Acyclic
<1>3. ASSUME NEW o \in Objects, AddDependency, Breaking(o) PROVE Acyclic'
  BY <1>1, <1>3, BreakFact
<1>4. CASE UNCHANGED links
  BY <1>1, <1>4 DEF To
<1>5. CASE Added \/ Still \/ (AddDependency /\ Panics)
  BY <1>4, <1>5 DEF Added, Still, Panics, graphVars
<1>6. ASSUME NEW p \in Names, AddPlugin(p) PROVE Acyclic'
  BY <1>4, <1>6, AddPluginFact
<1> QED BY <1>2, <1>3, <1>5, <1>6, StepFact, DependencyFact

LEMMA LinkedSame ==
    ASSUME NEW n, Linked(n), UNCHANGED dependsOn,
           links'[Home(n)] = links[Home(n)], Remaining(n)' = Remaining(n)
    PROVE  Linked(n)'
<1>1. Home(n)' = Home(n)
  BY DEF Home
<1> QED BY <1>1 DEF Linked

LEMMA LinksStep ==
    ASSUME GraphTypes, ObjectsInv, Acyclic, LinksInv, [PluginsNext]_pluginsVars
    PROVE  LinksInv'
<1>0. /\ loaded \subseteq Names /\ NoPlugin \notin Names
      /\ \A n \in loaded \ broken : n \in Names /\ Home(n) \in Objects
  BY HomeFact, PluginsAssumption DEF GraphTypes
<1>1. ASSUME NEW p \in Names, AddPlugin(p) PROVE LinksInv'
  <2>1. /\ p \notin loaded /\ loaded' = loaded \cup {p} /\ links[Home(p)] = <<>>
        /\ adding = NoPlugin /\ adding' = p /\ todo' = dependsOn[p]
        /\ UNCHANGED <<dependsOn, links, broken>>
    BY <1>1, AddPluginFact
  <2>2. Linked(p)'
    <3>1. dependsOn[p] \in Seq(Names) /\ Home(p)' = Home(p)
      BY DEF GraphTypes, Home
    <3>2. Len(dependsOn[p]) \in Nat
      BY <3>1
    <3>3. links'[Home(p)]= <<>> /\ Remaining(p)' = dependsOn[p]
      BY <2>1 DEF Remaining
    <3>4. Linked(p)' =
             (/\ Len(links'[Home(p)]) + Len(Remaining(p)') = Len(dependsOn'[p])
              /\ \A i \in DOMAIN links'[Home(p)] :
                    links'[Home(p)][i][1] = dependsOn'[p][i]
              /\ \A i \in DOMAIN Remaining(p)' :
                    Remaining(p)'[i] = dependsOn'[p][Len(links'[Home(p)]) + i])
      BY <3>1 DEF Linked
    <3> HIDE DEF Remaining
    <3>5. Len(<<>>) = 0 /\ DOMAIN <<>> = {}
          /\ \A i \in DOMAIN dependsOn[p] : 0 + i = i
      BY <3>1
    <3> QED BY <2>1, <3>2, <3>3, <3>4, <3>5
  <2>3. ASSUME NEW n \in loaded \ broken PROVE Linked(n)'
    <3>1. n \in Names /\ n # p /\ n # adding /\ n # adding' /\ Linked(n)
      BY <1>0, <2>1 DEF LinksInv
    <3>2. Remaining(n)' = Remaining(n)
      BY <3>1 DEF Remaining
    <3> QED BY <2>1, <3>1, <3>2, LinkedSame
  <2> QED BY <2>1, <2>2, <2>3 DEF LinksInv
<1>2. ASSUME NEW o \in Objects, AddDependency, Linking(o) PROVE LinksInv'
  <2>1. /\ Adding /\ todo # <<>> /\ Head(todo) \in Names
        /\ UNCHANGED <<dependsOn, loaded>> /\ Link(o) /\ o[1] = Head(todo)
    BY <1>2, DependencyFact DEF Linking
  <2>2. PICK a \in Objects :
            /\ a = Home(adding) /\ links'[a] = Append(links[a], o)
            /\ \A q \in Objects \ {a} : links'[q] = links[q]
            /\ todo' = Tail(todo) /\ UNCHANGED <<broken, adding>>
    BY <2>1, LinkFact
  <2>3. ASSUME NEW n \in loaded \ broken, n # adding PROVE Linked(n)'
    <3>1. n \in Names /\ Linked(n) /\ Home(n) \in Objects /\ Home(n) # a
      BY <1>0, <2>1, <2>2, <2>3, HomeFact DEF LinksInv, Adding
    <3>2. Remaining(n)' = Remaining(n)
      BY <2>2, <2>3 DEF Remaining
    <3> QED BY <2>1, <2>2, <3>1, <3>2, LinkedSame
  <2>4. adding \in loaded \ broken => Linked(adding)'
    <3> SUFFICES ASSUME adding \in loaded \ broken PROVE Linked(adding)'
      OBVIOUS
    <3> DEFINE s == links[a]
               d == dependsOn[adding]
    <3>1. /\ s \in Seq(Objects) /\ todo \in Seq(Names) /\ d \in Seq(Names)
      BY <2>1, <2>2 DEF GraphTypes, Adding
    <3>2. /\ Len(s) + Len(todo) = Len(d)
          /\ \A i \in DOMAIN s : s[i][1] = d[i]
          /\ \A i \in DOMAIN todo : todo[i] = d[Len(s) + i]
      BY <2>2 DEF LinksInv, Linked, Remaining
    <3>3. links'[Home(adding')] = Append(s, o) /\ dependsOn'[adding'] = d
      BY <2>1, <2>2 DEF Home
    <3> HIDE DEF s, d
    <3>4. /\ Len(s) \in Nat /\ Len(todo) \in Nat /\ Len(todo) > 0
          /\ Len(Append(s, o)) = Len(s) + 1 /\ Len(Tail(todo)) = Len(todo) - 1
          /\ DOMAIN Append(s, o) = 1..(Len(s) + 1)
          /\ DOMAIN Tail(todo) = 1..(Len(todo) - 1)
          /\ DOMAIN s = 1..Len(s) /\ DOMAIN todo = 1..Len(todo)
          /\ \A i \in 1..Len(s) : Append(s, o)[i] = s[i]
          /\ Append(s, o)[Len(s) + 1] = o
          /\ \A i \in 1..(Len(todo) - 1) : Tail(todo)[i] = todo[i + 1]
          /\ Head(todo) = todo[1]
      BY <2>1, <3>1
    <3>5. Len(Append(s, o)) + Len(Tail(todo)) = Len(d)
      <4>1. Len(s) + Len(todo) = Len(d)
        BY <3>2
      <4>2. (Len(s) + 1) + (Len(todo) - 1) = Len(s) + Len(todo)
        BY <3>4
      <4>3. Len(Append(s, o)) + Len(Tail(todo)) = (Len(s) + 1) + (Len(todo) - 1)
        BY <3>4
      <4> QED BY <4>1, <4>2, <4>3
    <3>6. ASSUME NEW i \in DOMAIN Append(s, o) PROVE Append(s, o)[i][1] = d[i]
      <4>1. CASE i \in 1..Len(s)
        BY <3>2, <3>4, <4>1
      <4>2. CASE i = Len(s) + 1
        <5>1. 1 \in DOMAIN todo
          BY <3>4
        <5> QED BY <2>1, <3>2, <3>4, <4>2, <5>1
      <4> QED BY <3>4, <4>1, <4>2
    <3>7. ASSUME NEW i \in DOMAIN Tail(todo)
          PROVE  Tail(todo)[i] = d[Len(Append(s, o)) + i]
      <4>1. /\ i \in Nat /\ i + 1 \in DOMAIN todo
            /\ Len(s) + 1 + i = Len(s) + (i + 1)
        BY <3>4
      <4> QED BY <3>2, <3>4, <4>1
    <3>8. Remaining(adding)' = Tail(todo)
      BY <2>2 DEF Remaining
    <3> QED BY <3>3, <3>5, <3>6, <3>7, <3>8 DEF Linked
  <2>5. Linked(adding)' => \A n \in Names : n = adding => Linked(n)'
    BY <2>2
  <2> QED BY <1>0, <2>1, <2>2, <2>3, <2>4, <2>5 DEF LinksInv
<1>3. ASSUME NEW o \in Objects, AddDependency, Breaking(o) PROVE LinksInv'
  <2>1. /\ UNCHANGED <<dependsOn, loaded>> /\ adding' = NoPlugin
        /\ broken' = broken \cup {plugin[o], adding}
        /\ \A q \in Objects \ {o} : links'[q] = links[q]
    BY <1>3, DependencyFact, BreakFact
  <2>2. ASSUME NEW n \in loaded' \ broken' PROVE Linked(n)'
    <3>1. /\ n \in loaded \ broken /\ n \in Names /\ n # adding
          /\ n # adding' /\ Linked(n) /\ plugin[Home(n)] = n /\ n # plugin[o]
      BY <1>0, <2>1 DEF LinksInv, ObjectsInv
    <3>2. Home(n) \in Objects \ {o}
      BY <1>0, <3>1
    <3>3. Remaining(n)' = Remaining(n)
      BY <3>1 DEF Remaining
    <3> QED BY <2>1, <3>1, <3>2, <3>3, LinkedSame
  <2> QED BY <2>2 DEF LinksInv
<1>4. ASSUME UNCHANGED <<dependsOn, loaded, links, broken>>,
             \A n \in Names : Remaining(n)' = Remaining(n)
      PROVE  LinksInv'
  BY <1>0, <1>4, LinkedSame DEF LinksInv
<1>5. CASE Added
  <2>1. \A n \in Names : Remaining(n)' = Remaining(n)
    BY <1>0, <1>5 DEF Added, Remaining
  <2> QED BY <1>4, <1>5, <2>1 DEF Added, graphVars
<1>6. CASE Still
  <2>1. \A n \in Names : Remaining(n)' = Remaining(n)
    BY <1>6 DEF Still, Remaining
  <2> QED BY <1>4, <1>6, <2>1 DEF Still, graphVars
<1>7. CASE AddDependency /\ Panics
  <2>1. UNCHANGED <<dependsOn, loaded>>
    BY <1>7, DependencyFact
  <2>2. \A n \in Names : Remaining(n)' = Remaining(n)
    BY <1>7 DEF Panics, Remaining
  <2> QED BY <1>4, <1>7, <2>1, <2>2 DEF Panics, graphVars
<1> QED BY <1>1, <1>2, <1>3, <1>5, <1>6, <1>7, StepFact, DependencyFact

-----------------------------------------------------------------------------
(***************************************************************************)
(* The start.                                                              *)
(***************************************************************************)
\* While plugins are loaded nothing is started; after that the graph stays.
LEMMA PhaseFact ==
    ASSUME GraphTypes, ObjectsInv, Acyclic, [PluginsNext]_pluginsVars
    PROVE  \/ ~Starting /\ ~Starting' /\ UNCHANGED startVars
           \/ Configure
           \/ Starting /\ Starting' /\ Still /\ UNCHANGED configured
<1>1. CASE \E p \in Names : AddPlugin(p)
  BY <1>1 DEF AddPlugin, Starting, startVars
<1>2. CASE AddDependency
  <2>1. phase = "load" /\ phase' \in {"load", "panic"} /\ UNCHANGED startVars
    BY <1>2, DependencyFact DEF Adding, Linking, Breaking, Link, BreakCycle, Panics
  <2> QED BY <2>1 DEF Starting
<1>3. CASE Added
  BY <1>3 DEF Added, Starting, startVars
<1>4. CASE StartRoot \/ StartDependency \/ StartPlugin \/ Started
  BY <1>4 DEF StartRoot, StartDependency, StartPlugin, Started, Starting, Still,
              graphVars
<1>5. CASE UNCHANGED pluginsVars
  BY <1>5 DEF pluginsVars, Starting, Still, graphVars, startVars
<1> QED BY <1>1, <1>2, <1>3, <1>4, <1>5 DEF PluginsNext

LEMMA ConfiguredStep ==
    ASSUME GraphTypes, ObjectsInv, Acyclic, ConfiguredInv,
           [PluginsNext]_pluginsVars
    PROVE  ConfiguredInv'
<1>1. CASE ~Starting'
  BY <1>1 DEF ConfiguredInv
<1>2. CASE Starting /\ Still /\ UNCHANGED configured
  BY <1>2 DEF ConfiguredInv, Still, graphVars, InMap, To
<1>3. CASE Configure /\ Starting'
  <2>1. /\ adding = NoPlugin /\ \A o \in InMap : plugin[o] # NoPlugin
        /\ configured' = {plugin[o] : o \in InMap}
        /\ UNCHANGED <<loaded, deps, plugin, links, adding, broken>>
    BY <1>3 DEF Configure, Starting, graphVars
  <2>2. ASSUME NEW n \in loaded \ broken PROVE n \in configured'
    <3>1. n \in Names /\ deps[n] = Home(n) /\ plugin[Home(n)] = n
      BY DEF ObjectsInv, GraphTypes
    <3>2. Home(n) \in InMap
      BY <3>1, HomeFact, PluginsAssumption DEF InMap
    <3> QED BY <2>1, <3>1, <3>2
  <2>3. ASSUME NEW o \in Objects, NEW q \in To(o) PROVE plugin[q] # NoPlugin
    <3>1. q \in Objects /\ q[1] \in Names /\ q # NoObject
      BY ToFact, HomeFact, PluginsAssumption
    <3>2. plugin[q] # NoPlugin \/ q \in InMap
      BY <3>1 DEF ObjectsInv, InMap
    <3> QED BY <2>1, <3>2
  <2>4. InMap' = InMap /\ \A o \in Objects : To(o)' = To(o)
    BY <2>1 DEF InMap, To
  <2> QED BY <2>1, <2>2, <2>3, <2>4 DEF ConfiguredInv
<1> QED BY <1>1, <1>2, <1>3, PhaseFact

\* The object on top of the stack is not linked to one whose call has not returned.
LEMMA TopFact ==
    ASSUME Acyclic, CallsInv, stack # <<>>, NEW q \in To(Top),
           NEW i \in DOMAIN stack, stack[i] = q
    PROVE  FALSE
<1>1. /\ stack \in Seq(Objects) /\ DOMAIN stack = 1..Len(stack)
      /\ Len(stack) \in Nat /\ i \in 1..Len(stack)
  BY DEF CallsInv
<1> DEFINE S == {stack[j] : j \in i..Len(stack)}
<1>2. S \in SUBSET Objects /\ q \in S
  <2>1. i \in i..Len(stack) /\ \A j \in i..Len(stack) : j \in 1..Len(stack)
    BY <1>1
  <2> QED BY <1>1, <2>1
<1>3. PICK o \in S : To(o) \cap S = {}
  <2> HIDE DEF S
  <2> QED BY <1>2 DEF Acyclic
<1>4. PICK j \in i..Len(stack) : o = stack[j]
  OBVIOUS
<1>5. CASE j = Len(stack)
  BY <1>2, <1>3, <1>4, <1>5 DEF Top
<1>6. CASE j # Len(stack)
  <2>1. j \in DOMAIN stack /\ j + 1 \in DOMAIN stack /\ j + 1 \in i..Len(stack)
    <3>0. i \in Int /\ 1 <= i /\ Len(stack) \in Int
      BY <1>1
    <3> HIDE DEF S
    <3>1. j \in Int /\ 1 <= i /\ i <= j /\ j < Len(stack)
      BY <3>0, <1>6
    <3> QED BY <1>1, <3>1
  <2>2. stack[j + 1] \in To(o) /\ stack[j + 1] \in S
    BY <1>4, <2>1 DEF CallsInv
  <2> QED BY <1>3, <2>2
<1> QED BY <1>5, <1>6

LEMMA InvokeKeeps ==
    ASSUME GraphTypes, CallsInv, OrderInv, Starting', Still, UNCHANGED order,
           NEW o \in Objects, o \notin invoked, plugin[o] # NoPlugin, Invoke(o),
           stack # <<>> => o \in To(Top)
    PROVE  CallsInv' /\ OrderInv'
<1>1. /\ stack \in Seq(Objects) /\ Len(stack) \in Nat
      /\ DOMAIN stack = 1..Len(stack) /\ DOMAIN stack' = 1..(Len(stack) + 1)
      /\ stack' \in Seq(Objects)
      /\ \A i \in 1..Len(stack) : stack'[i] = stack[i]
      /\ stack'[Len(stack) + 1] = o
  BY DEF CallsInv, Invoke
<1>2. /\ invoked' = invoked \cup {o} /\ order' = order /\ plugin' = plugin
      /\ invoked \subseteq Objects /\ order \in Seq(Names)
  BY DEF Invoke, Still, graphVars, CallsInv
<1>3. \A q \in Objects : To(q)' = To(q)
  BY DEF Still, graphVars, To
<1>4. \A i \in 1..Len(stack) : stack[i] \in invoked /\ stack[i] # o
  BY <1>1 DEF CallsInv
<1>5. CallsInv'
  <2>1. \A i \in DOMAIN stack' : stack'[i] \in invoked'
    BY <1>1, <1>2, <1>4
  <2>2. ASSUME NEW i \in DOMAIN stack', NEW j \in DOMAIN stack',
               stack'[i] = stack'[j]
        PROVE  i = j
    <3>1. i = Len(stack) + 1 \/ i \in 1..Len(stack)
      BY <1>1
    <3>2. j = Len(stack) + 1 \/ j \in 1..Len(stack)
      BY <1>1
    <3> QED BY <1>1, <1>4, <2>2, <3>1, <3>2 DEF CallsInv
  <2>3. ASSUME NEW i \in DOMAIN stack', i + 1 \in DOMAIN stack'
        PROVE  stack'[i + 1] \in To(stack[i])'
    <3>1. i \in 1..Len(stack) /\ stack'[i] = stack[i] /\ stack[i] \in Objects
      BY <1>1, <2>3
    <3>2. To(stack[i])' = To(stack[i])
      BY <3>1 DEF To, Still, graphVars
    <3>3. CASE i + 1 \in 1..Len(stack)
      BY <1>1, <3>1, <3>2, <3>3 DEF CallsInv
    <3>4. CASE i = Len(stack)
      BY <1>1, <3>1, <3>2, <3>4 DEF Top
    <3> QED BY <1>1, <2>3, <3>3, <3>4
  <2> QED BY <1>1, <1>2, <2>1, <2>2, <2>3 DEF CallsInv
<1>6. OrderInv'
  <2>1. \A i \in DOMAIN order : Home(order[i]) \in invoked
    BY DEF OrderInv
  <2>2. ASSUME NEW i \in DOMAIN order', NEW j \in DOMAIN stack'
        PROVE  stack'[j] # Home(order'[i])
    <3>1. j = Len(stack) + 1 \/ j \in 1..Len(stack)
      BY <1>1
    <3> QED BY <1>1, <1>2, <2>1, <3>1 DEF OrderInv
  <2>3. ASSUME NEW q \in invoked'
        PROVE  \/ \E i \in DOMAIN stack' : stack'[i] = q
               \/ \E i \in DOMAIN order' : q = Home(order'[i])
    <3>1. CASE q = o
      <4>1. Len(stack) + 1 \in DOMAIN stack'
        BY <1>1
      <4> QED BY <1>1, <3>1, <4>1
    <3>2. CASE q \in invoked
      <4>1. \A i \in DOMAIN stack : i \in DOMAIN stack' /\ stack'[i] = stack[i]
        BY <1>1
      <4> QED BY <1>2, <3>2, <4>1 DEF OrderInv
    <3> QED BY <1>2, <3>1, <3>2
  <2>4. ASSUME NEW i \in DOMAIN order'
        PROVE  \A q \in To(Home(order[i]))' :
                   \E j \in DOMAIN order' : j < i /\ q = Home(order'[j])
    <3>1. To(Home(order[i]))' = To(Home(order[i]))
      BY <1>2 DEF To, Home, Still, graphVars
    <3> QED BY <1>2, <2>4, <3>1 DEF OrderInv
  <2>5. \A i, j \in DOMAIN order' : order'[i] = order'[j] => i = j
    BY <1>2 DEF OrderInv
  <2>6. \A i : Home(order[i])' = Home(order'[i])
    BY DEF Home
  <2> QED BY <1>2, <2>1, <2>2, <2>3, <2>4, <2>5, <2>6 DEF OrderInv, Home
<1> QED BY <1>5, <1>6

LEMMA StartKeeps ==
    ASSUME GraphTypes, ObjectsInv, Acyclic, CallsInv, OrderInv, Starting,
           Starting', Still, StartPlugin, phase' = phase
    PROVE  CallsInv' /\ OrderInv'
<1>1. /\ stack \in Seq(Objects) /\ Len(stack) \in Nat \ {0}
      /\ DOMAIN stack = 1..Len(stack) /\ Len(stack) \in DOMAIN stack
      /\ Top = stack[Len(stack)] /\ Top \in Objects /\ Top \in invoked
  <2>1. stack \in Seq(Objects) /\ stack # <<>>
    BY DEF StartPlugin, CallsInv
  <2>2. Len(stack) \in Nat \ {0} /\ DOMAIN stack = 1..Len(stack)
        /\ Len(stack) \in DOMAIN stack
    BY <2>1
  <2> QED BY <2>1, <2>2 DEF Top, CallsInv
<1>2. Top = Home(plugin[Top]) /\ plugin[Top] \in Names
  BY <1>1, HomeFact DEF CallsInv, ObjectsInv
<1>3. /\ order' = Append(order, plugin[Top])
      /\ stack' = SubSeq(stack, 1, Len(stack) - 1)
      /\ invoked' = invoked /\ Uncalled = {}
  <2>1. phase' # "failed" \/ phase = "failed"
    OBVIOUS
  <2> QED BY <2>1 DEF StartPlugin
<1>4. /\ stack' \in Seq(Objects) /\ Len(stack') = Len(stack) - 1
      /\ DOMAIN stack' = 1..(Len(stack) - 1)
      /\ \A i \in DOMAIN stack' :
            i \in DOMAIN stack /\ stack'[i] = stack[i] /\ i # Len(stack)
  BY <1>1, <1>3
<1>5. /\ order \in Seq(Names) /\ Len(order) \in Nat
      /\ order' \in Seq(Names) /\ DOMAIN order = 1..Len(order)
      /\ DOMAIN order' = 1..(Len(order) + 1)
      /\ \A i \in DOMAIN order : order'[i] = order[i]
      /\ order'[Len(order) + 1] = plugin[Top]
      /\ Len(order) + 1 \in DOMAIN order' /\ DOMAIN order \subseteq DOMAIN order'
  BY <1>2, <1>3 DEF CallsInv
<1>6. ASSUME NEW q \in To(Top)
      PROVE  \E j \in DOMAIN order : q = Home(order[j])
  <2>1. q \in invoked
    BY <1>3 DEF Uncalled, To
  <2>2. \A i \in DOMAIN stack : stack[i] # q
    BY <1>1, TopFact
  <2> QED BY <2>1, <2>2 DEF OrderInv
<1>7. CallsInv'
  <2>1. \A i \in DOMAIN stack' : stack'[i] \in invoked'
    BY <1>3, <1>4 DEF CallsInv
  <2>2. \A i, j \in DOMAIN stack' : stack'[i] = stack'[j] => i = j
    BY <1>4 DEF CallsInv
  <2>3. ASSUME NEW i \in DOMAIN stack', i + 1 \in DOMAIN stack'
        PROVE  stack'[i + 1] \in To(stack[i])'
    <3>1. To(stack[i])' = To(stack[i])
      BY <1>4 DEF To, Still, graphVars
    <3> QED BY <1>4, <2>3, <3>1 DEF CallsInv
  <2>4. \A o \in invoked' : plugin'[o] # NoPlugin
    BY <1>3 DEF CallsInv, Still, graphVars
  <2> QED BY <1>3, <1>4, <1>5, <2>1, <2>2, <2>3, <2>4 DEF CallsInv
<1>8. OrderInv'
  <2>1. \A i \in DOMAIN order : /\ Home(order[i]) \in invoked
                                /\ order[i] \in Names
                                /\ order[i] # plugin[Top]
    BY <1>1, <1>2, <1>5 DEF OrderInv
  <2>2. ASSUME NEW i \in DOMAIN order'
        PROVE  /\ Home(order[i])' = Home(order'[i])
               /\ Home(order'[i]) \in invoked'
               /\ \A j \in DOMAIN stack' : stack'[j] # Home(order'[i])
    <3>1. Home(order[i])' = Home(order'[i])
      BY DEF Home
    <3>2. CASE i \in DOMAIN order
      BY <1>3, <1>4, <1>5, <2>1, <3>1, <3>2 DEF OrderInv
    <3>3. CASE i = Len(order) + 1
      <4>1. \A j \in DOMAIN stack' : stack'[j] # Top
        BY <1>1, <1>4 DEF CallsInv
      <4> QED BY <1>1, <1>2, <1>3, <1>5, <3>1, <3>3, <4>1
    <3> QED BY <1>5, <3>2, <3>3
  <2>3. ASSUME NEW i \in DOMAIN order', NEW j \in DOMAIN order',
               order'[i] = order'[j]
        PROVE  i = j
    <3>1. i = Len(order) + 1 \/ i \in DOMAIN order
      BY <1>5
    <3>2. j = Len(order) + 1 \/ j \in DOMAIN order
      BY <1>5
    <3> QED BY <1>5, <2>1, <2>3, <3>1, <3>2 DEF OrderInv
  <2>4. ASSUME NEW o \in invoked
        PROVE  \/ \E i \in DOMAIN stack' : stack'[i] = o
               \/ \E i \in DOMAIN order' : o = Home(order'[i])
    <3>1. CASE \E i \in DOMAIN order : o = Home(order[i])
      BY <1>5, <3>1
    <3>2. CASE o = Top
      BY <1>2, <1>5, <3>2
    <3>3. ASSUME NEW i \in DOMAIN stack, stack[i] = o, o # Top
          PROVE  \E k \in DOMAIN stack' : stack'[k] = o
      <4>1. i \in DOMAIN stack'
        BY <1>1, <1>4, <3>3
      <4> QED BY <1>4, <3>3, <4>1
    <3> QED BY <3>1, <3>2, <3>3 DEF OrderInv
  <2>5. ASSUME NEW i \in DOMAIN order', NEW q \in To(Home(order[i]))'
        PROVE  \E j \in DOMAIN order' : j < i /\ q = Home(order'[j])
    <3>1. CASE i \in DOMAIN order
      <4>1. To(Home(order[i]))' = To(Home(order[i]))
        BY <1>5, <3>1 DEF To, Home, Still, graphVars
      <4>2. PICK j \in DOMAIN order : j < i /\ q = Home(order[j])
        BY <2>5, <3>1, <4>1 DEF OrderInv
      <4> QED BY <1>5, <4>2
    <3>2. CASE i = Len(order) + 1
      <4>1. To(Home(order[i]))' = To(Top)
        <5>1. Home(order'[i]) = Top
          BY <1>2, <1>5, <3>2
        <5>2. To(Home(order[i]))' = {links'[Home(order'[i])][k] :
                                         k \in DOMAIN links'[Home(order'[i])]}
          BY DEF To, Home
        <5> QED BY <5>1, <5>2 DEF To, Still, graphVars
      <4>2. PICK j \in DOMAIN order : q = Home(order[j])
        BY <1>6, <2>5, <4>1
      <4>3. j < i
        BY <1>5, <3>2
      <4> QED BY <1>5, <4>2, <4>3
    <3> QED BY <1>5, <3>1, <3>2
  <2>6. \A j : Home(order[j])' = Home(order'[j])
    BY DEF Home
  <2> QED BY <1>3, <2>2, <2>3, <2>4, <2>5, <2>6 DEF OrderInv
<1> QED BY <1>7, <1>8

LEMMA StartStep ==
    ASSUME GraphTypes, ObjectsInv, Acyclic, ConfiguredInv, CallsInv, OrderInv,
           [PluginsNext]_pluginsVars
    PROVE  CallsInv' /\ OrderInv'
<1>1. CASE ~Starting' /\ UNCHANGED startVars /\ ~Starting
  <2>1. invoked' = {} /\ stack' = <<>> /\ order' = <<>>
    BY <1>1 DEF CallsInv, startVars
  <2> QED BY <2>1 DEF CallsInv, OrderInv
<1>2. CASE Configure
  <2>1. invoked' = {} /\ stack' = <<>> /\ order' = <<>>
    BY <1>2 DEF CallsInv, Configure, startVars, Starting
  <2> QED BY <2>1 DEF CallsInv, OrderInv
<1>3. CASE Starting /\ Starting' /\ Still
  <2>1. CASE UNCHANGED startVars
    <3>1. UNCHANGED <<links, plugin, invoked, stack, order>>
      BY <1>3, <2>1 DEF Still, startVars, graphVars
    <3>2. CallsInv'
      BY <1>3, <3>1 DEF CallsInv, To
    <3>3. OrderInv'
      BY <3>1 DEF OrderInv, To, Home
    <3> QED BY <3>2, <3>3
  <2>2. CASE StartRoot
    <3>1. PICK o \in InMap \ invoked : Invoke(o)
      BY <2>2 DEF StartRoot
    <3>2. o \in Objects /\ plugin[o] # NoPlugin
      BY <1>3, <3>1 DEF ConfiguredInv, InMap, GraphTypes
    <3> QED BY <1>3, <2>2, <3>1, <3>2, InvokeKeeps DEF StartRoot
  <2>3. CASE StartDependency
    <3>1. /\ stack # <<>> /\ order' = order /\ Uncalled # {}
          /\ Invoke(links[Top][First(Uncalled)])
      BY <2>3 DEF StartDependency
    <3>2. Top \in Objects
      BY <3>1 DEF CallsInv, Top
    <3>3. links[Top] \in Seq(Objects) /\ Uncalled \in SUBSET DOMAIN links[Top]
      BY <3>2 DEF GraphTypes, Uncalled
    <3>4. First(Uncalled) \in Uncalled
      BY <3>1, <3>3, FirstFact
    <3> DEFINE o == links[Top][First(Uncalled)]
    <3>5. o \in To(Top) /\ o \in Objects /\ o \notin invoked
      <4>1. /\ First(Uncalled) \in DOMAIN links[Top]
            /\ links[Top][First(Uncalled)] \notin invoked
        BY <3>4 DEF Uncalled
      <4> QED BY <3>3, <4>1 DEF To
    <3>6. plugin[o] # NoPlugin
      BY <1>3, <3>2, <3>5 DEF ConfiguredInv
    <3> HIDE DEF o
    <3> QED BY <1>3, <3>1, <3>5, <3>6, InvokeKeeps DEF o
  <2>4. CASE StartPlugin
    <3>1. CASE phase' = phase
      BY <1>3, <2>4, <3>1, StartKeeps
    <3>2. CASE UNCHANGED startVars
      BY <2>1, <3>2
    <3> QED BY <2>4, <3>1, <3>2 DEF StartPlugin, startVars
  <2>5. UNCHANGED startVars \/ StartRoot \/ StartDependency \/ StartPlugin
    <3>1. ~\E p \in Names : AddPlugin(p)
      BY <1>3 DEF AddPlugin, Starting
    <3>2. ~AddDependency /\ ~Added /\ ~Configure
      BY <1>3 DEF AddDependency, Added, Configure, Starting
    <3> QED BY <3>1, <3>2 DEF PluginsNext, pluginsVars, Started, startVars
  <2> QED BY <2>1, <2>2, <2>3, <2>4, <2>5
<1> QED BY <1>1, <1>2, <1>3, PhaseFact

LEMMA PluginsStart == PluginsInit => PluginsInv
<1> SUFFICES ASSUME PluginsInit PROVE PluginsInv
  OBVIOUS
<1>1. GraphTypes
  BY PluginsAssumption DEF PluginsInit, GraphTypes
<1>2. \A o \in Objects : To(o) = {}
  BY DEF PluginsInit, To
<1>3. ObjectsInv /\ LinksInv /\ Acyclic
  BY <1>2 DEF PluginsInit, ObjectsInv, LinksInv, Acyclic
<1>4. ConfiguredInv /\ CallsInv /\ OrderInv
  BY DEF PluginsInit, ConfiguredInv, CallsInv, OrderInv, Starting
<1> QED BY <1>1, <1>3, <1>4 DEF PluginsInv

LEMMA PluginsStep == PluginsInv /\ [PluginsNext]_pluginsVars => PluginsInv'
BY GraphStep, ObjectsStep, LinksStep, AcyclicStep, ConfiguredStep, StartStep
   DEF PluginsInv

\* However many plugins there are, whatever they depend on and in whatever order
\* their files come, a plugin is started once, after it was configured and after
\* all it depends on, unless it was in a cycle that addPlugin broke.
THEOREM DependenciesFirstCorrect == PluginsSpec => []DependenciesFirst
<1>1. ASSUME PluginsInv PROVE DependenciesFirst
  <2>1. \A i, j \in DOMAIN order : order[i] = order[j] => i = j
    BY <1>1 DEF PluginsInv, OrderInv
  <2>2. ASSUME NEW n \in Names \ broken, Runs(n)
        PROVE  /\ n \in configured
               /\ \A i \in DOMAIN dependsOn[n] : Before(dependsOn[n][i], n)
    <3>1. PICK k \in DOMAIN order : order[k] = n
      BY <2>2 DEF Runs
    <3>2. Home(n) \in invoked /\ Home(n) \in Objects /\ Home(n)[1] = n
      BY <1>1, <3>1, HomeFact DEF PluginsInv, OrderInv
    <3>3. Starting
      BY <1>1, <3>2 DEF PluginsInv, CallsInv
    <3>4. n \in loaded \ broken
      BY <1>1, <3>2 DEF PluginsInv, CallsInv, ObjectsInv
    <3>5. n \in configured /\ Remaining(n) = <<>> /\ Linked(n)
      BY <1>1, <3>3, <3>4, PluginsAssumption
         DEF PluginsInv, ConfiguredInv, LinksInv, Remaining
    <3>6. ASSUME NEW i \in DOMAIN dependsOn[n] PROVE Before(dependsOn[n][i], n)
      <4> DEFINE q == links[Home(n)][i]
      <4>1. i \in DOMAIN links[Home(n)] /\ q[1] = dependsOn[n][i]
        <5>1. links[Home(n)] \in Seq(Objects) /\ dependsOn[n] \in Seq(Names)
          BY <1>1, <3>2 DEF PluginsInv, GraphTypes
        <5>2. /\ Len(links[Home(n)]) \in Nat /\ Len(dependsOn[n]) \in Nat
              /\ Len(<<>>) = 0
              /\ DOMAIN links[Home(n)] = 1..Len(links[Home(n)])
              /\ DOMAIN dependsOn[n] = 1..Len(dependsOn[n])
          BY <5>1
        <5>3. /\ Len(links[Home(n)]) + Len(<<>>) = Len(dependsOn[n])
              /\ \A j \in DOMAIN links[Home(n)] :
                    links[Home(n)][j][1] = dependsOn[n][j]
          BY <3>5 DEF Linked
        <5>4. Len(links[Home(n)]) = Len(dependsOn[n])
          BY <5>2, <5>3
        <5> QED BY <3>6, <5>2, <5>3, <5>4
      <4>2. q \in To(Home(order[k]))
        BY <3>1, <4>1 DEF To
      <4>3. PICK j \in DOMAIN order : j < k /\ q = Home(order[j])
        BY <1>1, <4>2 DEF PluginsInv, OrderInv
      <4>4. order[j] \in Names
        BY <1>1 DEF PluginsInv, CallsInv
      <4>5. order[j] = dependsOn[n][i]
        BY <4>1, <4>3, <4>4, HomeFact
      <4> QED BY <3>1, <4>3, <4>5 DEF Before
    <3> QED BY <3>5, <3>6
  <2> QED BY <2>1, <2>2 DEF DependenciesFirst
<1> QED BY <1>1, PluginsStart, PluginsStep, PTL DEF PluginsSpec

=============================================================================
