----------------------------- MODULE DesktopInput -----------------------------
(***************************************************************************)
(* The keys, buttons and touches that clients hold down on the desktop:    *)
(* internal/desktop, pkg/xorg, pkg/xinput, pkg/drop and the handlers that  *)
(* control them.                                                           *)
(*                                                                         *)
(* Each client has a goroutine that reads its websocket and one that reads *)
(* its data channel; an administrator calls the REST interface.  All of    *)
(* them look first whether the client is the host and then use the desktop,*)
(* whose tables have a mutex for each call only.  A ticker releases once a *)
(* second what has been down for too long, and files are dropped by moving *)
(* the mouse over a window.                                                *)
(***************************************************************************)
EXTENDS Naturals, Sequences, FiniteSets

CONSTANTS Clients,        \* sessions that may host
          Keys, Touches,  \* keysyms and ids of touches
          Button,         \* the left mouse button
          Shift,          \* the key that changes what the others make
          Layout,         \* what each keycode makes, without and with Shift
          NewKey,         \* and what one does that is mapped for a keysym
          Hold,           \* debounceDuration, in seconds
          MaxDrops,       \* bound: files dropped
          DesktopScenes,  \* what is tried: callers, codes, presses, drops
          NoClient

Codes == Keys \cup Touches \cup {Button}
Admin == <<"admin", NoClient>>
Callers == ({"websocket", "datachannel"} \X Clients) \cup {Admin}
Client(t) == t[2]

ASSUME DesktopAssumption ==
    /\ Hold \in Nat /\ MaxDrops \in Nat
    /\ NoClient \notin Clients
    /\ Button \notin Keys \cup Touches /\ Keys \cap Touches = {}
    /\ Shift \in Keys
    /\ Layout \in Seq(Seq(Keys)) /\ NewKey \in [Keys -> Seq(Keys)]
    /\ \A s \in DesktopScenes :
          /\ s.callers \subseteq Callers \ {Admin}
          /\ s.codes \subseteq Codes
          /\ \A p \in s.presses : p \in Seq(s.codes \ Touches) /\ p # <<>>
          /\ s.drops \in 0 .. MaxDrops

\* The events of the window that files are dragged from; the listeners of
\* "create" and "button-press" only move the cursor.
DropEvents == <<"cursor-enter", "begin", "finish">>
Listening == {DropEvents[i] : i \in DOMAIN DropEvents}

VARIABLES
    desk,       \* one of DesktopScenes
    implicit,   \* settings.implicit_hosting
    host,       \* manager.hostId
    held,       \* debounce_key, debounce_button, debounceTouchIds
    keyboard,   \* of the display: what its keycodes make, which are down, and
                \* xKeysHead, the keycodes that keysyms were pressed with
    ticker,     \* what the ticker of the desktop manager has to do
    at, job,    \* where each goroutine is, and with what
    dropping,   \* where DropFiles is; it holds desktop.mu
    opening,    \* goroutines that wait to open the window
    window,     \* events the open window has had, Closed without one
    listeners,  \* drop.Emmiter's listeners
    emitted,    \* goroutines that emit an event, by event
    moving,     \* "begin" listeners that move the mouse, with the button down
    drops       \* calls of DropFiles

tables == <<held, keyboard>>
inputVars == <<host, tables, ticker, at, job>>
dropVars == <<dropping, opening, window, listeners, emitted, moving, drops>>
desktopVars == <<desk, implicit, inputVars, dropVars>>

Closed == Len(DropEvents) + 1

\* A code in the tables: seconds since the time kept in them and, as history,
\* since it was pressed; and for whom, NoClient for codes that need not go when
\* the host does (see Press).
Up == [down |-> FALSE, age |-> 0, since |-> 0, owner |-> NoClient]
Down(owner) == [down |-> TRUE, age |-> 0, since |-> 0, owner |-> owner]

Pressed == {c \in Codes : held[c].down}

Idle == [op |-> "none", codes |-> <<>>]

-----------------------------------------------------------------------------
(* pkg/xorg/xorg.c: keysyms and keycodes                                    *)

Keycodes == DOMAIN Layout

Level == IF \E n \in keyboard.down : keyboard.makes[n][1] = Shift THEN 2 ELSE 1

\* XkbKeysymToKeycode: the first keycode that makes k as the modifiers are, or 0.
KeysymToKeycode(k, level) ==
    LET Making == {n \in Keycodes : keyboard.makes[n] # <<>>
                                       /\ keyboard.makes[n][level] = k}
    IN IF Making = {} THEN 0 ELSE CHOOSE n \in Making : \A o \in Making : n <= o

\* The last keycode that makes nothing is mapped to a keysym that no keycode
\* makes, for good.
FreeKeycode ==
    LET Free == {n \in Keycodes : keyboard.makes[n] = <<>>}
    IN IF Free = {} THEN 0 ELSE CHOOSE n \in Free : \A o \in Free : o <= n

\* XKey of a key that goes down: its keycode is kept.  Without one, nothing
\* happens.
XKeyDown(k) ==
    LET known == KeysymToKeycode(k, Level)
        code == IF known # 0 THEN known ELSE FreeKeycode
    IN keyboard' =
          [makes |-> IF known # 0 \/ code = 0 THEN keyboard.makes
                     ELSE [keyboard.makes EXCEPT ![code] = NewKey[k]],
           down |-> keyboard.down \cup ({code} \ {0}),
           pressedAs |-> [keyboard.pressedAs EXCEPT ![k] = code]]

\* XKey of keys that go up, one by one in any order: of each the keycode that
\* was kept, or else what makes it by then, before or after Shift is up.  None
\* is mapped for it: none was free when it was pressed.
XKeysUp(ks) ==
    \E level \in [ks -> {Level} \cup {1 : k \in ks \cap {Shift}}] :
       keyboard' =
          [keyboard EXCEPT
              !.down = @ \ {IF keyboard.pressedAs[k] # 0 THEN keyboard.pressedAs[k]
                            ELSE KeysymToKeycode(k, level[k]) : k \in ks},
              !.pressedAs = [k \in Keys |-> IF k \in ks THEN 0 ELSE @[k]]]

-----------------------------------------------------------------------------
(* pkg/xorg and pkg/xinput: each call is atomic by a mutex                  *)

\* A host that is about to be cleared has had its keys released.
Clearing == \E t \in Callers : at[t] = "clear"

\* What is pressed for s belongs to s if s is the host and not on its way out.
For(s) == IF s = host /\ ~Clearing THEN s ELSE NoClient

PressDown(c, s) ==
    /\ held' = [held EXCEPT ![c] = Down(For(s))]
    /\ IF c \in Keys THEN XKeyDown(c) ELSE UNCHANGED keyboard

\* mutant of Press: a code that is down has its time taken again
PressAgain(c, s) ==
    IF held[c].down THEN held' = [held EXCEPT ![c].age = 0] /\ UNCHANGED keyboard
    ELSE PressDown(c, s)

\* KeyDown, ButtonDown and TouchBegin refuse a code that is down, without
\* another look at the time.
Press(c, s) == IF held[c].down THEN UNCHANGED tables ELSE PressDown(c, s)

\* KeyUp, ButtonUp and TouchEnd do nothing to a code that is not down.
Release(codes) ==
    /\ held' = [c \in Codes |-> IF c \in codes THEN Up ELSE held[c]]
    /\ XKeysUp({k \in codes \cap Keys : held[k].down})

\* TouchUpdate takes the time again.
Touch(c) ==
    /\ held' = IF held[c].down
               THEN [held EXCEPT ![c].age = 0, ![c].since = 0] ELSE held
    /\ UNCHANGED keyboard

\* ResetKeys releases keys and buttons, and no touches.
ResetKeys == Release(Codes \ Touches)

\* CheckKeys and Debounce release what is older than d seconds.  Of a code
\* pressed in the second before the ticker it cannot be said which one it is.
Expire(codes, d) ==
    \E exact \in SUBSET {c \in codes : held[c].down /\ held[c].age = d} :
        Release(exact \cup {c \in codes : held[c].down /\ held[c].age > d})

-----------------------------------------------------------------------------
(* The ticker of the desktop manager                                        *)

\* A second passes: the ticker has done its work of the second before.
Second ==
    /\ ticker = "idle" /\ ticker' = "keys"
    /\ held' = [c \in Codes |->
                   IF held[c].down
                   THEN [held[c] EXCEPT !.age = @ + 1, !.since = @ + 1]
                   ELSE Up]
    /\ UNCHANGED <<host, keyboard, at, job, dropVars>>

CheckKeys ==
    /\ ticker = "keys" /\ ticker' = "touches"
    /\ Expire(Keys \cup {Button}, Hold)
    /\ UNCHANGED <<host, at, job, dropVars>>

Debounce ==
    /\ ticker = "touches" /\ ticker' = "idle"
    /\ Expire(Touches, Hold)
    /\ UNCHANGED <<host, at, job, dropVars>>

-----------------------------------------------------------------------------
(* Control                                                                  *)

Goto(t, step, j) == at' = [at EXCEPT ![t] = step] /\ job' = [job EXCEPT ![t] = j]
Done(t) == Goto(t, "idle", Idle)

\* SetHost, which does not look at the keys.
SetHost(h) ==
    /\ host' = h
    /\ held' = [c \in Codes |->
                   IF h = host THEN held[c] ELSE [held[c] EXCEPT !.owner = NoClient]]

\* The messages of a client: what they do and to which codes.
Jobs == [op : {"down", "up"}, codes : {<<c>> : c \in desk.codes}]
          \cup [op : {"update"}, codes : {<<c>> : c \in desk.codes \cap Touches}]
          \cup [op : {"press"}, codes : desk.presses]

\* The handlers of the websocket look whether the client is the host or may
\* become it,
ControlRequest(t, j) ==
    /\ t[1] = "websocket" /\ at[t] = "idle"
    /\ \/ host = Client(t) /\ Goto(t, "use", j)
       \/ /\ host # Client(t) /\ (implicit \/ host = NoClient)
          /\ Goto(t, "become", j)
    /\ UNCHANGED <<host, tables, ticker, dropVars>>

\* and make it the host, whoever is by now.
BecomeHost(t) ==
    /\ at[t] = "become"
    /\ SetHost(Client(t))
    /\ Goto(t, "use", job[t])
    /\ UNCHANGED <<keyboard, ticker, dropVars>>

\* The data channel only looks, and has no messages that press and release.
ReadIsHost(t, j) ==
    /\ t[1] = "datachannel" /\ at[t] = "idle"
    /\ j.op # "press"
    /\ host = Client(t)
    /\ Goto(t, "use", j)
    /\ UNCHANGED <<host, tables, ticker, dropVars>>

\* Touches wait for desktop.mu.
UseCode(t) ==
    LET c == job[t].codes[1] IN
    /\ at[t] = "use" /\ job[t].op # "press"
    /\ c \in Touches => dropping = "idle"
    /\ \/ job[t].op = "down" /\ Press(c, Client(t))
       \/ job[t].op = "up" /\ Release({c})
       \/ job[t].op = "update" /\ Touch(c)
    /\ Done(t)
    /\ UNCHANGED <<host, ticker, dropVars>>

\* KeyPress and ButtonPress reset the keys, press theirs one by one
BeginPress(t) ==
    /\ at[t] = "use" /\ job[t].op = "press"
    /\ ResetKeys
    /\ Goto(t, "press", job[t])
    /\ UNCHANGED <<host, ticker, dropVars>>

PressNext(t) ==
    LET c == Head(job[t].codes) IN
    /\ at[t] = "press"
    /\ Press(c, Client(t))
    /\ IF held[c].down \/ Len(job[t].codes) = 1
       THEN Goto(t, "unpress", Idle)
       ELSE Goto(t, "press", [op |-> "press", codes |-> Tail(job[t].codes)])
    /\ UNCHANGED <<host, ticker, dropVars>>

\* and reset them again.
EndPress(t) ==
    /\ at[t] = "unpress"
    /\ ResetKeys
    /\ Done(t)
    /\ UNCHANGED <<host, ticker, dropVars>>

\* control/release, its REST form, and the disconnection of the host.
ControlRelease(t) ==
    /\ t[1] = "websocket" /\ at[t] = "idle"
    /\ host = Client(t)
    /\ Goto(t, "reset", Idle)
    /\ UNCHANGED <<host, tables, ticker, dropVars>>

\* The administrator's reset.
ControlReset ==
    /\ at[Admin] = "idle" /\ host # NoClient
    /\ Goto(Admin, "reset", Idle)
    /\ UNCHANGED <<host, tables, ticker, dropVars>>

\* mutant of ReleaseKeys: the keys are left to the ticker
ReleaseNothing(t) ==
    /\ at[t] = "reset"
    /\ Goto(t, "clear", Idle)
    /\ UNCHANGED <<host, tables, ticker, dropVars>>

\* The keys are released first,
ReleaseKeys(t) ==
    /\ at[t] = "reset"
    /\ ResetKeys
    /\ Goto(t, "clear", Idle)
    /\ UNCHANGED <<host, ticker, dropVars>>

\* and then whoever is host by now is host no more.
ClearHost(t) ==
    /\ at[t] = "clear"
    /\ host' = NoClient
    /\ Done(t)
    /\ UNCHANGED <<tables, ticker, dropVars>>

\* Take and give, a changed profile and changed settings leave the keys alone.
ControlGive ==
    /\ at[Admin] = "idle"
    /\ \E h \in {Client(t) : t \in desk.callers} \cup {NoClient} :
          h # host /\ SetHost(h)
    /\ UNCHANGED <<keyboard, ticker, at, job, dropVars>>

-----------------------------------------------------------------------------
(* Dropping files                                                           *)

\* DropFiles takes the mutex and replaces the listeners,
DropFiles ==
    /\ dropping = "idle" /\ drops < desk.drops
    /\ drops' = drops + 1
    /\ listeners' = Listening
    /\ dropping' = "reset"
    /\ UNCHANGED <<inputVars, opening, window, emitted, moving>>

\* releases the keys and starts a goroutine that opens the window,
DropResets ==
    /\ dropping = "reset" /\ dropping' = "wait"
    /\ ResetKeys
    /\ opening' = opening + 1
    /\ UNCHANGED <<host, ticker, at, job, window, listeners, emitted, moving,
                   drops>>

\* one at a time, which stays until its window is destroyed.
OpenWindow ==
    /\ opening > 0 /\ window = Closed
    /\ opening' = opening - 1
    /\ window' = 0
    /\ UNCHANGED <<inputVars, dropping, listeners, emitted, moving, drops>>

\* After a second the window is destroyed, if there is one.
DropTimesOut ==
    /\ dropping = "wait" /\ dropping' = "idle"
    /\ window' = Closed
    /\ UNCHANGED <<inputVars, opening, listeners, emitted, moving, drops>>

\* The window has its next event.  The button must be down for a drag to begin
\* and up for it to end, which closes the window.  Each event is emitted by a
\* goroutine of its own.
WindowEvent ==
    /\ window < Len(DropEvents)
    /\ LET e == DropEvents[window + 1] IN
          /\ e = "begin" => held[Button].down
          /\ e = "finish" => ~held[Button].down
          /\ emitted' = [emitted EXCEPT ![e] = @ + 1]
          /\ window' = IF e = "finish" THEN Closed ELSE window + 1
    /\ UNCHANGED <<inputVars, dropping, opening, listeners, moving, drops>>

\* A listener is called once, whenever its event is emitted: the button is
\* pressed, the mouse is moved, and the end is sent to DropFiles, which may have to
\* get there or may have given up.
EmitDrop(e) ==
    /\ emitted[e] > 0
    /\ e = "finish" => dropping # "reset"
    /\ emitted' = [emitted EXCEPT ![e] = @ - 1]
    /\ listeners' = listeners \ {e}
    /\ IF e = "cursor-enter" /\ e \in listeners
       THEN Press(Button, NoClient) ELSE UNCHANGED tables
    /\ moving' = IF e = "begin" /\ e \in listeners THEN moving + 1 ELSE moving
    /\ dropping' = IF e = "finish" /\ e \in listeners /\ dropping = "wait"
                   THEN "idle" ELSE dropping
    /\ UNCHANGED <<host, ticker, at, job, opening, window, drops>>

\* After its moves, with pauses between them, the listener of "begin" releases
\* the button.
DropReleases ==
    /\ moving > 0 /\ moving' = moving - 1
    /\ Release({Button})
    /\ UNCHANGED <<host, ticker, at, job, dropping, opening, window, listeners,
                   emitted, drops>>

-----------------------------------------------------------------------------
DesktopInit ==
    /\ desk \in DesktopScenes /\ implicit \in BOOLEAN
    /\ host = NoClient
    /\ held = [c \in Codes |-> Up]
    /\ keyboard = [makes |-> Layout, down |-> {},
                   pressedAs |-> [k \in Keys |-> 0]]
    /\ ticker = "idle"
    /\ at = [t \in Callers |-> "idle"] /\ job = [t \in Callers |-> Idle]
    /\ dropping = "idle" /\ opening = 0 /\ window = Closed
    /\ listeners = {} /\ emitted = [e \in Listening |-> 0]
    /\ moving = 0 /\ drops = 0

DesktopNext ==
    /\ UNCHANGED <<desk, implicit>>
    /\ \/ Second \/ CheckKeys \/ Debounce
       \/ \E t \in desk.callers :
             \/ \E j \in Jobs : ControlRequest(t, j) \/ ReadIsHost(t, j)
             \/ BecomeHost(t) \/ UseCode(t) \/ ControlRelease(t)
             \/ BeginPress(t) \/ PressNext(t) \/ EndPress(t)
       \/ \E t \in Callers : ReleaseKeys(t) \/ ClearHost(t)
       \/ ControlReset \/ ControlGive
       \/ DropFiles \/ DropResets \/ OpenWindow \/ DropTimesOut \/ WindowEvent
       \/ \E e \in Listening : EmitDrop(e)
       \/ DropReleases

DesktopSpec == DesktopInit /\ [][DesktopNext]_desktopVars

-----------------------------------------------------------------------------
DesktopTypeOK ==
    /\ desk \in DesktopScenes /\ implicit \in BOOLEAN
    /\ host \in Clients \cup {NoClient}
    /\ held \in [Codes -> [down : BOOLEAN, age : 0 .. Hold + 1,
                           since : Nat, owner : Clients \cup {NoClient}]]
    /\ keyboard.makes \in [Keycodes -> Seq(Keys)]
    /\ keyboard.down \subseteq Keycodes
    /\ keyboard.pressedAs \in [Keys -> Keycodes \cup {0}]
    /\ ticker \in {"idle", "keys", "touches"}
    /\ at \in [Callers -> {"idle", "become", "use", "press", "unpress", "reset",
                           "clear"}]
    /\ DOMAIN job = Callers
    /\ dropping \in {"idle", "reset", "wait"}
    /\ opening \in 0 .. MaxDrops /\ window \in 0 .. Closed
    /\ listeners \subseteq Listening
    /\ emitted \in [Listening -> Nat] /\ moving \in 0 .. MaxDrops
    /\ drops \in 0 .. MaxDrops

\* Nothing is down for more than a second longer than debounceDuration, however
\* often a client says that it is, whoever forgot it and whatever a late event
\* of a drop pressed; of a touch, nothing without an update.  And no key of the
\* display is down that does not go with a key of the tables, whatever Shift or
\* a new keycode made of its keysym since it was pressed.
KeysEnd ==
    /\ \A c \in Codes : held[c].since <= Hold + 1
    /\ \A n \in keyboard.down :
          \E k \in Keys \cap Pressed : keyboard.pressedAs[k] = n

\* When the host releases the control, leaves or is reset, its keys and buttons
\* go with it: what stays down was pressed by a message that had been found to
\* come from the host before, by a drop, or for a host whose control was taken,
\* given away or withdrawn without a reset.  Touches stay.
KeysAreHosts == \A c \in Pressed \ Touches : held[c].owner \in {host, NoClient}
=============================================================================
