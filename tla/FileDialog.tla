------------------------------ MODULE FileDialog ------------------------------
(***************************************************************************)
(* The file chooser dialog of the desktop: pkg/xevent sees it appear and   *)
(* go, internal/websocket/filechooserdialog.go keeps the session that was  *)
(* the host by then in activeSession, which the X event loop writes and    *)
(* the goroutines of all connections read without a lock, and              *)
(* internal/desktop closes it with the keyboard.                           *)
(***************************************************************************)
EXTENDS Naturals, Sequences, FiniteSets

CONSTANTS Viewers,      \* sessions
          MaxDialogs,   \* bound: dialogs that applications open
          MaxEvents,    \* bound: events of moved windows that wait
          Attempts,     \* of CloseFileChooserDialog, 5 in the code
          NoActive, NoViewer

ASSUME DialogAssumption ==
    /\ MaxDialogs \in Nat /\ MaxEvents \in Nat /\ Attempts \in Nat \ {0}
    /\ NoViewer \notin Viewers
    /\ NoActive \notin [who : Viewers, of : 1 .. MaxDialogs]

VARIABLES
    opened,     \* dialogs that applications have opened so far
    dialogs,    \* those on the display
    xevents,    \* what the event loop has not seen yet
    eventLoop,  \* where the event loop is
    known,      \* fileChooserDialogWindow, 0 if there is none
    active,     \* activeSession, and as history of which dialog
    casts,      \* goroutines that broadcast FILE_CHOOSER_DIALOG_OPENED
    presence,   \* where each session's connection is
    tries,      \* attempts that its CloseFileChooserDialog has left
    heard,      \* history: dialogs a session was told of since it connected
    excused     \* history: dialogs whose owner had left before activeSession
                \* was stored, or that did not go when it was told to

dialogWindows == <<opened, dialogs>>
loopVars == <<xevents, eventLoop, known>>
dialogVars == <<dialogWindows, loopVars, active, casts, presence, tries,
                heard, excused>>

Connected(s) == presence[s] \in {"connect", "tell", "on", "lost"}

-----------------------------------------------------------------------------
(* The desktop                                                              *)

\* A window is unmapped.
Unmap(w) == /\ dialogs' = dialogs \ {w}
            /\ xevents' = Append(xevents, <<"unmap", w>>)

\* An application opens a dialog; more than one may be open.
OpenDialog ==
    /\ opened < MaxDialogs /\ opened' = opened + 1
    /\ dialogs' = dialogs \cup {opened + 1}
    /\ xevents' = Append(xevents, <<"configure", opened + 1>>)
    /\ UNCHANGED <<eventLoop, known, active, casts, presence, tries,
                   heard, excused>>

\* A window is moved or changes its size.
ConfigureDialog(w) ==
    /\ w \in dialogs /\ Len(xevents) < MaxEvents
    /\ \A i \in DOMAIN xevents : xevents[i] # <<"configure", w>>
    /\ xevents' = Append(xevents, <<"configure", w>>)
    /\ UNCHANGED <<dialogWindows, eventLoop, known, active, casts,
                   presence, tries, heard, excused>>

\* A user closes it, or a request does, which uploads files to the dialog that
\* is open or gives it up.
UploadDialog(w) ==
    /\ w \in dialogs
    /\ Unmap(w)
    /\ UNCHANGED <<opened, eventLoop, known, active, casts, presence,
                   tries, heard, excused>>

-----------------------------------------------------------------------------
(* The event loop, which calls the listeners                                *)

Idling == [at |-> "next", host |-> NoViewer]

\* A dialog is opened by the first event about it, while no other one is known.
NextEvent ==
    LET kind == Head(xevents)[1]
        w == Head(xevents)[2]
    IN
    /\ eventLoop = Idling /\ xevents # <<>>
    /\ xevents' = Tail(xevents)
    /\ \/ /\ kind = "configure" /\ known = 0
          /\ known' = w /\ eventLoop' = [Idling EXCEPT !.at = "opened"]
       \/ /\ kind = "unmap" /\ known = w
          /\ known' = 0 /\ eventLoop' = [Idling EXCEPT !.at = "closed"]
       \/ /\ kind = "configure" => known # 0
          /\ kind = "unmap" => known # w
          /\ UNCHANGED <<known, eventLoop>>
    /\ UNCHANGED <<dialogWindows, active, casts, presence, tries,
                   heard, excused>>

\* The host is any session or none (see RoomControl).  Without one the dialog
\* is closed by a goroutine (see UploadDialog).
FindOwner(h) ==
    /\ eventLoop.at = "opened"
    /\ eventLoop' = IF h = NoViewer THEN Idling ELSE [at |-> "owned", host |-> h]
    /\ UNCHANGED <<dialogWindows, xevents, known, active, casts, presence,
                   tries, heard, excused>>

\* mutant of StoreOwner: the dialog is announced before its owner is stored
StoreOwnerLast ==
    /\ \/ /\ eventLoop.at = "owned"
          /\ casts' = casts \cup {[of |-> known, to |-> Viewers]}
          /\ eventLoop' = [eventLoop EXCEPT !.at = "announced"]
          /\ UNCHANGED <<active, excused>>
       \/ /\ eventLoop.at = "announced"
          /\ active' = [who |-> eventLoop.host, of |-> known]
          /\ eventLoop' = Idling /\ UNCHANGED <<casts, excused>>
    /\ UNCHANGED <<dialogWindows, xevents, known, presence, tries, heard>>

\* The host is stored, and a goroutine tells everyone.
StoreOwner ==
    /\ eventLoop.at = "owned"
    /\ active' = [who |-> eventLoop.host, of |-> known]
    /\ casts' = casts \cup {[of |-> known, to |-> Viewers]}
    /\ excused' = IF presence[eventLoop.host] \in {"close", "off"}
                  THEN excused \cup {known} ELSE excused
    /\ eventLoop' = Idling
    /\ UNCHANGED <<dialogWindows, xevents, known, presence, tries, heard>>

ForgetOwner ==
    /\ eventLoop.at = "closed"
    /\ active' = NoActive
    /\ eventLoop' = Idling
    /\ UNCHANGED <<dialogWindows, xevents, known, casts, presence,
                   tries, heard, excused>>

\* Broadcast looks at one session after the other.
BroadcastTo(b, s) ==
    /\ s \in b.to
    /\ casts' = (casts \ {b}) \cup
                    (IF b.to = {s} THEN {} ELSE {[b EXCEPT !.to = @ \ {s}]})
    /\ heard' = IF Connected(s) THEN [heard EXCEPT ![s] = @ \cup {b.of}] ELSE heard
    /\ UNCHANGED <<dialogWindows, loopVars, active, presence, tries, excused>>

-----------------------------------------------------------------------------
(* The listeners of connections                                             *)

At(s, place) == presence' = [presence EXCEPT ![s] = place]

\* A session is connected before its listeners are called.
ConnectViewer(s) ==
    /\ presence[s] = "off" /\ At(s, "connect")
    /\ heard' = [heard EXCEPT ![s] = {}]
    /\ UNCHANGED <<dialogWindows, loopVars, active, casts, tries, excused>>

LookForOwner(s) ==
    /\ presence[s] = "connect"
    /\ At(s, IF active = NoActive THEN "on" ELSE "tell")
    /\ UNCHANGED <<dialogWindows, loopVars, active, casts, tries, heard, excused>>

\* The owner is read again.  If it is nil by now the goroutine panics: the
\* session stays connected, and nobody reads what it sends any more.
TellViewer(s) ==
    /\ presence[s] = "tell"
    /\ IF active = NoActive THEN At(s, "lost") /\ UNCHANGED heard
       ELSE At(s, "on") /\ heard' = [heard EXCEPT ![s] = @ \cup {active.of}]
    /\ UNCHANGED <<dialogWindows, loopVars, active, casts, tries, excused>>

\* The owner disconnects.
OwnerLeaves(s) ==
    /\ presence[s] = "on"
    /\ IF active # NoActive /\ active.who = s
       THEN At(s, "close") /\ tries' = [tries EXCEPT ![s] = Attempts]
       ELSE At(s, "off") /\ UNCHANGED tries
    /\ UNCHANGED <<dialogWindows, loopVars, active, casts, heard, excused>>

\* CloseFileChooserDialog presses Alt and F4, which may close a dialog, until
\* there is none or five attempts were made.
CloseDialog(s) ==
    /\ presence[s] = "close"
    /\ \/ /\ dialogs = {} /\ At(s, "off") /\ tries' = [tries EXCEPT ![s] = 0]
          /\ UNCHANGED <<dialogs, xevents, excused>>
       \/ /\ dialogs # {}
          /\ tries' = [tries EXCEPT ![s] = @ - 1]
          /\ \/ \E w \in dialogs : Unmap(w)
             \/ UNCHANGED <<dialogs, xevents>>
          /\ IF tries[s] > 1 THEN UNCHANGED <<presence, excused>>
             ELSE At(s, "off") /\ excused' = excused \cup dialogs'
    /\ UNCHANGED <<opened, eventLoop, known, active, casts, heard>>

-----------------------------------------------------------------------------
DialogInit ==
    /\ opened = 0 /\ dialogs = {}
    /\ xevents = <<>> /\ eventLoop = Idling /\ known = 0
    /\ active = NoActive /\ casts = {}
    /\ presence = [s \in Viewers |-> "off"]
    /\ tries = [s \in Viewers |-> 0]
    /\ heard = [s \in Viewers |-> {}] /\ excused = {}

DialogNext ==
    \/ OpenDialog
    \/ \E w \in dialogs : ConfigureDialog(w) \/ UploadDialog(w)
    \/ \E h \in Viewers \cup {NoViewer} : FindOwner(h)
    \/ NextEvent \/ StoreOwner \/ ForgetOwner
    \/ \E b \in casts, s \in Viewers : BroadcastTo(b, s)
    \/ \E s \in Viewers :
          \/ ConnectViewer(s) \/ LookForOwner(s) \/ TellViewer(s)
          \/ OwnerLeaves(s) \/ CloseDialog(s)

DialogSpec == DialogInit /\ [][DialogNext]_dialogVars

-----------------------------------------------------------------------------
DialogTypeOK ==
    /\ opened \in 0 .. MaxDialogs /\ dialogs \subseteq 1 .. opened
    /\ xevents \in Seq({"configure", "unmap"} \X (1 .. MaxDialogs))
    /\ eventLoop.at \in {"next", "opened", "owned", "closed"}
    /\ eventLoop.host \in Viewers \cup {NoViewer}
    /\ known \in 0 .. MaxDialogs
    /\ active \in [who : Viewers, of : 1 .. MaxDialogs] \cup {NoActive}
    /\ casts \subseteq [of : 1 .. MaxDialogs, to : SUBSET Viewers]
    /\ presence \in [Viewers -> {"off", "connect", "tell", "on", "lost",
                                 "close"}]
    /\ tries \in [Viewers -> 0 .. Attempts]
    /\ heard \in [Viewers -> SUBSET (1 .. MaxDialogs)]
    /\ excused \subseteq 1 .. MaxDialogs

\* The event loop has no work, and no broadcast is under way.
Settled == eventLoop = Idling /\ xevents = <<>> /\ casts = {}

\* Whoever is connected while a dialog has an owner was told so, by the broadcast
\* or when it connected, whichever order the two goroutines took; and a dialog
\* does not outlive the connection of its owner, but if the owner had left
\* before it was stored, or the dialog did not go in five attempts.
DialogIsTold ==
    (Settled /\ active # NoActive) =>
        /\ \A s \in Viewers :
              presence[s] \in {"on", "lost"} => active.of \in heard[s]
        /\ presence[active.who] = "off" => active.of \in excused
=============================================================================
