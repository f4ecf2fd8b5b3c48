------------------------------ MODULE PeerCursors ------------------------------
(***************************************************************************)
(* The image of the cursor: cursor/image.go with its cache and its current *)
(* entry, the data channels of the peers that listen to it (OnOpen and     *)
(* OnClose of WebRTCManagerCtx.CreatePeer, SendCursorImage), and X, which  *)
(* names a cursor by a serial and may have moved on when it is asked for   *)
(* the image.                                                              *)
(*                                                                         *)
(* An image is represented by the serial it was fetched with.              *)
(***************************************************************************)
EXTENDS Naturals, Sequences, FiniteSets

CONSTANTS Channels,     \* data channels of peers
          Serials,      \* cursors of X
          MaxSerial,    \* larger serials are not cached
          MaxChanges,   \* bound: events that wait to be handled
          NoImage

ASSUME CursorsAssumption ==
    /\ Serials \subseteq Nat /\ Serials # {}
    /\ {MaxSerial, MaxChanges} \subseteq Nat
    /\ NoImage \notin Serials

VARIABLES
    shown,      \* the cursor X shows
    events,     \* cursor events X has sent
    emitter,    \* where the OnCursorChanged listener is, with which image
    cache,      \* manager.cache: the image it has for a serial
    current,    \* manager.current
    listeners,  \* manager.listeners
    channel,    \* where each channel's OnOpen is, with which image
    seen,       \* the image each client was sent last
    behind,     \* history: clients sent an image that was no longer current
    undone      \* history: a first fetch replaced an image that an event stored

cursorVars == <<shown, events, emitter, cache, current, listeners, channel,
                seen, behind, undone>>

Images == Serials \cup {NoImage}

CursorsTypeOK ==
    /\ shown \in Serials
    /\ events \in Seq(Serials) /\ Len(events) <= MaxChanges
    /\ emitter \in [pc : {"idle", "store", "send"}, image : Images]
    /\ cache \in [Serials -> Images]
    /\ current \in Images
    /\ listeners \subseteq Channels
    /\ channel \in [Channels -> [pc : {"no", "get", "keep", "send", "open"},
                                 image : Images]]
    /\ seen \in [Channels -> Images]
    /\ behind \subseteq Channels
    /\ undone \in BOOLEAN

CursorsInit ==
    /\ shown \in Serials
    /\ events = <<>>
    /\ emitter = [pc |-> "idle", image |-> NoImage]
    /\ cache = [s \in Serials |-> NoImage]
    /\ current = NoImage
    /\ listeners = {}
    /\ channel = [c \in Channels |-> [pc |-> "no", image |-> NoImage]]
    /\ seen = [c \in Channels |-> NoImage]
    /\ behind = {}
    /\ undone = FALSE

\* X shows another cursor and sends an event with its serial.
ChangeCursor(s) ==
    /\ s # shown /\ Len(events) < MaxChanges
    /\ shown' = s
    /\ events' = Append(events, s)
    /\ UNCHANGED <<emitter, cache, current, listeners, channel, seen, behind,
                   undone>>

Cached(s) == s # 0 /\ s <= MaxSerial

\* fetchEntry asks X for the image that it shows by now.
Fetched == shown

\* mutant of GetCached: the image is kept under the serial that was asked for
CacheAsAsked ==
    /\ emitter.pc = "idle" /\ events # <<>>
    /\ LET s == Head(events)
           image == IF Cached(s) /\ cache[s] # NoImage THEN cache[s]
                    ELSE Fetched
       IN /\ emitter' = [pc |-> "store", image |-> image]
          /\ cache' = IF Cached(s) THEN [cache EXCEPT ![s] = image] ELSE cache
    /\ events' = Tail(events)
    /\ UNCHANGED <<shown, current, listeners, channel, seen, behind, undone>>

\* getCached: the image that is fetched is kept under the serial it comes with.
GetCached ==
    /\ emitter.pc = "idle" /\ events # <<>>
    /\ LET s == Head(events)
           hit == Cached(s) /\ cache[s] # NoImage
       IN /\ emitter' = [pc |-> "store",
                         image |-> IF hit THEN cache[s] ELSE Fetched]
          /\ cache' = IF Cached(s) /\ ~hit
                      THEN [cache EXCEPT ![Fetched] = Fetched] ELSE cache
    /\ events' = Tail(events)
    /\ UNCHANGED <<shown, current, listeners, channel, seen, behind, undone>>

StoreCurrent ==
    /\ emitter.pc = "store"
    /\ current' = emitter.image
    /\ emitter' = [emitter EXCEPT !.pc = "send"]
    /\ undone' = FALSE
    /\ UNCHANGED <<shown, events, cache, listeners, channel, seen, behind>>

\* Each listener is sent the image, under listenersMu.
SendToListeners ==
    /\ emitter.pc = "send"
    /\ seen' = [c \in Channels |-> IF c \in listeners THEN emitter.image
                                   ELSE seen[c]]
    /\ behind' = behind \ listeners
    /\ emitter' = [emitter EXCEPT !.pc = "idle"]
    /\ UNCHANGED <<shown, events, cache, current, listeners, channel, undone>>

\* OnOpen: the peer listens, ...
OnOpen(c) ==
    /\ channel[c].pc = "no"
    /\ listeners' = listeners \cup {c}
    /\ channel' = [channel EXCEPT ![c].pc = "get"]
    /\ UNCHANGED <<shown, events, emitter, cache, current, seen, behind, undone>>

\* ... GetCurrent has an image or fetches one, ...
GetCurrent(c) ==
    /\ channel[c].pc = "get"
    /\ channel' = [channel EXCEPT ![c] =
           IF current # NoImage THEN [pc |-> "send", image |-> current]
           ELSE [pc |-> "keep", image |-> Fetched]]
    /\ UNCHANGED <<shown, events, emitter, cache, current, listeners, seen,
                   behind, undone>>

\* ... which becomes the current one, ...
KeepFetched(c) ==
    /\ channel[c].pc = "keep"
    /\ current' = channel[c].image
    /\ undone' = (undone \/ current # NoImage)
    /\ channel' = [channel EXCEPT ![c].pc = "send"]
    /\ UNCHANGED <<shown, events, emitter, cache, listeners, seen, behind>>

\* ... and the client is sent it, whatever it was sent since it listens.
SendInitial(c) ==
    /\ channel[c].pc = "send"
    /\ seen' = [seen EXCEPT ![c] = channel[c].image]
    /\ behind' = IF channel[c].image = current THEN behind \ {c}
                 ELSE behind \cup {c}
    /\ channel' = [channel EXCEPT ![c].pc = "open"]
    /\ UNCHANGED <<shown, events, emitter, cache, current, listeners, undone>>

OnClose(c) ==
    /\ channel[c].pc = "open"
    /\ listeners' = listeners \ {c}
    /\ behind' = behind \ {c}
    /\ channel' = [channel EXCEPT ![c] = [pc |-> "no", image |-> NoImage]]
    /\ seen' = [seen EXCEPT ![c] = NoImage]
    /\ UNCHANGED <<shown, events, emitter, cache, current, undone>>

CursorsNext ==
    \/ \E s \in Serials : ChangeCursor(s)
    \/ GetCached \/ StoreCurrent \/ SendToListeners
    \/ \E c \in Channels : OnOpen(c) \/ GetCurrent(c) \/ KeepFetched(c)
                           \/ SendInitial(c) \/ OnClose(c)

-----------------------------------------------------------------------------
\* When all events are handled, each client has the cursor that X shows, though
\* the image is fetched later than the event and serials come back.  The
\* exceptions are a client whose first image was read before a change that it
\* was then sent (CreatePeer, OnOpen), and all when the very first fetch ended
\* after the first event's (cursor/image.go, GetCurrent).
CursorShown ==
    events = <<>> /\ emitter.pc = "idle" /\ ~undone =>
        \A c \in Channels :
            channel[c].pc = "open" /\ c \notin behind => seen[c] = shown
=============================================================================
