------------------------------- MODULE MCService -------------------------------
(* Small instances of the parts of the server around a session.            *)
EXTENDS Service, TLC

CONSTANTS m1, m2, p1, p2, a, b, k1, k2, k3, t1, v1, v2, x, y, z

AllParts == {"accounts", "desktop", "dialog", "connections", "plugins"}

\* One member with two profiles, of a provider that keeps members; with the file,
\* an update takes the right to log in away, and an insert may give it again.
\* Two members of a provider that does not keep them.
ThreeProviders ==
    {[provider |-> "file", ids |-> {m1}, profiles |-> {p1, p2},
      updates |-> {p2}],
     [provider |-> "object", ids |-> {m1}, profiles |-> {p1, p2},
      updates |-> {}],
     [provider |-> "multiuser", ids |-> {m1, m2}, profiles |-> {p1},
      updates |-> {}]}

OneConfigured == [m \in Members |-> IF m = m1 THEN p1 ELSE NoEntry]

Socket(c) == <<"websocket", c>>
Channel(c) == <<"datachannel", c>>

\* Two clients with one key; a client who presses two keys at a time, and another
\* with Shift and a letter; the mouse button while files are dropped; files that are
\* dropped twice; a touch while files are dropped.
FiveScenes ==
    {[callers |-> {Socket(a), Socket(b), Channel(a)}, codes |-> {k1},
      presses |-> {}, drops |-> 0],
     [callers |-> {Socket(a), Channel(b)}, codes |-> {k1, k2},
      presses |-> {<<k1, k2>>}, drops |-> 0],
     [callers |-> {Channel(a)}, codes |-> {Button}, presses |-> {}, drops |-> 1],
     [callers |-> {}, codes |-> {}, presses |-> {}, drops |-> 2],
     [callers |-> {Socket(a)}, codes |-> {t1}, presses |-> {}, drops |-> 1]}

\* Viewers differ in nothing.
SameViewers == Permutations(Viewers)

\* Of three keycodes one is Shift, one is a letter, and one is free.
ThreeKeycodes == <<<<k1, k1>>, <<k2, k3>>, <<>>>>
ShiftOrLetter == [k \in Keys |-> IF k = k1 THEN <<k1, k1>> ELSE <<k2, k3>>]

\* What each of three plugins may depend on: nothing, one, two, itself.
OneOrTwo == {<<>>, <<x>>, <<y>>, <<z>>, <<x, y>>, <<y, z>>, <<z, x>>}
=============================================================================
