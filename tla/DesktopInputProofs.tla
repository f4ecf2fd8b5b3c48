--------------------------- MODULE DesktopInputProofs ---------------------------
(***************************************************************************)
(* For any number of clients, keys, touches and drops, any layout of the   *)
(* keyboard and any duration: KeysEnd and KeysAreHosts of DesktopInput.    *)
(***************************************************************************)
EXTENDS DesktopInput, TLAPS

Codespace == [Codes -> [down : BOOLEAN, age : Nat, since : Nat,
                        owner : Clients \cup {NoClient}]]

\* A keysym that is released takes its keycode with it; 0 is no keycode.
KeyboardInv ==
    /\ keyboard = [makes |-> keyboard.makes, down |-> keyboard.down,
                   pressedAs |-> keyboard.pressedAs]
    /\ keyboard.pressedAs = [k \in Keys |-> keyboard.pressedAs[k]]
    /\ 0 \notin keyboard.down
    /\ \A n \in keyboard.down :
          \E k \in Keys : held[k].down /\ keyboard.pressedAs[k] = n

\* What has been down for too long is gone when the ticker has done its work; of
\* what is left, nothing was pressed again without its time.
TickerInv ==
    /\ ticker \in {"idle", "keys", "touches"}
    /\ \A c \in Codes : held[c].since = held[c].age
    /\ \A c \in Codes : held[c].down \/ held[c].age = 0
    /\ \A c \in Codes : held[c].age <= Hold + 1
    /\ ticker = "idle" => \A c \in Codes : held[c].age <= Hold
    /\ ticker = "touches" => \A c \in Codes \ Touches : held[c].age <= Hold

\* Of a host that is on its way out nothing is down but touches.
OwnerInv ==
    /\ host \in Clients \cup {NoClient}
    /\ \A c \in Codes \ Touches :
          held[c].down => held[c].owner \in {host, NoClient}
    /\ Clearing => \A c \in Codes \ Touches :
          held[c].down => held[c].owner = NoClient

TablesInv == held \in Codespace /\ KeyboardInv

Steps == {"idle", "become", "use", "press", "unpress", "reset", "clear"}

\* A goroutine that is about to use codes has some.
CallersInv ==
    /\ desk \in DesktopScenes
    /\ at \in [Callers -> Steps]
    /\ job = [t \in Callers |-> job[t]]
    /\ \A t \in Callers :
          at[t] \in {"become", "use", "press"} =>
             job[t].codes \in Seq(Codes) /\ job[t].codes # <<>>

DesktopInv == CallersInv /\ TablesInv /\ TickerInv /\ OwnerInv

-----------------------------------------------------------------------------
(***************************************************************************)
(* The operations on the tables, whoever calls them.                       *)
(***************************************************************************)
LEMMA UpFact == Up = [down |-> FALSE, age |-> 0, since |-> 0, owner |-> NoClient]
BY DEF Up

LEMMA DownFact ==
    ASSUME NEW o
    PROVE  Down(o) = [down |-> TRUE, age |-> 0, since |-> 0, owner |-> o]
BY DEF Down

LEMMA ReleaseFact ==
    ASSUME TablesInv, NEW codes \in SUBSET Codes, Release(codes)
    PROVE  /\ TablesInv'
           /\ \A c \in codes : held'[c] = Up
           /\ \A c \in Codes \ codes : held'[c] = held[c]
<1> DEFINE ks == {k \in codes \cap Keys : held[k].down}
<1>1. held' = [c \in Codes |-> IF c \in codes THEN Up ELSE held[c]]
  BY DEF Release
<1>2. held' \in Codespace
  BY <1>1, UpFact DEF TablesInv, Codespace
<1>3. /\ \A c \in codes : held'[c] = Up
      /\ \A c \in Codes \ codes : held'[c] = held[c]
  BY <1>1
<1>4. PICK level \in [ks -> {Level} \cup {1 : k \in ks \cap {Shift}}] :
         keyboard' =
          [keyboard EXCEPT
              !.down = @ \ {IF keyboard.pressedAs[k] # 0 THEN keyboard.pressedAs[k]
                            ELSE KeysymToKeycode(k, level[k]) : k \in ks},
              !.pressedAs = [k \in Keys |-> IF k \in ks THEN 0 ELSE @[k]]]
  BY DEF Release, XKeysUp
<1>5. /\ keyboard' = [makes |-> keyboard'.makes, down |-> keyboard'.down,
                      pressedAs |-> keyboard'.pressedAs]
      /\ keyboard'.pressedAs = [k \in Keys |-> IF k \in ks THEN 0
                                               ELSE keyboard.pressedAs[k]]
      /\ keyboard'.down = keyboard.down \
            {IF keyboard.pressedAs[k] # 0 THEN keyboard.pressedAs[k]
             ELSE KeysymToKeycode(k, level[k]) : k \in ks}
  BY <1>4 DEF TablesInv, KeyboardInv
<1>6. ASSUME NEW n \in keyboard'.down
      PROVE  \E k \in Keys : held'[k].down /\ keyboard'.pressedAs[k] = n
  <2>1. n \in keyboard.down /\ n # 0 BY <1>5 DEF TablesInv, KeyboardInv
  <2>2. PICK k \in Keys : held[k].down /\ keyboard.pressedAs[k] = n
    BY <2>1 DEF TablesInv, KeyboardInv
  <2>3. k \notin ks BY <1>5, <2>1, <2>2
  <2>4. k \in Codes \ codes BY <2>2, <2>3 DEF Codes
  <2>5. held'[k].down /\ keyboard'.pressedAs[k] = n
    BY <1>3, <1>5, <2>2, <2>3, <2>4
  <2> QED BY <2>5
<1>7. KeyboardInv'
  BY <1>5, <1>6 DEF TablesInv, KeyboardInv
<1> QED BY <1>2, <1>3, <1>7 DEF TablesInv

LEMMA PressFact ==
    ASSUME TablesInv, host \in Clients \cup {NoClient},
           NEW c \in Codes, NEW s \in Clients \cup {NoClient}, Press(c, s)
    PROVE  /\ TablesInv'
           /\ held'[c] = held[c] \/ held'[c] = Down(For(s))
           /\ \A d \in Codes \ {c} : held'[d] = held[d]
<1>1. CASE held[c].down
  BY <1>1 DEF Press, tables, TablesInv, KeyboardInv
<1>2. CASE ~held[c].down
  <2>1. PressDown(c, s) BY <1>2 DEF Press
  <2>2. Down(For(s)) = [down |-> TRUE, age |-> 0, since |-> 0, owner |-> For(s)]
    BY DownFact
  <2>3. For(s) \in Clients \cup {NoClient} BY DEF For
  <2>4. /\ held' \in Codespace
        /\ held'[c] = Down(For(s))
        /\ \A d \in Codes \ {c} : held'[d] = held[d]
    BY <2>1, <2>2, <2>3 DEF PressDown, TablesInv, Codespace
  <2>5. held'[c].down BY <2>2, <2>4
  <2>6. \A k \in Keys : held[k].down => k # c /\ held'[k].down
    BY <1>2, <2>4 DEF Codes
  <2>7. CASE c \notin Keys
    <3>1. keyboard' = keyboard BY <2>1, <2>7 DEF PressDown
    <3>2. KeyboardInv' BY <3>1, <2>6 DEF TablesInv, KeyboardInv
    <3> QED BY <2>4, <3>2 DEF TablesInv
  <2>8. CASE c \in Keys
    <3>1. PICK code, makes : keyboard' =
             [makes |-> makes, down |-> keyboard.down \cup ({code} \ {0}),
              pressedAs |-> [keyboard.pressedAs EXCEPT ![c] = code]]
      BY <2>1, <2>8 DEF PressDown, XKeyDown
    <3>2. /\ keyboard'.down = keyboard.down \cup ({code} \ {0})
          /\ keyboard'.pressedAs = [keyboard.pressedAs EXCEPT ![c] = code]
          /\ keyboard' = [makes |-> keyboard'.makes, down |-> keyboard'.down,
                          pressedAs |-> keyboard'.pressedAs]
      BY <3>1
    <3>3. /\ keyboard'.pressedAs[c] = code
          /\ \A k \in Keys \ {c} : keyboard'.pressedAs[k] = keyboard.pressedAs[k]
          /\ keyboard'.pressedAs = [k \in Keys |-> keyboard'.pressedAs[k]]
      BY <2>8, <3>2 DEF TablesInv, KeyboardInv
    <3>4. ASSUME NEW n \in keyboard'.down
          PROVE  \E k \in Keys : held'[k].down /\ keyboard'.pressedAs[k] = n
      <4>1. CASE n = code BY <4>1, <2>5, <2>8, <3>3
      <4>2. CASE n \in keyboard.down
        BY <4>2, <2>6, <3>3 DEF TablesInv, KeyboardInv
      <4> QED BY <3>2, <4>1, <4>2
    <3>5. 0 \notin keyboard'.down BY <3>2 DEF TablesInv, KeyboardInv
    <3> QED BY <2>4, <3>2, <3>3, <3>4, <3>5 DEF TablesInv, KeyboardInv
  <2> QED BY <2>7, <2>8
<1> QED BY <1>1, <1>2

LEMMA TouchFact ==
    ASSUME TablesInv, NEW c \in Codes, Touch(c)
    PROVE  /\ TablesInv'
           /\ \/ held'[c] = held[c]
              \/ held[c].down /\ held'[c] = Down(held[c].owner)
           /\ \A d \in Codes \ {c} : held'[d] = held[d]
<1>1. /\ held' \in Codespace
      /\ \A d \in Codes : held'[d].down = held[d].down
      /\ \/ held'[c] = held[c]
         \/ held[c].down /\ held'[c] = Down(held[c].owner)
      /\ \A d \in Codes \ {c} : held'[d] = held[d]
  BY DownFact DEF Touch, TablesInv, Codespace
<1>2. keyboard' = keyboard BY DEF Touch
<1> QED BY <1>1, <1>2 DEF TablesInv, KeyboardInv, Codes

-----------------------------------------------------------------------------
(***************************************************************************)
(* What the steps have in common.                                          *)
(***************************************************************************)
LEMMA GotoFact ==
    ASSUME CallersInv, desk' = desk, NEW t \in Callers, NEW j,
           NEW step \in Steps,
           step \in {"become", "use", "press"} =>
              j.codes \in Seq(Codes) /\ j.codes # <<>>,
           Goto(t, step, j)
    PROVE  /\ CallersInv'
           /\ step # "clear" /\ Clearing' => Clearing
<1>1. /\ at' = [at EXCEPT ![t] = step]
      /\ job' = [job EXCEPT ![t] = j]
  BY DEF Goto
<1>2. /\ at' \in [Callers -> Steps]
      /\ at'[t] = step /\ \A u \in Callers \ {t} : at'[u] = at[u]
  BY <1>1 DEF CallersInv
<1>3. /\ job' = [u \in Callers |-> job'[u]]
      /\ job'[t] = j /\ \A u \in Callers \ {t} : job'[u] = job[u]
  BY <1>1 DEF CallersInv
<1>4. CallersInv' BY <1>2, <1>3 DEF CallersInv
<1>5. step # "clear" /\ Clearing' => Clearing BY <1>2 DEF Clearing
<1> QED BY <1>4, <1>5

LEMMA ClientFact ==
    ASSUME NEW t \in Callers
    PROVE  Client(t) \in Clients \cup {NoClient}
BY DEF Client, Callers, Admin

\* Each code is left as it was, released, pressed for s, or has its time taken
\* again.
Changed(s) ==
    \A c \in Codes : \/ held'[c] = held[c] \/ held'[c] = Up
                     \/ held'[c] = Down(For(s))
                     \/ held[c].down /\ held'[c] = Down(held[c].owner)

LEMMA TablesStep ==
    ASSUME DesktopInv, TablesInv', UNCHANGED <<host, ticker>>,
           NEW s \in Clients \cup {NoClient}, Changed(s)
    PROVE  TickerInv' /\ ((Clearing' => Clearing) => OwnerInv')
<1>1. For(s) \in {host, NoClient} /\ (Clearing => For(s) = NoClient)
  BY DEF For
<1>2. ASSUME NEW c \in Codes
      PROVE  /\ held'[c].since = held'[c].age
             /\ held'[c].down \/ held'[c].age = 0
             /\ held'[c].age = held[c].age \/ held'[c].age = 0
             /\ held'[c].down => \/ held[c].down /\ held'[c].owner = held[c].owner
                                 \/ held'[c].owner = For(s)
  <2>1. held[c] \in [down : BOOLEAN, age : Nat, since : Nat,
                     owner : Clients \cup {NoClient}]
    BY DEF DesktopInv, TablesInv, Codespace
  <2>2. /\ held[c].since = held[c].age
        /\ held[c].down \/ held[c].age = 0
    BY DEF DesktopInv, TickerInv
  <2>3. CASE held'[c] = held[c] BY <2>2, <2>3
  <2>4. CASE held'[c] = Up
    <3>1. held'[c].age = 0 /\ held'[c].since = 0 BY <2>4, UpFact
    <3>2. ~held'[c].down BY <2>4, UpFact
    <3> QED BY <3>1, <3>2
  <2>5. CASE held'[c] = Down(For(s))
    <3>1. held'[c].age = 0 /\ held'[c].since = 0 BY <2>5, DownFact
    <3>2. held'[c].owner = For(s) BY <2>5, DownFact
    <3> QED BY <3>1, <3>2
  <2>6. CASE held[c].down /\ held'[c] = Down(held[c].owner)
    BY <2>6, DownFact
  <2> QED BY <2>3, <2>4, <2>5, <2>6 DEF Changed
<1>3. Hold \in Nat /\ 0 <= Hold BY DesktopAssumption
<1>4. TickerInv'
  BY <1>2, <1>3 DEF DesktopInv, TickerInv
<1>5. (Clearing' => Clearing) => OwnerInv'
  BY <1>1, <1>2 DEF DesktopInv, OwnerInv
<1> QED BY <1>4, <1>5

\* A step that does not touch the tables.
LEMMA QuietStep ==
    ASSUME DesktopInv, UNCHANGED <<host, ticker, tables>>, Clearing' => Clearing
    PROVE  TablesInv' /\ TickerInv' /\ OwnerInv'
BY DEF DesktopInv, TablesInv, KeyboardInv, TickerInv, OwnerInv, tables

-----------------------------------------------------------------------------
(***************************************************************************)
(* The invariant of the desktop.                                           *)
(***************************************************************************)
LEMMA DesktopStarts == DesktopInit => DesktopInv
<1> SUFFICES ASSUME DesktopInit PROVE DesktopInv
  OBVIOUS
<1>1. \A c \in Codes : held[c] = Up /\ ~held[c].down /\ held[c].age = 0
                         /\ held[c].since = 0 /\ held[c].owner = NoClient
  BY UpFact DEF DesktopInit
<1>2. held \in Codespace BY UpFact DEF DesktopInit, Codespace
<1>3. KeyboardInv BY DEF DesktopInit, KeyboardInv
<1>4. TickerInv BY <1>1, DesktopAssumption DEF DesktopInit, TickerInv
<1>5. OwnerInv BY <1>1 DEF DesktopInit, OwnerInv, Clearing
<1>6. CallersInv BY DEF DesktopInit, CallersInv, Steps
<1> QED BY <1>2, <1>3, <1>4, <1>5, <1>6 DEF DesktopInv, TablesInv

\* ResetKeys, and what else releases codes for good.
LEMMA ReleaseStep ==
    ASSUME DesktopInv, NEW codes \in SUBSET Codes, Release(codes),
           UNCHANGED <<host, ticker>>, Clearing' => Clearing
    PROVE  TablesInv' /\ TickerInv' /\ OwnerInv'
<1>1. /\ TablesInv'
      /\ \A c \in codes : held'[c] = Up
      /\ \A c \in Codes \ codes : held'[c] = held[c]
  BY ReleaseFact DEF DesktopInv
<1>2. Changed(NoClient) BY <1>1 DEF Changed
<1> QED BY <1>1, <1>2, TablesStep

LEMMA PressStep ==
    ASSUME DesktopInv, NEW c \in Codes, NEW s \in Clients \cup {NoClient},
           Press(c, s), UNCHANGED <<host, ticker>>, Clearing' => Clearing
    PROVE  TablesInv' /\ TickerInv' /\ OwnerInv'
<1>1. /\ TablesInv'
      /\ held'[c] = held[c] \/ held'[c] = Down(For(s))
      /\ \A d \in Codes \ {c} : held'[d] = held[d]
  BY PressFact DEF DesktopInv, OwnerInv
<1>2. Changed(s) BY <1>1 DEF Changed
<1> QED BY <1>1, <1>2, TablesStep

LEMMA TouchStep ==
    ASSUME DesktopInv, NEW c \in Codes, Touch(c),
           UNCHANGED <<host, ticker>>, Clearing' => Clearing
    PROVE  TablesInv' /\ TickerInv' /\ OwnerInv'
<1>1. /\ TablesInv'
      /\ \/ held'[c] = held[c]
         \/ held[c].down /\ held'[c] = Down(held[c].owner)
      /\ \A d \in Codes \ {c} : held'[d] = held[d]
  BY TouchFact DEF DesktopInv
<1>2. Changed(NoClient) BY <1>1 DEF Changed
<1> QED BY <1>1, <1>2, TablesStep

\* The ticker: what it leaves is no older than Hold.
LEMMA ExpireStep ==
    ASSUME DesktopInv, NEW codes \in SUBSET Codes, Expire(codes, Hold),
           UNCHANGED <<host, at>>
    PROVE  /\ TablesInv' /\ OwnerInv'
           /\ \A c \in Codes : /\ held'[c].since = held'[c].age
                               /\ held'[c].down \/ held'[c].age = 0
                               /\ held'[c].age = 0 \/ held'[c].age = held[c].age
           /\ \A c \in codes : held'[c].age <= Hold
<1>1. PICK exact \in SUBSET {c \in codes : held[c].down /\ held[c].age = Hold} :
         Release(exact \cup {c \in codes : held[c].down /\ held[c].age > Hold})
  BY DEF Expire
<1> DEFINE gone == exact \cup {c \in codes : held[c].down /\ held[c].age > Hold}
<1>2. gone \in SUBSET Codes OBVIOUS
<1>3. /\ TablesInv'
      /\ \A c \in gone : held'[c] = Up
      /\ \A c \in Codes \ gone : held'[c] = held[c]
  <2> HIDE DEF gone
  <2> QED BY <1>1, <1>2, ReleaseFact DEF DesktopInv, gone
<1>4. ASSUME NEW c \in Codes
      PROVE  /\ held'[c].since = held'[c].age
             /\ held'[c].down \/ held'[c].age = 0
             /\ held'[c].age = 0 \/ held'[c].age = held[c].age
             /\ held'[c].down => held[c].down /\ held'[c].owner = held[c].owner
             /\ c \in codes => held'[c].age <= Hold
  <2>1. CASE c \in gone
    <3>1. held'[c] = Up BY <1>3, <2>1
    <3>2. held'[c].age = 0 /\ held'[c].since = 0 /\ ~held'[c].down
      BY <3>1, UpFact
    <3> QED BY <3>2, DesktopAssumption
  <2>2. CASE c \notin gone
    <3>1. held'[c] = held[c] BY <1>3, <2>2
    <3>2. /\ held[c].since = held[c].age
          /\ held[c].down \/ held[c].age = 0
          /\ held[c].age \in Nat
      BY DEF DesktopInv, TickerInv, TablesInv, Codespace
    <3>3. c \in codes => ~held[c].down \/ ~(held[c].age > Hold)
      BY <2>2
    <3>4. c \in codes => held[c].age <= Hold
      BY <3>2, <3>3, DesktopAssumption
    <3> QED BY <3>1, <3>2, <3>4
  <2> QED BY <2>1, <2>2
<1>5. OwnerInv'
  BY <1>4 DEF DesktopInv, OwnerInv, Clearing
<1> QED BY <1>3, <1>4, <1>5

LEMMA SetHostStep ==
    ASSUME DesktopInv, NEW h \in Clients \cup {NoClient}, SetHost(h),
           UNCHANGED <<keyboard, ticker>>, Clearing' => Clearing
    PROVE  TablesInv' /\ TickerInv' /\ OwnerInv'
<1>1. /\ host' = h
      /\ held' = [c \in Codes |->
                    IF h = host THEN held[c] ELSE [held[c] EXCEPT !.owner = NoClient]]
  BY DEF SetHost
<1>2. ASSUME NEW c \in Codes
      PROVE  /\ held'[c] \in [down : BOOLEAN, age : Nat, since : Nat,
                             owner : Clients \cup {NoClient}]
             /\ held'[c].down <=> held[c].down
             /\ held'[c].age = held[c].age /\ held'[c].since = held[c].since
             /\ held'[c].owner = IF h = host THEN held[c].owner ELSE NoClient
  <2>1. held[c] \in [down : BOOLEAN, age : Nat, since : Nat,
                     owner : Clients \cup {NoClient}]
    BY DEF DesktopInv, TablesInv, Codespace
  <2> QED BY <1>1, <2>1
<1>3. held' \in Codespace BY <1>1, <1>2 DEF Codespace
<1>4. KeyboardInv'
  BY <1>2 DEF DesktopInv, TablesInv, KeyboardInv, Codes
<1>5. TickerInv' BY <1>2 DEF DesktopInv, TickerInv
<1>6. OwnerInv' BY <1>1, <1>2 DEF DesktopInv, OwnerInv
<1> QED BY <1>3, <1>4, <1>5, <1>6 DEF TablesInv

LEMMA DesktopStep == DesktopInv /\ [DesktopNext]_desktopVars => DesktopInv'
<1> SUFFICES ASSUME DesktopInv, [DesktopNext]_desktopVars PROVE DesktopInv'
  OBVIOUS
<1> USE DEF dropVars
<1>1. CASE UNCHANGED desktopVars
  BY <1>1, QuietStep DEF desktopVars, inputVars, DesktopInv, CallersInv, Clearing
<1> SUFFICES ASSUME DesktopNext PROVE DesktopInv'
  BY <1>1
<1>2. UNCHANGED <<desk, implicit>> BY DEF DesktopNext
<1>3. /\ desk \in DesktopScenes /\ desk.callers \subseteq Callers
      /\ desk.codes \subseteq Codes
      /\ \A p \in desk.presses : p \in Seq(Codes) /\ p # <<>>
  <2>1. desk \in DesktopScenes BY DEF DesktopInv, CallersInv
  <2>2. \A p \in desk.presses : p \in Seq(desk.codes \ Touches) /\ p # <<>>
    BY <2>1, DesktopAssumption
  <2>3. desk.callers \subseteq Callers /\ desk.codes \subseteq Codes
    BY <2>1, DesktopAssumption
  <2> QED BY <2>1, <2>2, <2>3
<1>4. UNCHANGED <<at, job>> => CallersInv' /\ (Clearing' => Clearing)
  BY <1>2 DEF DesktopInv, CallersInv, Clearing
<1>5. CASE Second
  <2>1. /\ UNCHANGED <<host, keyboard, at, job>> /\ ticker = "idle" /\ ticker' = "keys"
        /\ held' = [c \in Codes |->
                       IF held[c].down
                       THEN [held[c] EXCEPT !.age = @ + 1, !.since = @ + 1]
                       ELSE Up]
    BY <1>5 DEF Second
  <2>3. ASSUME NEW c \in Codes
        PROVE  /\ held'[c] \in [down : BOOLEAN, age : Nat, since : Nat,
                               owner : Clients \cup {NoClient}]
               /\ held'[c].since = held'[c].age
               /\ held'[c].down \/ held'[c].age = 0
               /\ held'[c].age <= Hold + 1
               /\ held'[c].down <=> held[c].down
               /\ held'[c].down => held'[c].owner = held[c].owner
    <3>1. /\ held[c] \in [down : BOOLEAN, age : Nat, since : Nat,
                          owner : Clients \cup {NoClient}]
          /\ held[c].since = held[c].age /\ held[c].age <= Hold
      BY <2>1 DEF DesktopInv, TablesInv, Codespace, TickerInv
    <3>2. CASE held[c].down
      <4>1. held'[c] = [held[c] EXCEPT !.age = held[c].age + 1,
                                       !.since = held[c].since + 1]
        BY <2>1, <3>2
      <4>5. held'[c] = [down |-> TRUE, age |-> held[c].age + 1,
                        since |-> held[c].since + 1, owner |-> held[c].owner]
        BY <3>1, <3>2, <4>1
      <4>2. /\ held'[c].age = held[c].age + 1 /\ held'[c].since = held[c].since + 1
            /\ held'[c].owner = held[c].owner
            /\ held'[c] \in [down : BOOLEAN, age : Nat, since : Nat,
                            owner : Clients \cup {NoClient}]
        BY <3>1, <4>5
      <4>3. held'[c].down BY <4>5
      <4>4. Hold \in Nat BY DesktopAssumption
      <4> QED BY <3>1, <3>2, <4>2, <4>3, <4>4
    <3>3. CASE ~held[c].down
      <4>1. held'[c] = Up BY <2>1, <3>3
      <4>2. /\ held'[c].age = 0 /\ held'[c].since = 0 /\ ~held'[c].down
            /\ held'[c] \in [down : BOOLEAN, age : Nat, since : Nat,
                            owner : Clients \cup {NoClient}]
        BY <4>1, UpFact
      <4> QED BY <3>3, <4>2, DesktopAssumption
    <3> QED BY <3>2, <3>3
  <2>2. held' \in Codespace BY <2>1, <2>3 DEF Codespace
  <2>4. KeyboardInv'
    <3>1. \A k \in Keys : held'[k].down <=> held[k].down BY <2>3 DEF Codes
    <3> QED BY <2>1, <3>1 DEF DesktopInv, TablesInv, KeyboardInv
  <2>5. TickerInv' BY <2>1, <2>3 DEF TickerInv
  <2>6. OwnerInv' BY <2>1, <2>3, <1>4 DEF DesktopInv, OwnerInv
  <2> QED BY <1>4, <2>1, <2>2, <2>4, <2>5, <2>6 DEF DesktopInv, TablesInv
<1>6. CASE CheckKeys
  <2>1. /\ UNCHANGED <<host, at, job>> /\ ticker' = "touches"
        /\ Expire(Keys \cup {Button}, Hold)
    BY <1>6 DEF CheckKeys
  <2>2. /\ TablesInv' /\ OwnerInv'
        /\ \A c \in Codes : /\ held'[c].since = held'[c].age
                            /\ held'[c].down \/ held'[c].age = 0
                            /\ held'[c].age = 0 \/ held'[c].age = held[c].age
        /\ \A c \in Keys \cup {Button} : held'[c].age <= Hold
    BY <2>1, ExpireStep DEF Codes
  <2>3. TickerInv'
    <3>1. Hold \in Nat BY DesktopAssumption
    <3>2. \A c \in Codes : held[c].age <= Hold + 1 BY DEF DesktopInv, TickerInv
    <3>3. \A c \in Codes : held'[c].age <= Hold + 1 BY <2>2, <3>1, <3>2
    <3>4. ticker' = "idle" => \A c \in Codes : held'[c].age <= Hold
      BY <2>1, <2>2, <3>1 DEF DesktopInv, TickerInv, Codes
    <3> QED BY <2>1, <2>2, <3>3, <3>4 DEF TickerInv, Codes
  <2> QED BY <1>4, <2>1, <2>2, <2>3 DEF DesktopInv
<1>7. CASE Debounce
  <2>1. /\ UNCHANGED <<host, at, job>> /\ ticker = "touches" /\ ticker' = "idle"
        /\ Expire(Touches, Hold)
    BY <1>7 DEF Debounce
  <2>2. /\ TablesInv' /\ OwnerInv'
        /\ \A c \in Codes : /\ held'[c].since = held'[c].age
                            /\ held'[c].down \/ held'[c].age = 0
                            /\ held'[c].age = 0 \/ held'[c].age = held[c].age
        /\ \A c \in Touches : held'[c].age <= Hold
    BY <2>1, ExpireStep DEF Codes
  <2>3. TickerInv'
    <3>1. Hold \in Nat BY DesktopAssumption
    <3>2. \A c \in Codes : held[c].age <= Hold + 1 BY DEF DesktopInv, TickerInv
    <3>3. \A c \in Codes : held'[c].age <= Hold + 1 BY <2>2, <3>1, <3>2
    <3>4. ticker' = "idle" => \A c \in Codes : held'[c].age <= Hold
      BY <2>1, <2>2, <3>1 DEF DesktopInv, TickerInv, Codes
    <3> QED BY <2>1, <2>2, <3>3, <3>4 DEF TickerInv, Codes
  <2> QED BY <1>4, <2>1, <2>2, <2>3 DEF DesktopInv
<1>8. ASSUME NEW t \in desk.callers, NEW j \in Jobs,
             ControlRequest(t, j) \/ ReadIsHost(t, j)
      PROVE  DesktopInv'
  <2>1. t \in Callers BY <1>3
  <2>2. j.codes \in Seq(Codes) /\ j.codes # <<>>
    <3>1. \A c \in desk.codes : <<c>> \in Seq(Codes) /\ <<c>> # <<>> BY <1>3
    <3>2. j.codes \in {<<c>> : c \in desk.codes} \cup desk.presses
      BY DEF Jobs
    <3> QED BY <1>3, <3>1, <3>2
  <2>3. /\ Goto(t, "use", j) \/ Goto(t, "become", j)
        /\ UNCHANGED <<host, ticker, tables>>
    BY <1>8 DEF ControlRequest, ReadIsHost
  <2>4. CallersInv' /\ (Clearing' => Clearing)
    <3>1. CASE Goto(t, "use", j)
      BY <1>2, <2>1, <2>2, <3>1, GotoFact DEF DesktopInv, Steps
    <3>2. CASE Goto(t, "become", j)
      BY <1>2, <2>1, <2>2, <3>2, GotoFact DEF DesktopInv, Steps
    <3> QED BY <2>3, <3>1, <3>2
  <2>5. TablesInv' /\ TickerInv' /\ OwnerInv'
    BY <2>3, <2>4, QuietStep
  <2> QED BY <2>4, <2>5 DEF DesktopInv
<1>24. ASSUME NEW t \in desk.callers, BecomeHost(t) PROVE DesktopInv'
  <2>1. t \in Callers BY <1>3
  <2>2. /\ at[t] = "become" /\ SetHost(Client(t)) /\ Goto(t, "use", job[t])
        /\ UNCHANGED <<keyboard, ticker>>
    BY <1>24 DEF BecomeHost
  <2>3. job[t].codes \in Seq(Codes) /\ job[t].codes # <<>>
    BY <2>1, <2>2 DEF DesktopInv, CallersInv
  <2>4. CallersInv' /\ (Clearing' => Clearing)
    BY <1>2, <2>1, <2>2, <2>3, GotoFact DEF DesktopInv, Steps
  <2>5. TablesInv' /\ TickerInv' /\ OwnerInv'
    BY <2>1, <2>2, <2>4, ClientFact, SetHostStep
  <2> QED BY <2>4, <2>5 DEF DesktopInv
<1>9. ASSUME NEW t \in desk.callers, UseCode(t) PROVE DesktopInv'
  <2> DEFINE c == job[t].codes[1]
  <2>1. t \in Callers BY <1>3
  <2>2. /\ at[t] = "use" /\ Done(t) /\ UNCHANGED <<host, ticker>>
        /\ Press(c, Client(t)) \/ Release({c}) \/ Touch(c)
    BY <1>9 DEF UseCode
  <2>3. CallersInv' /\ (Clearing' => Clearing)
    BY <1>2, <2>1, <2>2, GotoFact DEF DesktopInv, Done, Steps
  <2>4. c \in Codes BY <2>1, <2>2 DEF DesktopInv, CallersInv
  <2> HIDE DEF c
  <2>5. CASE Press(c, Client(t))
    BY <2>1, <2>2, <2>3, <2>4, <2>5, ClientFact, PressStep DEF DesktopInv
  <2>6. CASE Release({c})
    <3>1. {c} \in SUBSET Codes BY <2>4
    <3> QED BY <2>2, <2>3, <2>6, <3>1, ReleaseStep DEF DesktopInv
  <2>7. CASE Touch(c) BY <2>2, <2>3, <2>4, <2>7, TouchStep DEF DesktopInv
  <2> QED BY <2>2, <2>5, <2>6, <2>7
<1>10. Codes \ Touches \in SUBSET Codes OBVIOUS
<1>11. ASSUME NEW t \in desk.callers, BeginPress(t) PROVE DesktopInv'
  <2>1. t \in Callers BY <1>3
  <2>2. /\ at[t] = "use" /\ ResetKeys /\ Goto(t, "press", job[t])
        /\ UNCHANGED <<host, ticker>>
    BY <1>11 DEF BeginPress
  <2>3. job[t].codes \in Seq(Codes) /\ job[t].codes # <<>>
    BY <2>1, <2>2 DEF DesktopInv, CallersInv
  <2>4. CallersInv' /\ (Clearing' => Clearing)
    BY <1>2, <2>1, <2>2, <2>3, GotoFact DEF DesktopInv, Steps
  <2> QED BY <1>10, <2>2, <2>4, ReleaseStep DEF DesktopInv, ResetKeys
<1>12. ASSUME NEW t \in desk.callers, PressNext(t) PROVE DesktopInv'
  <2> DEFINE c == Head(job[t].codes)
             rest == [op |-> "press", codes |-> Tail(job[t].codes)]
  <2>1. t \in Callers BY <1>3
  <2>2. /\ at[t] = "press" /\ Press(c, Client(t)) /\ UNCHANGED <<host, ticker>>
        /\ \/ Goto(t, "unpress", Idle)
           \/ Len(job[t].codes) # 1 /\ Goto(t, "press", rest)
    BY <1>12 DEF PressNext
  <2>3. job[t].codes \in Seq(Codes) /\ job[t].codes # <<>>
    BY <2>1, <2>2 DEF DesktopInv, CallersInv
  <2>4. c \in Codes BY <2>3
  <2>5. CallersInv' /\ (Clearing' => Clearing)
    <3>1. CASE Goto(t, "unpress", Idle)
      BY <1>2, <2>1, <3>1, GotoFact DEF DesktopInv, Steps
    <3>2. CASE Len(job[t].codes) # 1 /\ Goto(t, "press", rest)
      <4>1. rest.codes \in Seq(Codes) /\ rest.codes # <<>>
        <5> DEFINE codes == job[t].codes
        <5>1. codes \in Seq(Codes) /\ codes # <<>> /\ Len(codes) # 1
          BY <2>3, <3>2
        <5> HIDE DEF codes
        <5>4. Len(codes) \in Nat /\ Len(codes) # 0 BY <5>1
        <5>5. /\ Tail(codes) \in Seq(Codes)
              /\ Len(Tail(codes)) = Len(codes) - 1
          BY <5>1, <5>4
        <5>6. Len(Tail(codes)) # 0 BY <5>1, <5>4, <5>5
        <5>7. Tail(codes) # <<>>
          <6>1. Len(<<>>) = 0 OBVIOUS
          <6> QED BY <5>6, <6>1
        <5>2. Tail(codes) \in Seq(Codes) /\ Tail(codes) # <<>>
          BY <5>5, <5>7
        <5>3. rest.codes = Tail(codes) BY DEF codes
        <5> QED BY <5>2, <5>3
      <4> HIDE DEF rest
      <4> QED BY <1>2, <2>1, <3>2, <4>1, GotoFact DEF DesktopInv, Steps
    <3> QED BY <2>2, <3>1, <3>2
  <2> HIDE DEF c
  <2> QED BY <2>1, <2>2, <2>4, <2>5, ClientFact, PressStep DEF DesktopInv
<1>13. ASSUME NEW t \in desk.callers, EndPress(t) PROVE DesktopInv'
  <2>1. t \in Callers BY <1>3
  <2>2. ResetKeys /\ Done(t) /\ UNCHANGED <<host, ticker>>
    BY <1>13 DEF EndPress
  <2>3. CallersInv' /\ (Clearing' => Clearing)
    BY <1>2, <2>1, <2>2, GotoFact DEF DesktopInv, Done, Steps
  <2> QED BY <1>10, <2>2, <2>3, ReleaseStep DEF DesktopInv, ResetKeys
<1>14. ASSUME NEW t \in Callers, Goto(t, "reset", Idle),
              UNCHANGED <<host, tables, ticker>>
       PROVE  DesktopInv'
  <2>1. CallersInv' /\ (Clearing' => Clearing)
    BY <1>2, <1>14, GotoFact DEF DesktopInv, Steps
  <2> QED BY <1>14, <2>1, QuietStep DEF DesktopInv
<1>15. ASSUME NEW t \in desk.callers, ControlRelease(t) PROVE DesktopInv'
  BY <1>3, <1>14, <1>15 DEF ControlRelease
<1>16. CASE ControlReset
  <2>1. Admin \in Callers BY DEF Callers
  <2> QED BY <1>14, <1>16, <2>1 DEF ControlReset
<1>17. ASSUME NEW t \in Callers, ReleaseKeys(t) PROVE DesktopInv'
  <2>1. Release(Codes \ Touches) /\ Goto(t, "clear", Idle) /\ UNCHANGED <<host, ticker>>
    BY <1>17 DEF ReleaseKeys, ResetKeys
  <2>2. CallersInv' BY <1>2, <2>1, GotoFact DEF DesktopInv, Steps
  <2>3. /\ TablesInv'
        /\ \A c \in Codes \ Touches : held'[c] = Up
        /\ \A c \in Codes \ (Codes \ Touches) : held'[c] = held[c]
    BY <1>10, <2>1, ReleaseFact DEF DesktopInv
  <2>7. Changed(NoClient) BY <2>3 DEF Changed
  <2>4. TickerInv' BY <2>1, <2>3, <2>7, TablesStep
  <2>5. \A c \in Codes \ Touches : ~held'[c].down BY <2>3, UpFact
  <2>6. OwnerInv' BY <2>1, <2>5 DEF DesktopInv, OwnerInv
  <2> QED BY <2>2, <2>3, <2>4, <2>6 DEF DesktopInv
<1>18. ASSUME NEW t \in Callers, ClearHost(t) PROVE DesktopInv'
  <2>1. /\ at[t] = "clear" /\ host' = NoClient /\ Done(t)
        /\ UNCHANGED <<held, keyboard, ticker>>
    BY <1>18 DEF ClearHost, tables
  <2>2. CallersInv' BY <1>2, <2>1, GotoFact DEF DesktopInv, Done, Steps
  <2>3. TablesInv' /\ TickerInv'
    BY <2>1 DEF DesktopInv, TablesInv, KeyboardInv, TickerInv
  <2>4. \A c \in Codes \ Touches : held[c].down => held[c].owner = NoClient
    BY <2>1 DEF DesktopInv, OwnerInv, Clearing
  <2>5. OwnerInv' BY <2>1, <2>4 DEF OwnerInv
  <2> QED BY <2>2, <2>3, <2>5 DEF DesktopInv
<1>19. CASE ControlGive
  <2>1. PICK h \in {Client(t) : t \in desk.callers} \cup {NoClient} : SetHost(h)
    BY <1>19 DEF ControlGive
  <2>2. h \in Clients \cup {NoClient} BY <1>3, <2>1, ClientFact
  <2>3. UNCHANGED <<keyboard, ticker, at, job>> BY <1>19 DEF ControlGive
  <2> QED BY <1>4, <2>1, <2>2, <2>3, SetHostStep DEF DesktopInv
<1>20. ASSUME UNCHANGED inputVars PROVE DesktopInv'
  BY <1>4, <1>20, QuietStep DEF inputVars, DesktopInv
<1>21. CASE DropResets
  BY <1>4, <1>10, <1>21, ReleaseStep DEF DropResets, DesktopInv, ResetKeys
<1>22. ASSUME NEW e \in Listening, EmitDrop(e) PROVE DesktopInv'
  <2>1. /\ UNCHANGED <<host, ticker, at, job>>
        /\ UNCHANGED tables \/ Press(Button, NoClient)
    BY <1>22 DEF EmitDrop
  <2>2. Button \in Codes BY DEF Codes
  <2>3. CASE UNCHANGED tables
    BY <1>4, <2>1, <2>3, QuietStep DEF DesktopInv
  <2>4. CASE Press(Button, NoClient)
    BY <1>4, <2>1, <2>2, <2>4, PressStep DEF DesktopInv
  <2> QED BY <2>1, <2>3, <2>4
<1>25. CASE DropReleases
  <2>1. {Button} \in SUBSET Codes BY DEF Codes
  <2> QED BY <1>4, <1>25, <2>1, ReleaseStep DEF DropReleases, DesktopInv
<1>23. DropFiles \/ OpenWindow \/ DropTimesOut \/ WindowEvent => UNCHANGED inputVars
  BY DEF DropFiles, OpenWindow, DropTimesOut, WindowEvent
<1> QED
  BY <1>5, <1>6, <1>7, <1>8, <1>9, <1>11, <1>12, <1>13, <1>15, <1>16, <1>17,
     <1>18, <1>19, <1>20, <1>21, <1>22, <1>23, <1>24, <1>25 DEF DesktopNext

LEMMA DesktopInvariant == DesktopSpec => []DesktopInv
BY DesktopStarts, DesktopStep, PTL DEF DesktopSpec

-----------------------------------------------------------------------------
\* However many keys, buttons and touches are pressed by however many clients
\* and drops, on whatever keyboard: none stays down for longer than a second
\* more than debounceDuration, and no key of the display is down without one of
\* the tables that releases it.
THEOREM KeysEndCorrect == DesktopSpec => []KeysEnd
<1>1. DesktopInv => KeysEnd
  BY DEF DesktopInv, TablesInv, KeyboardInv, TickerInv, KeysEnd, Pressed, Codes
<1> QED BY <1>1, DesktopInvariant, PTL

\* Whoever resets, releases, takes, gives or presses at the same time: no key or
\* button that was pressed for a host is down when another one is host, or none.
THEOREM KeysAreHostsCorrect == DesktopSpec => []KeysAreHosts
<1>1. DesktopInv => KeysAreHosts
  BY DEF DesktopInv, OwnerInv, KeysAreHosts, Pressed
<1> QED BY <1>1, DesktopInvariant, PTL
=============================================================================
