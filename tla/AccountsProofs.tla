----------------------------- MODULE AccountsProofs -----------------------------
(***************************************************************************)
(* Members, logins and the files of both, for any number of members,       *)
(* profiles, tokens and restarts: what Service's run shows for two members *)
(* and a restart.                                                          *)
(***************************************************************************)
EXTENDS Accounts, TLAPS

Ops == {"none", "login", "logout", "insert", "password", "update", "delete"}
Calls == [op : Ops, id : Members, profile : Profiles, ends : 0 .. MaxTokens,
          begins : 0 .. MaxTokens, raced : BOOLEAN]

Types ==
    /\ setting \in Settings
    /\ entries \in [Members -> Profiles \cup {NoEntry}]
    /\ disk \in {"whole", "empty", "partial"}
    /\ sessions \in [Members -> Sessions \cup {NoSession}]
    /\ pc \in [Threads -> {"idle", "get", "replace", "create", "snapshot",
                           "truncate", "write", "provider", "store"}]
    /\ call \in [Threads -> Calls]
    /\ alone \in [Threads -> BOOLEAN]
    /\ issued \in 0 .. MaxTokens
    /\ live \subseteq Tokens /\ gone \subseteq Tokens
    /\ stale \in BOOLEAN /\ raced \subseteq Members
    /\ request.id \in Members

\* Where the threads may be, and what for.
ThreadsInv ==
    /\ pc["login"] \notin {"provider", "store"}
    /\ pc["admin"] \notin {"get", "replace", "create"}
    /\ pc["login"] # "idle" => call["login"].op \in {"login", "logout"}
    /\ pc["login"] \in {"get", "replace", "create"} => call["login"].op = "login"
    /\ pc["admin"] \in {"snapshot", "truncate", "write", "provider"} =>
          call["admin"].op \in {"update", "delete"}

-----------------------------------------------------------------------------
(* Tokens.                                                                  *)

TokensOf(S) == {s.token : s \in S}

Distinct(S) == /\ S \subseteq Saved
               /\ \A s \in S : s.token <= issued
               /\ \A r, s \in S : r.id = s.id \/ r.token = s.token => r = s

\* No token is given twice, and none comes back.
TokensInv ==
    /\ \A m \in Members : sessions[m] # NoSession => sessions[m].token <= issued
    /\ \A m, n \in Members :
          /\ sessions[m] # NoSession /\ sessions[n] # NoSession
          /\ sessions[m].token = sessions[n].token
          => m = n
    /\ \A t \in Threads : /\ call[t].ends \notin Current
                          /\ call[t].ends <= issued /\ call[t].begins <= issued
    /\ \A k \in gone : k <= issued
    /\ Distinct(Loaded)
    /\ data \in [Threads -> SUBSET Saved]
    /\ \A t \in Threads : Distinct(data[t])

\* What is written holds the logins that were answered, and none that were ended;
\* a save that no other overlaps with is the only one.
SavesInv ==
    /\ \A t \in Threads : Saving(t) /\ alone[t] =>
          /\ \A u \in Threads : Saving(u) => u = t
          /\ live \cup ({call[t].begins} \cap Current) \subseteq TokensOf(data[t])
          /\ (gone \cup {call[t].ends}) \cap TokensOf(data[t]) = {}
          /\ pc[t] = "write" => file = {}
    /\ ~Damaged => /\ live \subseteq TokensOf(Loaded)
                   /\ gone \cap TokensOf(Loaded) = {}

-----------------------------------------------------------------------------
(* Members.                                                                 *)

\* An update or a delete of m has still to reach the provider.
Pending(m) == /\ call["admin"].id = m
              /\ pc["admin"] \in {"snapshot", "truncate", "write", "provider"}

\* A profile that m has after what is under way is done.
Agrees(m, p) ==
    IF Pending(m)
    THEN /\ call["admin"].op = "update" /\ call["admin"].profile = p
         /\ entries[m] # NoEntry
    ELSE entries[m] = p

\* Profile p of m is right, or m is one of those that are excused.
Vouched(m, p) == m \in raced \/ Agrees(m, p)

LoggingIn == /\ pc["login"] # "idle" /\ call["login"].op = "login"
             /\ call["login"].begins = 0

SessionsInv == \A m \in Members :
    sessions[m] # NoSession => Vouched(m, sessions[m].profile)

LoginInv ==
    /\ LoggingIn /\ ~call["login"].raced =>
          /\ entries[call["login"].id] = call["login"].profile
          /\ ~Pending(call["login"].id)
    /\ disk # "whole" => raced = Members /\ ~LoggingIn
    /\ provider = "object" => disk = "whole" /\ pc["admin"] # "store"
    /\ pc["login"] \in {"get", "replace", "create"} => call["login"].begins = 0
    /\ LoggingIn /\ pc["login"] \notin {"get", "replace"} =>
          sessions[call["login"].id] = NoSession

MembersInv == SessionsInv /\ LoginInv

\* Thread t has taken m's session away and not yet saved that.
Removing(t, m) == call[t].id = m /\ pc[t] \in {"snapshot", "truncate"}

\* The login or logout that is being saved was for m while m was administered.
Excused(m) == /\ call["login"].id = m /\ call["login"].raced
              /\ pc["login"] \in {"snapshot", "truncate", "write"}

\* What a save will leave in the file is true of the members then.
DataInv ==
    \A t \in Threads : Saving(t) /\ alone[t] => \A s \in data[t] :
        /\ sessions[s.id] = NoSession =>
              \E u \in Threads : u # t /\ Removing(u, s.id)
        /\ \/ Vouched(s.id, s.profile)
           \/ t = "login" /\ Removing("admin", s.id)

FileInv ==
    ~Damaged => \A s \in Loaded :
        /\ sessions[s.id] = NoSession => \E u \in Threads : Removing(u, s.id)
        /\ \/ Vouched(s.id, s.profile) \/ Excused(s.id)
           \/ Removing("admin", s.id)

StoresInv == provider \in {"file", "object"} => MembersInv /\ DataInv /\ FileInv

-----------------------------------------------------------------------------
(* What the operators of the specification are.                             *)

LEMMA NoCallFact ==
    /\ NoCall \in Calls
    /\ NoCall.ends = 0 /\ NoCall.begins = 0 /\ ~NoCall.raced
<1>1. /\ (CHOOSE m \in Members : TRUE) \in Members
      /\ (CHOOSE p \in Profiles : TRUE) \in Profiles
      /\ MaxTokens \in Nat
  BY AccountsAssumption
<1> QED
  BY <1>1 DEF NoCall, Calls, Ops

LEMMA CallFact ==
    ASSUME NEW op \in Ops, NEW m \in Members, NEW p \in Profiles
    PROVE  LET c == Call(op, m, p) IN
           /\ c \in Calls /\ c.op = op /\ c.id = m /\ c.profile = p
           /\ c.ends = 0 /\ c.begins = 0 /\ ~c.raced
<1>1. NoCall \in Calls /\ NoCall.ends = 0 /\ NoCall.begins = 0 /\ ~NoCall.raced
  BY NoCallFact
<1> QED
  BY <1>1 DEF Call, Calls

\* An administrator's call leaves its mark on the login of the same member.
LEMMA CalledFact ==
    ASSUME Types, NEW c \in Calls
    PROVE  /\ Called(c) \in [Threads -> Calls]
           /\ Called(c)["admin"] = c
           /\ Called(c)["login"].op = call["login"].op
           /\ Called(c)["login"].id = call["login"].id
           /\ Called(c)["login"].profile = call["login"].profile
           /\ Called(c)["login"].ends = call["login"].ends
           /\ Called(c)["login"].begins = call["login"].begins
           /\ Called(c)["login"].raced <=>
                 call["login"].raced \/ Busy("login", c.id)
<1> DEFINE r == call["login"].raced \/ Busy("login", c.id)
           l == [call["login"] EXCEPT !.raced = r]
<1>1. call \in [Threads -> Calls] /\ r \in BOOLEAN
  BY DEF Types
<1>2. Called(c) = [call EXCEPT !["admin"] = c, !["login"] = l]
  BY <1>1 DEF Called, Threads
<1> HIDE DEF r
<1>3. /\ l \in Calls /\ l.op = call["login"].op /\ l.id = call["login"].id
      /\ l.profile = call["login"].profile /\ l.ends = call["login"].ends
      /\ l.begins = call["login"].begins /\ l.raced = r
  BY <1>1 DEF Calls, Threads
<1> HIDE DEF l
<1>4. /\ Called(c) \in [Threads -> Calls] /\ Called(c)["admin"] = c
      /\ Called(c)["login"] = l
  BY <1>1, <1>2, <1>3 DEF Threads
<1> QED
  BY <1>3, <1>4 DEF r

\* What is tried is of the sets of the model.
LEMMA SettingFact ==
    ASSUME setting \in Settings
    PROVE  /\ setting.provider \in {"file", "object", "multiuser", "noauth"}
           /\ setting.ids \subseteq Members /\ setting.profiles \subseteq Profiles
           /\ setting.updates \subseteq Profiles
BY AccountsAssumption

-----------------------------------------------------------------------------
(* What the steps do that touch more than one thing.                        *)

\* Everything of a call but the token that it ends.
SameCall(c, d) == /\ c.op = d.op /\ c.id = d.id /\ c.profile = d.profile
                  /\ c.begins = d.begins /\ (c.raced <=> d.raced)

LEMMA ReturnFact ==
    ASSUME Types, NEW t \in Threads, Return(t)
    PROVE  /\ call' \in [Threads -> Calls] /\ call'[t] = NoCall
           /\ pc'[t] = "idle"
           /\ pc' = [pc EXCEPT ![t] = "idle"]
           /\ \A u \in Threads : u # t => call'[u] = call[u] /\ pc'[u] = pc[u]
<1>1. NoCall \in Calls
  BY NoCallFact
<1> HIDE DEF Calls
<1> QED
  BY <1>1 DEF Types, Return

LEMMA RemoveFact ==
    ASSUME Types, NEW t \in Threads, NEW m \in Members,
           sessions[m] # NoSession,
           NEW calls \in [Threads -> Calls], RemoveSession(t, m, calls)
    PROVE  /\ sessions' \in [Members -> Sessions \cup {NoSession}]
           /\ sessions'[m] = NoSession
           /\ \A n \in Members : n # m => sessions'[n] = sessions[n]
           /\ live' = live \ {sessions[m].token}
           /\ call' \in [Threads -> Calls]
           /\ call'[t].ends = sessions[m].token
           /\ SameCall(call'[t], calls[t])
           /\ pc' = [pc EXCEPT ![t] = "snapshot"]
           /\ \A u \in Threads : u # t => call'[u] = calls[u] /\ pc'[u] = pc[u]
           /\ UNCHANGED <<file, data, alone, issued, gone, stale>>
<1> DEFINE c == [calls[t] EXCEPT !.ends = sessions[m].token]
<1>1. sessions[m] \in Sessions /\ sessions[m].token \in 0 .. MaxTokens
  BY AccountsAssumption DEF Types, Sessions, Tokens
<1>2. calls[t] \in Calls
  OBVIOUS
<1>3. c \in Calls /\ c.ends = sessions[m].token /\ SameCall(c, calls[t])
  BY <1>1, <1>2 DEF Calls, SameCall
<1>4. call' = [calls EXCEPT ![t] = c]
  BY DEF RemoveSession
<1> HIDE DEF c
<1>5. /\ call' \in [Threads -> Calls] /\ call'[t] = c
      /\ \A u \in Threads : u # t => call'[u] = calls[u]
  BY <1>3, <1>4
<1>6. /\ sessions' = [sessions EXCEPT ![m] = NoSession]
      /\ live' = live \ {sessions[m].token}
      /\ pc' = [pc EXCEPT ![t] = "snapshot"]
      /\ UNCHANGED <<file, data, alone, issued, gone, stale>>
  BY DEF RemoveSession
<1>7. /\ sessions' \in [Members -> Sessions \cup {NoSession}]
      /\ sessions'[m] = NoSession
      /\ \A n \in Members : n # m => sessions'[n] = sessions[n]
      /\ \A u \in Threads : u # t => pc'[u] = pc[u]
  BY <1>6 DEF Types
<1> QED
  BY <1>3, <1>5, <1>6, <1>7

LEMMA CreateFact ==
    ASSUME Types, CreateSession("login"),
           sessions[call["login"].id] = NoSession
    PROVE  LET m == call["login"].id IN
           /\ m \in Members
           /\ issued < MaxTokens /\ issued' = issued + 1
           /\ sessions' \in [Members -> Sessions \cup {NoSession}]
           /\ sessions'[m] # NoSession /\ sessions'[m].token = issued + 1
           /\ sessions'[m].profile = call["login"].profile
           /\ \A n \in Members : n # m => sessions'[n] = sessions[n]
           /\ raced' = IF call["login"].raced THEN raced \cup {m}
                                              ELSE raced \ {m}
           /\ call' \in [Threads -> Calls]
           /\ call'["login"].begins = issued + 1 /\ call'["login"].ends = 0
           /\ call'["login"].op = call["login"].op
           /\ call'["login"].id = m
           /\ call'["login"].raced <=> call["login"].raced
           /\ call'["admin"] = call["admin"]
           /\ pc["login"] = "create" /\ pc'["login"] = "snapshot"
           /\ pc'["admin"] = pc["admin"]
           /\ UNCHANGED <<setting, entries, disk, file, data, alone, selected,
                          request, crashes, live, gone, stale>>
<1> DEFINE m == call["login"].id
           s == [token |-> issued + 1, profile |-> call["login"].profile,
                 connected |-> FALSE]
           c == [call["login"] EXCEPT !.begins = issued + 1, !.ends = 0]
<1>1. /\ call["login"] \in Calls /\ m \in Members
      /\ call["login"].profile \in Profiles
      /\ issued \in Nat /\ MaxTokens \in Nat /\ issued < MaxTokens
  BY AccountsAssumption DEF Types, Calls, Threads, CreateSession
<1>2. s \in Sessions /\ s # NoSession
  <2>1. issued + 1 \in Tokens
    BY <1>1 DEF Tokens
  <2>2. s \in Sessions
    BY <1>1, <2>1 DEF Sessions
  <2> QED
    BY <2>2, AccountsAssumption
<1>3. /\ c \in Calls /\ c.begins = issued + 1 /\ c.ends = 0
      /\ c.op = call["login"].op /\ c.id = m
      /\ c.raced = call["login"].raced
  <2>1. issued + 1 \in 0 .. MaxTokens /\ 0 \in 0 .. MaxTokens
    BY <1>1
  <2> QED
    BY <1>1, <2>1 DEF Calls
<1>4. /\ sessions' = [sessions EXCEPT ![m] = s]
      /\ call' = [call EXCEPT !["login"] = c]
      /\ pc["login"] = "create" /\ pc' = [pc EXCEPT !["login"] = "snapshot"]
      /\ issued' = issued + 1
      /\ raced' = IF call["login"].raced THEN raced \cup {m} ELSE raced \ {m}
      /\ UNCHANGED <<setting, entries, disk, file, data, alone, selected,
                     request, crashes, live, gone, stale>>
  BY DEF CreateSession
<1>5. s.token = issued + 1 /\ s.profile = call["login"].profile
  OBVIOUS
<1> HIDE DEF m, s, c
<1>6. /\ sessions' \in [Members -> Sessions \cup {NoSession}]
      /\ sessions'[m] = s
      /\ \A n \in Members : n # m => sessions'[n] = sessions[n]
  BY <1>1, <1>2, <1>4 DEF Types
<1>7. /\ call' \in [Threads -> Calls] /\ call'["login"] = c
      /\ call'["admin"] = call["admin"]
      /\ pc'["login"] = "snapshot" /\ pc'["admin"] = pc["admin"]
  BY <1>3, <1>4 DEF Types, Threads
<1> QED
  BY <1>1, <1>2, <1>3, <1>4, <1>5, <1>6, <1>7 DEF m

LEMMA ToggleFact ==
    ASSUME Types, NEW m \in Members, Toggle(m)
    PROVE  /\ sessions' \in [Members -> Sessions \cup {NoSession}]
           /\ sessions[m] # NoSession /\ sessions'[m] # NoSession
           /\ sessions'[m].token = sessions[m].token
           /\ sessions'[m].profile = sessions[m].profile
           /\ \A n \in Members : n # m => sessions'[n] = sessions[n]
<1> DEFINE s == [sessions[m] EXCEPT !.connected = ~@]
<1>1. sessions[m] \in Sessions /\ NoSession \notin Sessions
  BY AccountsAssumption DEF Types, Toggle
<1>2. /\ s \in Sessions /\ s.token = sessions[m].token
      /\ s.profile = sessions[m].profile
  BY <1>1 DEF Sessions
<1>3. sessions' = [sessions EXCEPT ![m] = s]
  BY DEF Toggle
<1> HIDE DEF s
<1> QED
  BY <1>1, <1>2, <1>3 DEF Types

LEMMA UpdateFact ==
    ASSUME Types, NEW m \in Members, NEW p \in Profiles, UpdateProfile(m, p)
    PROVE  /\ sessions' \in [Members -> Sessions \cup {NoSession}]
           /\ sessions[m] = NoSession =>
                 sessions'[m] = NoSession /\ pc'["admin"] = "provider"
           /\ sessions[m] # NoSession =>
                 /\ sessions'[m] # NoSession
                 /\ sessions'[m].token = sessions[m].token
                 /\ sessions'[m].profile = p /\ pc'["admin"] = "snapshot"
           /\ \A n \in Members : n # m => sessions'[n] = sessions[n]
           /\ call' = Called(Call("update", m, p))
           /\ pc["admin"] = "idle" /\ pc'["login"] = pc["login"]
           /\ \E x \in {"provider", "snapshot"} :
                 pc' = [pc EXCEPT !["admin"] = x]
           /\ UNCHANGED <<setting, entries, disk, file, data, alone, issued,
                          live, gone, stale, request, crashes, raced>>
<1>1. /\ pc["admin"] = "idle"
      /\ sessions' = IF sessions[m] = NoSession THEN sessions
                     ELSE [sessions EXCEPT ![m].profile = p]
      /\ pc' = [pc EXCEPT !["admin"] = IF sessions[m] = NoSession
                                       THEN "provider" ELSE "snapshot"]
      /\ call' = Called(Call("update", m, p))
      /\ UNCHANGED <<setting, entries, disk, file, data, alone, issued,
                     live, gone, stale, request, crashes, raced>>
  BY DEF UpdateProfile
<1>2. CASE sessions[m] = NoSession
  BY <1>1, <1>2 DEF Types, Threads
<1>3. CASE sessions[m] # NoSession
  <2> DEFINE s == [sessions[m] EXCEPT !.profile = p]
  <2>1. sessions[m] \in Sessions /\ NoSession \notin Sessions
    BY <1>3, AccountsAssumption DEF Types
  <2>2. s \in Sessions /\ s.token = sessions[m].token /\ s.profile = p
    BY <2>1 DEF Sessions
  <2>3. sessions' = [sessions EXCEPT ![m] = s]
    BY <1>1, <1>3
  <2> HIDE DEF s
  <2>4. /\ sessions' \in [Members -> Sessions \cup {NoSession}]
        /\ sessions'[m] = s
        /\ \A n \in Members : n # m => sessions'[n] = sessions[n]
    BY <2>2, <2>3 DEF Types
  <2> QED
    BY <1>1, <1>3, <2>1, <2>2, <2>4 DEF Types, Threads
<1> QED
  BY <1>2, <1>3

\* The administrator's change of one member leaves the others alone, but for
\* those that a file that was cut short has lost.
LEMMA ChangeFact ==
    ASSUME Types, NEW c \in Calls, NEW m \in Members,
           NEW p \in Profiles \cup {NoEntry}, Change(c, m, p)
    PROVE  /\ entries' \in [Members -> Profiles \cup {NoEntry}]
           /\ entries'[m] = p
           /\ disk = "whole" \/ provider # "file" =>
                 \A n \in Members : n # m => entries'[n] = entries[n]
           /\ call' \in [Threads -> Calls]
           /\ call'["login"] = call["login"]
           /\ pc'["login"] = pc["login"]
           /\ \E x \in {"store", "idle"} : pc' = [pc EXCEPT !["admin"] = x]
           /\ provider = "file" =>
                 pc'["admin"] = "store" /\ call'["admin"] = c
           /\ provider # "file" =>
                 pc'["admin"] = "idle" /\ call'["admin"] = NoCall
<1>1. CASE provider = "file"
  <2>1. /\ pc' = [pc EXCEPT !["admin"] = "store"]
        /\ entries' = [n \in Members |-> IF n = m THEN p ELSE Stored(n)]
        /\ call' = [call EXCEPT !["admin"] = c]
    BY <1>1 DEF Change, ChangeFile
  <2>2. /\ \A n \in Members : Stored(n) \in Profiles \cup {NoEntry}
        /\ disk = "whole" => \A n \in Members : Stored(n) = entries[n]
    BY DEF Types, Stored
  <2>3. /\ entries' \in [Members -> Profiles \cup {NoEntry}]
        /\ entries'[m] = p
        /\ disk = "whole" => \A n \in Members : n # m => entries'[n] = entries[n]
    BY <2>1, <2>2
  <2>4. call' \in [Threads -> Calls] /\ call'["login"] = call["login"]
        /\ call'["admin"] = c
    BY <2>1 DEF Types, Threads
  <2>5. pc'["login"] = pc["login"] /\ pc'["admin"] = "store"
    BY <2>1 DEF Types, Threads
  <2> QED
    BY <1>1, <2>1, <2>3, <2>4, <2>5
<1>2. CASE provider # "file"
  <2>1. entries' = [entries EXCEPT ![m] = p] /\ Return("admin")
    BY <1>2 DEF Change, ChangeObject
  <2>2. /\ call' \in [Threads -> Calls] /\ call'["admin"] = NoCall
        /\ pc'["admin"] = "idle" /\ pc' = [pc EXCEPT !["admin"] = "idle"]
        /\ call'["login"] = call["login"] /\ pc'["login"] = pc["login"]
    BY <2>1, ReturnFact DEF Threads
  <2>3. /\ entries' \in [Members -> Profiles \cup {NoEntry}]
        /\ entries'[m] = p
        /\ \A n \in Members : n # m => entries'[n] = entries[n]
    BY <2>1 DEF Types
  <2> QED
    BY <1>2, <2>2, <2>3
<1> QED
  BY <1>1, <1>2

\* After a restart the sessions are those of the file.
LEMMA CrashFact ==
    ASSUME Types, Distinct(Loaded), Crash
    PROVE  /\ sessions' \in [Members -> Sessions \cup {NoSession}]
           /\ \A m \in Members : sessions'[m] # NoSession =>
                 \E s \in Loaded : /\ s.id = m
                                   /\ sessions'[m].token = s.token
                                   /\ sessions'[m].profile = s.profile
           /\ \A s \in Loaded : /\ s.id \in Members
                                /\ sessions'[s.id] # NoSession
                                /\ sessions'[s.id].token = s.token
<1> DEFINE Of(s) == [token |-> s.token, profile |-> s.profile,
                     connected |-> FALSE]
           Chosen(m) == CHOOSE s \in Loaded : s.id = m
<1>1. ASSUME NEW s \in Loaded
      PROVE  /\ s.id \in Members /\ Of(s) \in Sessions /\ Of(s) # NoSession
             /\ Of(s).token = s.token /\ Of(s).profile = s.profile
  <2>1. s \in Saved
    BY DEF Distinct
  <2>2. /\ s.id \in Members /\ Of(s) \in Sessions
        /\ Of(s).token = s.token /\ Of(s).profile = s.profile
    BY <2>1 DEF Saved, Sessions
  <2> QED
    BY <2>2, AccountsAssumption
<1>2. \A m \in Members : sessions'[m] =
          IF \E s \in Loaded : s.id = m THEN Of(Chosen(m)) ELSE NoSession
  BY DEF Crash
<1>3. sessions' = [m \in Members |-> sessions'[m]]
  BY DEF Crash
<1>4. ASSUME NEW m \in Members, NEW s \in Loaded, s.id = m
      PROVE  Chosen(m) = s
  <2>1. Chosen(m) \in Loaded /\ Chosen(m).id = m
    BY <1>4
  <2> QED
    BY <1>4, <2>1 DEF Distinct
<1> HIDE DEF Of, Chosen
<1>5. ASSUME NEW m \in Members
      PROVE  /\ sessions'[m] \in Sessions \cup {NoSession}
             /\ sessions'[m] # NoSession =>
                   \E s \in Loaded : /\ s.id = m
                                     /\ sessions'[m].token = s.token
                                     /\ sessions'[m].profile = s.profile
  <2>1. CASE \E s \in Loaded : s.id = m
    BY <1>1, <1>2, <1>4, <2>1
  <2>2. CASE ~ \E s \in Loaded : s.id = m
    BY <1>2, <2>2
  <2> QED
    BY <2>1, <2>2
<1>6. ASSUME NEW s \in Loaded
      PROVE  /\ s.id \in Members /\ sessions'[s.id] # NoSession
             /\ sessions'[s.id].token = s.token
  BY <1>1, <1>2, <1>4
<1> QED
  BY <1>3, <1>5, <1>6

LEMMA CurrentFact ==
    ASSUME Types
    PROVE  /\ Current \subseteq Tokens
           /\ \A k : k \in Current <=>
                 \E m \in Members : sessions[m] # NoSession
                                    /\ sessions[m].token = k
BY DEF Types, Current, Sessions

\* A record that the next save writes is a session, and the other way round.
LEMMA SavedFact ==
    ASSUME Types
    PROVE  /\ AsSaved \subseteq Saved
           /\ TokensOf(AsSaved) = Current
           /\ \A s \in AsSaved : /\ sessions[s.id] # NoSession
                                 /\ s.token = sessions[s.id].token
                                 /\ s.profile = sessions[s.id].profile
<1> DEFINE Of(m) == [id |-> m, token |-> sessions[m].token,
                     profile |-> sessions[m].profile]
           Ids == {n \in Members : sessions[n] # NoSession}
<1>1. \A m \in Ids : sessions[m] \in Sessions
  BY DEF Types
<1>2. \A m \in Ids : Of(m) \in Saved
  BY <1>1 DEF Sessions, Saved
<1>3. AsSaved = {Of(m) : m \in Ids} /\ Current = {sessions[m].token : m \in Ids}
  BY DEF AsSaved, Current
<1>4. TokensOf(AsSaved) = Current
  <2>1. \A m \in Ids : Of(m).token = sessions[m].token
    OBVIOUS
  <2> HIDE DEF Of, Ids
  <2> QED
    BY <1>3, <2>1 DEF TokensOf
<1> QED
  BY <1>2, <1>3, <1>4

LEMMA SameRecord ==
    ASSUME NEW r \in AsSaved, NEW s \in AsSaved, r.id = s.id
    PROVE  r = s
BY DEF AsSaved

LEMMA LoginFact ==
    ASSUME Types, NEW m \in Members, Login(m)
    PROVE  /\ call' \in [Threads -> Calls] /\ call'["admin"] = call["admin"]
           /\ call'["login"].op = "login" /\ call'["login"].id = m
           /\ call'["login"].profile \in Authentic(m)
           /\ call'["login"].ends = 0 /\ call'["login"].begins = 0
           /\ call'["login"].raced <=> Busy("admin", m)
           /\ pc["login"] = "idle" /\ pc' = [pc EXCEPT !["login"] = "get"]
           /\ UNCHANGED <<setting, entries, disk, storeVars, selected, request,
                          crashes, raced>>
<1>1. PICK p \in Authentic(m) :
          call' = [call EXCEPT !["login"] =
                     [Call("login", m, p) EXCEPT !.raced = Busy("admin", m)]]
  BY DEF Login
<1>2. p \in Profiles
  <2>1. entries[m] \in Profiles \cup {NoEntry} /\ setting.profiles \subseteq Profiles
    BY SettingFact DEF Types
  <2> QED
    BY <1>1, <2>1 DEF Authentic, FileAnswers, ObjectAnswers, MadeUp
<1> DEFINE c == Call("login", m, p)
           b == Busy("admin", m)
           d == [c EXCEPT !.raced = b]
<1>3. /\ c \in Calls /\ c.op = "login" /\ c.id = m /\ c.profile = p
      /\ c.ends = 0 /\ c.begins = 0
  BY <1>2, CallFact DEF Ops
<1>4. b \in BOOLEAN
  BY DEF Busy
<1> HIDE DEF c, b
<1>5. /\ d \in Calls /\ d.op = "login" /\ d.id = m /\ d.profile = p
      /\ d.ends = 0 /\ d.begins = 0 /\ d.raced = b
  BY <1>3, <1>4 DEF Calls
<1>6. call' = [call EXCEPT !["login"] = d]
  BY <1>1 DEF c, b
<1> HIDE DEF d
<1>7. /\ call' \in [Threads -> Calls] /\ call'["login"] = d
      /\ call'["admin"] = call["admin"]
  BY <1>5, <1>6 DEF Types, Threads
<1>8. /\ pc["login"] = "idle" /\ pc' = [pc EXCEPT !["login"] = "get"]
      /\ UNCHANGED <<setting, entries, disk, storeVars, selected, request,
                     crashes, raced>>
  BY DEF Login
<1> QED
  BY <1>1, <1>5, <1>7, <1>8 DEF b

LEMMA DeleteFact ==
    ASSUME Types, NEW m \in Members, Delete(m)
    PROVE  /\ pc["admin"] = "idle"
           /\ call' \in [Threads -> Calls]
           /\ call'["admin"].op = "delete" /\ call'["admin"].id = m
           /\ call'["admin"].begins = 0
           /\ SameCall(call'["login"], Called(Call("delete", m, NoCall.profile))["login"])
           /\ call'["login"].ends = call["login"].ends
           /\ sessions' \in [Members -> Sessions \cup {NoSession}]
           /\ sessions'[m] = NoSession
           /\ \A n \in Members : n # m => sessions'[n] = sessions[n]
           /\ pc'["login"] = pc["login"]
           /\ \E x \in {"provider", "snapshot"} :
                 pc' = [pc EXCEPT !["admin"] = x]
           /\ sessions[m] = NoSession =>
                 /\ call'["admin"].ends = 0 /\ live' = live
                 /\ pc'["admin"] = "provider"
           /\ sessions[m] # NoSession =>
                 /\ call'["admin"].ends = sessions[m].token
                 /\ live' = live \ {sessions[m].token}
                 /\ pc'["admin"] = "snapshot"
           /\ UNCHANGED <<setting, entries, disk, selected, request, crashes,
                          raced, file, data, alone, issued, gone, stale>>
<1> DEFINE c == Call("delete", m, NoCall.profile)
           calls == Called(c)
<1>1. /\ c \in Calls /\ c.op = "delete" /\ c.id = m
      /\ c.ends = 0 /\ c.begins = 0
  BY NoCallFact, CallFact DEF Calls, Ops
<1> HIDE DEF c
<1>2. /\ calls \in [Threads -> Calls] /\ calls["admin"] = c
      /\ calls["login"].ends = call["login"].ends
  BY <1>1, CalledFact
<1> HIDE DEF calls
<1>3. /\ pc["admin"] = "idle"
      /\ UNCHANGED <<setting, entries, disk, selected, request, crashes, raced>>
      /\ sessions[m] = NoSession => /\ pc' = [pc EXCEPT !["admin"] = "provider"]
                                    /\ call' = calls
                                    /\ UNCHANGED storeVars
      /\ sessions[m] # NoSession => RemoveSession("admin", m, calls)
  BY DEF Delete, calls, c
<1>4. CASE sessions[m] = NoSession
  <2>1. pc'["login"] = pc["login"] /\ pc'["admin"] = "provider"
    BY <1>3, <1>4 DEF Types, Threads
  <2>2. UNCHANGED <<sessions, live, file, data, alone, issued, gone, stale>>
    BY <1>3, <1>4 DEF storeVars
  <2> QED
    BY <1>1, <1>2, <1>3, <1>4, <2>1, <2>2 DEF SameCall, calls, c, Types
<1>5. CASE sessions[m] # NoSession
  <2>1. RemoveSession("admin", m, calls) /\ "admin" \in Threads
    BY <1>3, <1>5 DEF Threads
  <2>2. /\ sessions' \in [Members -> Sessions \cup {NoSession}]
        /\ sessions'[m] = NoSession
        /\ \A n \in Members : n # m => sessions'[n] = sessions[n]
        /\ live' = live \ {sessions[m].token}
        /\ call' \in [Threads -> Calls]
        /\ call'["admin"].ends = sessions[m].token
        /\ SameCall(call'["admin"], calls["admin"])
        /\ pc' = [pc EXCEPT !["admin"] = "snapshot"]
        /\ call'["login"] = calls["login"] /\ pc'["login"] = pc["login"]
        /\ UNCHANGED <<file, data, alone, issued, gone, stale>>
    BY <1>2, <1>5, <2>1, RemoveFact DEF Threads
  <2>3. pc'["admin"] = "snapshot"
    BY <2>2 DEF Types, Threads
  <2> QED
    BY <1>1, <1>2, <1>3, <1>5, <2>2, <2>3 DEF SameCall, calls, c
<1> QED
  BY <1>4, <1>5

LEMMA LogoutFact ==
    ASSUME Types, Logout
    PROVE  LET m == request.id IN
           /\ pc["login"] = "idle" /\ request' = NoRequest
           /\ sessions[m] = NoSession => UNCHANGED <<storeVars, pc, call>>
           /\ sessions[m] # NoSession =>
                 /\ call' \in [Threads -> Calls]
                 /\ call'["login"].op = "logout" /\ call'["login"].id = m
                 /\ call'["login"].begins = 0 /\ ~call'["login"].raced
                 /\ call'["login"].ends = sessions[m].token
                 /\ call'["admin"] = call["admin"]
                 /\ sessions' \in [Members -> Sessions \cup {NoSession}]
                 /\ sessions'[m] = NoSession
                 /\ \A n \in Members : n # m => sessions'[n] = sessions[n]
                 /\ live' = live \ {sessions[m].token}
                 /\ pc' = [pc EXCEPT !["login"] = "snapshot"]
                 /\ UNCHANGED <<file, data, alone, issued, gone, stale>>
           /\ UNCHANGED <<setting, entries, disk, selected, crashes, raced>>
<1> DEFINE m == request.id
           c == Call("logout", m, NoCall.profile)
           calls == [call EXCEPT !["login"] = c]
<1>1. m \in Members
  BY DEF Types
<1>2. /\ c \in Calls /\ c.op = "logout" /\ c.id = m
      /\ c.begins = 0 /\ ~c.raced
  BY <1>1, NoCallFact, CallFact DEF Calls, Ops
<1>3. /\ pc["login"] = "idle" /\ request' = NoRequest
      /\ sessions[m] = NoSession => UNCHANGED <<storeVars, pc, call>>
      /\ sessions[m] # NoSession => RemoveSession("login", m, calls)
      /\ UNCHANGED <<setting, entries, disk, selected, crashes, raced>>
  BY DEF Logout
<1> HIDE DEF c
<1>4. /\ calls \in [Threads -> Calls] /\ calls["login"] = c
      /\ calls["admin"] = call["admin"] /\ "login" \in Threads
  BY <1>2 DEF Types, Threads
<1> HIDE DEF calls, m
<1>5. ASSUME sessions[m] # NoSession
      PROVE  /\ sessions' \in [Members -> Sessions \cup {NoSession}]
             /\ sessions'[m] = NoSession
             /\ \A n \in Members : n # m => sessions'[n] = sessions[n]
             /\ live' = live \ {sessions[m].token}
             /\ call' \in [Threads -> Calls]
             /\ call'["login"].ends = sessions[m].token
             /\ SameCall(call'["login"], calls["login"])
             /\ pc' = [pc EXCEPT !["login"] = "snapshot"]
             /\ call'["admin"] = calls["admin"]
             /\ UNCHANGED <<file, data, alone, issued, gone, stale>>
  BY <1>1, <1>3, <1>4, <1>5, RemoveFact DEF Threads
<1> QED
  BY <1>2, <1>3, <1>4, <1>5 DEF SameCall, m

-----------------------------------------------------------------------------
(* Types.                                                                   *)

LEMMA TypesStep ==
    Types /\ Distinct(Loaded) /\ [AccountsNext]_accountsVars => Types'
<1> SUFFICES ASSUME Types, Distinct(Loaded), [AccountsNext]_accountsVars
             PROVE  Types'
  OBVIOUS
<1> USE DEF Types, Threads, storeVars
<1>1. CASE UNCHANGED accountsVars
  BY <1>1 DEF accountsVars
<1>2. ASSUME NEW t \in Threads, Snapshot(t) PROVE Types'
  <2> DEFINE a(u) == IF u = t THEN \A v \in Threads : ~Saving(v)
                              ELSE alone[u] /\ ~Saving(u)
  <2>1. \A u \in Threads : a(u) \in BOOLEAN
    OBVIOUS
  <2>2. alone' = [u \in Threads |-> a(u)]
    BY <1>2 DEF Snapshot
  <2> HIDE DEF a
  <2>3. alone' \in [Threads -> BOOLEAN]
    BY <2>1, <2>2
  <2>4. pc' = [pc EXCEPT ![t] = "truncate"]
    BY <1>2 DEF Snapshot
  <2> QED
    BY <1>2, <2>3, <2>4 DEF Snapshot
<1>3. ASSUME NEW t \in Threads, Truncate(t) PROVE Types'
  BY <1>3 DEF Truncate
<1>4. ASSUME NEW t \in Threads, Write(t) PROVE Types'
  <2>1. live' \subseteq Tokens
    <3>1. live' = live \cup ({call[t].begins} \cap Current)
      BY <1>4 DEF Write
    <3>2. Current \subseteq Tokens
      BY CurrentFact
    <3> QED
      BY <3>1, <3>2
  <2>2. gone' \subseteq Tokens
    <3>1. call[t].ends \in 0 .. MaxTokens
      BY DEF Calls
    <3>2. {call[t].ends} \ {0} \subseteq Tokens
      BY <3>1, AccountsAssumption DEF Tokens
    <3> QED
      BY <1>4, <3>2 DEF Write
  <2>3. stale' \in BOOLEAN /\ alone' \in [Threads -> BOOLEAN]
    BY <1>4 DEF Write
  <2>4. call' \in [Threads -> Calls]
    BY <1>4, ReturnFact DEF Write
  <2>5. pc' \in [Threads -> {"idle", "get", "replace", "create", "snapshot",
                            "truncate", "write", "provider", "store"}]
    BY <1>4, ReturnFact DEF Write, AfterSave
  <2>6. UNCHANGED <<setting, entries, disk, sessions, request, issued, raced>>
    BY <1>4 DEF Write
  <2> QED
    BY <2>1, <2>2, <2>3, <2>4, <2>5, <2>6
<1>5. CASE CreateSession("login")
  <2>1. CASE sessions[call["login"].id] = NoSession
    <3>1. issued' \in 0 .. MaxTokens
      BY <1>5, <2>1, CreateFact, AccountsAssumption
    <3>2. raced' \subseteq Members
      BY <1>5, <2>1, CreateFact
    <3>3. pc' = [pc EXCEPT !["login"] = "snapshot"]
      BY <1>5, <2>1 DEF CreateSession
    <3> QED
      BY <1>5, <2>1, <3>1, <3>2, <3>3, CreateFact
  <2>2. CASE sessions[call["login"].id] # NoSession
    <3>1. call' \in [Threads -> Calls] /\ pc' = [pc EXCEPT !["login"] = "idle"]
      BY <1>5, <2>2, ReturnFact DEF CreateSession
    <3> QED
      BY <1>5, <2>2, <3>1 DEF CreateSession
  <2> QED
    BY <2>1, <2>2
<1>6. CASE LoginGet
  <2>1. call' \in [Threads -> Calls]
    BY <1>6, ReturnFact DEF LoginGet
  <2>2. \E x \in {"create", "replace", "idle"} :
            pc' = [pc EXCEPT !["login"] = x]
    BY <1>6, ReturnFact DEF LoginGet
  <2> QED
    BY <1>6, <2>1, <2>2 DEF LoginGet
<1>7. CASE LoginReplace
  <2> DEFINE m == call["login"].id
  <2>0. m \in Members
    BY DEF Calls
  <2>1. CASE sessions[m] = NoSession
    <3>1. call' \in [Threads -> Calls] /\ pc' = [pc EXCEPT !["login"] = "idle"]
      BY <1>7, <2>1, ReturnFact DEF LoginReplace
    <3> QED
      BY <1>7, <2>1, <3>1 DEF LoginReplace
  <2>2. CASE sessions[m] # NoSession
    <3>1. RemoveSession("login", m, call)
      BY <1>7, <2>2 DEF LoginReplace
    <3>2. UNCHANGED <<setting, entries, disk, request, raced>>
      BY <1>7 DEF LoginReplace
    <3> QED
      BY <2>0, <2>2, <3>1, <3>2, RemoveFact
  <2> QED
    BY <2>1, <2>2
<1>8. CASE Authenticate
  <2>1. NoRequest.id \in Members
    BY NoCallFact DEF NoRequest, Calls
  <2>2. request'.id \in Members
    BY <1>8, <2>1 DEF Authenticate
  <2> QED
    BY <1>8, <2>2 DEF Authenticate
<1>9. CASE Logout
  <2>1. NoRequest.id \in Members
    BY NoCallFact DEF NoRequest, Calls
  <2>2. CASE sessions[request.id] = NoSession
    BY <1>9, <2>1, <2>2, LogoutFact
  <2>3. CASE sessions[request.id] # NoSession
    BY <1>9, <2>1, <2>3, LogoutFact
  <2> QED
    BY <2>2, <2>3
<1>10. ASSUME NEW tok \in Tokens, FindToken(tok) PROVE Types'
  BY <1>10 DEF FindToken
<1>11. ASSUME NEW m \in Members, Login(m) PROVE Types'
  BY <1>11, LoginFact
<1>12. ASSUME NEW m \in Members, Toggle(m) PROVE Types'
  BY <1>12, ToggleFact DEF Toggle
<1>13. ASSUME NEW m \in Members, Select(m) PROVE Types'
  BY <1>13 DEF Select
<1>14. ASSUME NEW m \in Members, UpdatePassword(m) PROVE Types'
  <2>1. Change(Call("password", m, NoCall.profile), m, Stored(m))
        /\ UNCHANGED <<setting, disk, storeVars, request, raced>>
    BY <1>14 DEF UpdatePassword
  <2>2. /\ Call("password", m, NoCall.profile) \in Calls
        /\ Stored(m) \in Profiles \cup {NoEntry}
    BY NoCallFact, CallFact DEF Calls, Ops, Stored
  <2> QED
    BY <2>1, <2>2, ChangeFact
<1>15. ASSUME NEW m \in Members, Delete(m) PROVE Types'
  BY <1>15, DeleteFact
<1>16. ASSUME NEW m \in Members, NEW p \in Profiles, Insert(m, p) PROVE Types'
  <2>1. Change(Call("insert", m, p), m, p)
        /\ UNCHANGED <<setting, disk, storeVars, request, raced>>
    BY <1>16 DEF Insert
  <2>2. Call("insert", m, p) \in Calls /\ p \in Profiles \cup {NoEntry}
    BY NoCallFact, CallFact DEF Calls, Ops, Stored
  <2> QED
    BY <2>1, <2>2, ChangeFact
<1>17. ASSUME NEW m \in Members, NEW p \in Profiles, UpdateProfile(m, p)
       PROVE Types'
  <2>1. Call("update", m, p) \in Calls
    BY CallFact DEF Ops
  <2>2. call' \in [Threads -> Calls]
    BY <1>17, <2>1, UpdateFact, CalledFact
  <2> QED
    BY <1>17, <2>2, UpdateFact
<1>18. CASE Provide
  <2> DEFINE c == call["admin"]
             p == IF c.op = "delete" THEN NoEntry ELSE c.profile
  <2>1. c \in Calls /\ c.id \in Members /\ p \in Profiles \cup {NoEntry}
    BY DEF Calls
  <2>2. UNCHANGED <<setting, disk, storeVars, request, raced>>
    BY <1>18 DEF Provide
  <2>3. CASE Change(c, c.id, p)
    <3> HIDE DEF p
    <3> QED
      BY <2>1, <2>2, <2>3, ChangeFact
  <2>4. CASE Return("admin") /\ UNCHANGED entries
    <3>1. /\ call' \in [Threads -> Calls]
          /\ pc' = [pc EXCEPT !["admin"] = "idle"]
      BY <2>4, ReturnFact
    <3> QED
      BY <2>2, <2>4, <3>1
  <2> QED
    BY <1>18, <2>3, <2>4 DEF Provide
<1>19. CASE Store
  <2>1. call' \in [Threads -> Calls] /\ pc' = [pc EXCEPT !["admin"] = "idle"]
    BY <1>19, ReturnFact DEF Store
  <2> QED
    BY <1>19, <2>1 DEF Store
<1>20. CASE Crash
  <2>1. sessions' \in [Members -> Sessions \cup {NoSession}]
    BY <1>20, CrashFact
  <2>2. entries' \in [Members -> Profiles \cup {NoEntry}]
    BY <1>20, AccountsAssumption DEF Crash, FirstEntries
  <2>3. live' \subseteq Tokens /\ gone' \subseteq Tokens
    <3>1. {s.token : s \in Loaded} \subseteq Tokens
      BY DEF Distinct, Saved
    <3> QED
      BY <1>20, <3>1 DEF Crash
  <2>4. raced' \subseteq Members /\ stale' \in BOOLEAN
    BY <1>20 DEF Crash
  <2>5. call' \in [Threads -> Calls] /\ alone' \in [Threads -> BOOLEAN]
    BY <1>20, NoCallFact DEF Crash
  <2>6. /\ pc' \in [Threads -> {"idle", "get", "replace", "create", "snapshot",
                               "truncate", "write", "provider", "store"}]
        /\ disk' \in {"whole", "empty", "partial"}
        /\ UNCHANGED <<setting, issued>>
    BY <1>20 DEF Crash
  <2>7. request'.id \in Members
    BY <1>20, NoCallFact DEF Crash, NoRequest, Calls
  <2> QED
    BY <2>1, <2>2, <2>3, <2>4, <2>5, <2>6, <2>7
<1>21. setting \in Settings
  BY DEF Types
<1> QED
  BY <1>1, <1>2, <1>3, <1>4, <1>5, <1>6, <1>7, <1>8, <1>9, <1>10, <1>11,
     <1>12, <1>13, <1>14, <1>15, <1>16, <1>17, <1>18, <1>19, <1>20, <1>21, SettingFact
     DEF AccountsNext

LEMMA ThreadsStep ==
    Types /\ ThreadsInv /\ [AccountsNext]_accountsVars => ThreadsInv'
<1> SUFFICES ASSUME Types, ThreadsInv, [AccountsNext]_accountsVars
             PROVE  ThreadsInv'
  OBVIOUS
<1> USE DEF ThreadsInv, Threads
<1>1. CASE UNCHANGED accountsVars
  BY <1>1 DEF accountsVars
<1>2. ASSUME NEW t \in Threads, Snapshot(t) PROVE ThreadsInv'
  BY <1>2 DEF Snapshot, Types
<1>3. ASSUME NEW t \in Threads, Truncate(t) PROVE ThreadsInv'
  BY <1>3 DEF Truncate, Types
<1>4. ASSUME NEW t \in Threads, Write(t) PROVE ThreadsInv'
  <2>1. pc[t] = "write" /\ DOMAIN pc = Threads
    BY <1>4 DEF Write, Types
  <2>2. CASE AfterSave(t) = "idle"
    <3>1. Return(t)
      BY <1>4, <2>2 DEF Write
    <3> QED
      BY <3>1, ReturnFact
  <2>3. CASE AfterSave(t) # "idle"
    <3>1. pc' = [pc EXCEPT ![t] = AfterSave(t)] /\ call' = call
      BY <1>4, <2>3 DEF Write
    <3>2. \/ AfterSave(t) = "create" /\ call[t].op = "login"
          \/ AfterSave(t) = "provider" /\ call[t].op \in {"delete", "update"}
      BY <2>3 DEF AfterSave
    <3> QED
      BY <2>1, <3>1, <3>2
  <2> QED
    BY <2>2, <2>3
<1>5. CASE CreateSession("login")
  <2>1. CASE sessions[call["login"].id] = NoSession
    BY <1>5, <2>1, CreateFact
  <2>2. CASE sessions[call["login"].id] # NoSession
    BY <1>5, <2>2, ReturnFact DEF CreateSession
  <2> QED
    BY <2>1, <2>2
<1>6. CASE LoginGet
  <2>1. pc["login"] = "get" /\ DOMAIN pc = Threads
    BY <1>6 DEF LoginGet, Types
  <2>2. CASE Return("login")
    BY <2>2, ReturnFact
  <2>3. ASSUME NEW x \in {"create", "replace"},
               pc' = [pc EXCEPT !["login"] = x], call' = call
        PROVE  ThreadsInv'
    BY <2>1, <2>3
  <2> QED
    BY <1>6, <2>2, <2>3 DEF LoginGet
<1>7. CASE LoginReplace
  <2>1. CASE sessions[call["login"].id] = NoSession
    BY <1>7, <2>1, ReturnFact DEF LoginReplace
  <2>2. CASE sessions[call["login"].id] # NoSession
    <3>1. RemoveSession("login", call["login"].id, call)
          /\ call["login"].id \in Members
      BY <1>7, <2>2 DEF LoginReplace, Types, Calls
    <3> QED
      BY <1>7, <2>2, <3>1, RemoveFact DEF SameCall, LoginReplace, Types
  <2> QED
    BY <2>1, <2>2
<1>8. CASE Authenticate
  BY <1>8 DEF Authenticate
<1>9. CASE Logout
  BY <1>9, LogoutFact DEF storeVars, Types
<1>10. ASSUME NEW tok \in Tokens, FindToken(tok) PROVE ThreadsInv'
  BY <1>10 DEF FindToken
<1>11. ASSUME NEW m \in Members, Login(m) PROVE ThreadsInv'
  BY <1>11, LoginFact DEF Types
<1>12. ASSUME NEW m \in Members, Toggle(m) PROVE ThreadsInv'
  BY <1>12 DEF Toggle
<1>13. ASSUME NEW m \in Members, Select(m) PROVE ThreadsInv'
  BY <1>13 DEF Select
<1>14. ASSUME NEW m \in Members, UpdatePassword(m) PROVE ThreadsInv'
  <2>1. Change(Call("password", m, NoCall.profile), m, Stored(m))
    BY <1>14 DEF UpdatePassword
  <2>2. /\ Call("password", m, NoCall.profile) \in Calls
        /\ Stored(m) \in Profiles \cup {NoEntry}
    BY NoCallFact, CallFact DEF Calls, Ops, Stored, Types
  <2> QED
    BY <2>1, <2>2, ChangeFact DEF Types
<1>15. ASSUME NEW m \in Members, Delete(m) PROVE ThreadsInv'
  <2>1. Call("delete", m, NoCall.profile) \in Calls
    BY NoCallFact, CallFact DEF Calls, Ops
  <2>2. call'["login"].op = call["login"].op
    BY <1>15, <2>1, DeleteFact, CalledFact DEF SameCall
  <2> QED
    BY <1>15, <2>2, DeleteFact DEF Types
<1>16. ASSUME NEW m \in Members, NEW p \in Profiles, Insert(m, p)
       PROVE ThreadsInv'
  <2>1. Change(Call("insert", m, p), m, p)
    BY <1>16 DEF Insert
  <2>2. Call("insert", m, p) \in Calls /\ p \in Profiles \cup {NoEntry}
    BY NoCallFact, CallFact DEF Calls, Ops, Stored, Types
  <2> QED
    BY <2>1, <2>2, ChangeFact DEF Types
<1>17. ASSUME NEW m \in Members, NEW p \in Profiles, UpdateProfile(m, p)
       PROVE ThreadsInv'
  <2>1. /\ Call("update", m, p) \in Calls
        /\ Call("update", m, p).op = "update"
    BY CallFact DEF Ops
  <2>2. /\ call'["login"].op = call["login"].op
        /\ call'["admin"].op = "update"
    BY <1>17, <2>1, UpdateFact, CalledFact
  <2> QED
    BY <1>17, <2>2, UpdateFact DEF Types
<1>18. CASE Provide
  <2> DEFINE c == call["admin"]
             p == IF c.op = "delete" THEN NoEntry ELSE c.profile
  <2>1. c \in Calls /\ c.id \in Members /\ p \in Profiles \cup {NoEntry}
    BY DEF Calls, Types
  <2>2. CASE Change(c, c.id, p)
    <3> HIDE DEF p
    <3> QED
      BY <2>1, <2>2, ChangeFact DEF Types
  <2>3. CASE Return("admin") /\ UNCHANGED entries
    BY <2>3, ReturnFact
  <2> QED
    BY <1>18, <2>2, <2>3 DEF Provide
<1>19. CASE Store
  BY <1>19, ReturnFact DEF Store
<1>20. CASE Crash
  BY <1>20 DEF Crash
<1>21. setting \in Settings
  BY DEF Types
<1> QED
  BY <1>1, <1>2, <1>3, <1>4, <1>5, <1>6, <1>7, <1>8, <1>9, <1>10, <1>11,
     <1>12, <1>13, <1>14, <1>15, <1>16, <1>17, <1>18, <1>19, <1>20, <1>21, SettingFact
     DEF AccountsNext

-----------------------------------------------------------------------------
(* Tokens and saves.                                                        *)

\* Most steps change no file, make no token and leave the saves alone: they
\* may take a session away, and its token is what their thread ends then.
Calm ==
    /\ UNCHANGED <<file, data, alone, issued, gone, stale>>
    /\ live' \subseteq live
    /\ \A m \in Members : sessions'[m] # NoSession =>
          /\ sessions[m] # NoSession
          /\ sessions'[m].token = sessions[m].token
    /\ \A k \in live' : k \in Current => k \in Current'
    /\ \A t \in Threads :
          \/ /\ call'[t].ends \in {0, call[t].ends}
             /\ call'[t].begins \in {0, call[t].begins}
          \/ /\ \E m \in Members : /\ sessions[m] # NoSession
                                   /\ sessions'[m] = NoSession
                                   /\ call'[t].ends = sessions[m].token
             /\ call'[t].begins \in {0, call[t].begins}
    /\ \A t \in Threads : Saving(t) \/ Saving(t)' =>
          /\ pc'[t] = pc[t] /\ call'[t].ends = call[t].ends
          /\ call'[t].begins = call[t].begins

Creation == CreateSession("login") /\ sessions[call["login"].id] = NoSession

\* A step that takes at most m's session away, at the hands of thread t.
LEMMA CalmFact ==
    ASSUME Types, Types', NEW t \in Threads, NEW m \in Members,
           \A n \in Members : n # m => sessions'[n] = sessions[n],
           \/ /\ (sessions'[m] = NoSession) <=> (sessions[m] = NoSession)
              /\ sessions[m] # NoSession =>
                    sessions'[m].token = sessions[m].token
              /\ live' = live
              /\ call'[t].ends \in {0, call[t].ends}
           \/ /\ sessions[m] # NoSession /\ sessions'[m] = NoSession
              /\ live' = live \ {sessions[m].token}
              /\ call'[t].ends = sessions[m].token,
           call'[t].begins \in {0, call[t].begins},
           ~Saving(t), ~Saving(t)',
           \A u \in Threads : u # t =>
               /\ pc'[u] = pc[u] /\ call'[u].ends = call[u].ends
               /\ call'[u].begins = call[u].begins,
           UNCHANGED <<file, data, alone, issued, gone, stale>>
    PROVE  Calm
<1>1. \A n \in Members : sessions'[n] # NoSession =>
          /\ sessions[n] # NoSession
          /\ sessions'[n].token = sessions[n].token
  OBVIOUS
<1>2. live' \subseteq live
  OBVIOUS
<1>3. ASSUME NEW k \in live', k \in Current PROVE k \in Current'
  <2>1. PICK n \in Members : sessions[n] # NoSession /\ sessions[n].token = k
    BY <1>3, CurrentFact
  <2>2. sessions'[n] # NoSession /\ sessions'[n].token = k
    BY <1>3, <2>1
  <2> QED
    BY <2>1, <2>2 DEF Current
<1>4. \A u \in Threads : u # t => (Saving(u)' <=> Saving(u))
  BY DEF Saving
<1>5. ASSUME NEW u \in Threads
      PROVE  \/ /\ call'[u].ends \in {0, call[u].ends}
                /\ call'[u].begins \in {0, call[u].begins}
             \/ /\ \E n \in Members : /\ sessions[n] # NoSession
                                      /\ sessions'[n] = NoSession
                                      /\ call'[u].ends = sessions[n].token
                /\ call'[u].begins \in {0, call[u].begins}
  BY <1>5
<1>6. ASSUME NEW u \in Threads, Saving(u) \/ Saving(u)'
      PROVE  /\ pc'[u] = pc[u] /\ call'[u].ends = call[u].ends
             /\ call'[u].begins = call[u].begins
  BY <1>4, <1>6
<1> QED
  BY <1>1, <1>2, <1>3, <1>5, <1>6 DEF Calm

\* Thread t returns to its caller, or goes on, without having saved.
LEMMA CalmReturn ==
    ASSUME Types, Types', NEW t \in Threads, Return(t), ~Saving(t),
           UNCHANGED storeVars
    PROVE  Calm
<1>1. PICK m \in Members : TRUE
  BY AccountsAssumption
<1>2. /\ call'[t] = NoCall /\ pc'[t] = "idle"
      /\ \A u \in Threads : u # t => call'[u] = call[u] /\ pc'[u] = pc[u]
  BY ReturnFact
<1>3. NoCall.ends = 0 /\ NoCall.begins = 0
  BY NoCallFact
<1> QED
  BY <1>1, <1>2, <1>3, CalmFact DEF storeVars, Saving

LEMMA CalmChange ==
    ASSUME Types, Types', NEW c \in Calls, NEW m \in Members,
           NEW p \in Profiles \cup {NoEntry}, Change(c, m, p),
           c.ends \in {0, call["admin"].ends},
           c.begins \in {0, call["admin"].begins},
           ~Saving("admin"), UNCHANGED storeVars
    PROVE  Calm
<1>1. /\ call'["login"] = call["login"] /\ pc'["login"] = pc["login"]
      /\ pc'["admin"] \in {"store", "idle"}
      /\ call'["admin"] \in {c, NoCall} /\ "admin" \in Threads
  BY ChangeFact DEF Threads
<1>2. NoCall.ends = 0 /\ NoCall.begins = 0
  BY NoCallFact
<1> QED
  BY <1>1, <1>2, CalmFact DEF storeVars, Threads, Saving

\* What a step is, for the tokens and the saves.
Effect == \/ Calm \/ Creation \/ Crash
          \/ \E t \in Threads : Snapshot(t) \/ Truncate(t) \/ Write(t)

LEMMA StepIs ==
    Types /\ Types' /\ [AccountsNext]_accountsVars => Effect
<1> SUFFICES ASSUME Types, Types', [AccountsNext]_accountsVars
             PROVE  Effect
  OBVIOUS
<1> USE DEF Effect
<1>1. CASE UNCHANGED accountsVars
  <2>1. PICK m \in Members : TRUE
    BY AccountsAssumption
  <2>2. "login" \in Threads /\ "admin" \in Threads
    BY DEF Threads
  <2> QED
    BY <1>1, <2>1, <2>2 DEF accountsVars, Calm, Current, Saving
<1>2. ASSUME NEW t \in Threads, Snapshot(t) PROVE Effect
  BY <1>2
<1>3. ASSUME NEW t \in Threads, Truncate(t) PROVE Effect
  BY <1>3
<1>4. ASSUME NEW t \in Threads, Write(t) PROVE Effect
  BY <1>4
<1>5. CASE CreateSession("login")
  <2>1. CASE sessions[call["login"].id] = NoSession
    BY <1>5, <2>1 DEF Creation
  <2>2. CASE sessions[call["login"].id] # NoSession
    <3>1. Return("login") /\ UNCHANGED storeVars /\ ~Saving("login")
      BY <1>5, <2>2 DEF CreateSession, storeVars, Saving
    <3> QED
      BY <3>1, CalmReturn DEF Threads
  <2> QED
    BY <2>1, <2>2
<1>6. CASE LoginGet
  <2>1. pc["login"] = "get" /\ DOMAIN pc = Threads /\ UNCHANGED storeVars
    BY <1>6 DEF LoginGet, Types, storeVars
  <2>2. CASE Return("login")
    BY <2>1, <2>2, CalmReturn DEF Threads, Saving
  <2>3. ASSUME NEW x \in {"create", "replace"},
               pc' = [pc EXCEPT !["login"] = x], call' = call
        PROVE  Calm
    BY <2>1, <2>3 DEF Calm, storeVars, Current, Saving
  <2> QED
    BY <1>6, <2>2, <2>3 DEF LoginGet
<1>7. CASE LoginReplace
  <2> DEFINE m == call["login"].id
  <2>0. m \in Members /\ "login" \in Threads
    BY DEF Calls, Types, Threads
  <2>1. CASE sessions[m] = NoSession
    <3>1. Return("login") /\ UNCHANGED storeVars /\ ~Saving("login")
      BY <1>7, <2>1 DEF LoginReplace, Saving
    <3> QED
      BY <2>0, <3>1, CalmReturn
  <2>2. CASE sessions[m] # NoSession
    <3>1. RemoveSession("login", m, call) /\ pc["login"] = "replace"
          /\ call \in [Threads -> Calls]
      BY <1>7, <2>2 DEF LoginReplace, Types
    <3>2. /\ sessions'[m] = NoSession
          /\ \A n \in Members : n # m => sessions'[n] = sessions[n]
          /\ live' = live \ {sessions[m].token}
          /\ call'["login"].ends = sessions[m].token
          /\ SameCall(call'["login"], call["login"])
          /\ pc' = [pc EXCEPT !["login"] = "snapshot"]
          /\ \A u \in Threads : u # "login" => call'[u] = call[u]
                                               /\ pc'[u] = pc[u]
          /\ UNCHANGED <<file, data, alone, issued, gone, stale>>
      BY <2>0, <2>2, <3>1, RemoveFact
    <3>3. pc'["login"] = "snapshot"
      BY <3>2, <2>0 DEF Types
    <3> HIDE DEF m
    <3> QED
      BY <2>0, <2>2, <3>1, <3>2, <3>3, CalmFact DEF SameCall, Saving
  <2> QED
    BY <2>1, <2>2
<1>8. CASE Authenticate
  BY <1>8 DEF Authenticate, storeVars, Calm, Current, Saving
<1>9. CASE Logout
  <2> DEFINE m == request.id
  <2>0. m \in Members /\ "login" \in Threads
    BY DEF Types, Threads
  <2>1. CASE sessions[m] = NoSession
    BY <1>9, <2>1, LogoutFact DEF storeVars, Calm, Current, Saving
  <2>2. CASE sessions[m] # NoSession
    <3>1. /\ call'["login"].begins = 0
          /\ call'["login"].ends = sessions[m].token
          /\ call'["admin"] = call["admin"]
          /\ sessions'[m] = NoSession
          /\ \A n \in Members : n # m => sessions'[n] = sessions[n]
          /\ live' = live \ {sessions[m].token}
          /\ pc' = [pc EXCEPT !["login"] = "snapshot"] /\ pc["login"] = "idle"
          /\ UNCHANGED <<file, data, alone, issued, gone, stale>>
      BY <1>9, <2>2, LogoutFact
    <3>2. pc'["login"] = "snapshot" /\ pc'["admin"] = pc["admin"]
      BY <3>1, <2>0 DEF Types, Threads
    <3> HIDE DEF m
    <3> QED
      BY <2>0, <2>2, <3>1, <3>2, CalmFact DEF Threads, Saving
  <2> QED
    BY <2>1, <2>2
<1>10. ASSUME NEW tok \in Tokens, FindToken(tok) PROVE Effect
  BY <1>10 DEF FindToken, storeVars, Calm, Current, Saving
<1>11. ASSUME NEW m \in Members, Login(m) PROVE Effect
  <2>1. /\ call'["admin"] = call["admin"]
        /\ call'["login"].ends = 0 /\ call'["login"].begins = 0
        /\ pc["login"] = "idle" /\ pc' = [pc EXCEPT !["login"] = "get"]
        /\ UNCHANGED storeVars
    BY <1>11, LoginFact
  <2>2. pc'["login"] = "get" /\ pc'["admin"] = pc["admin"]
    BY <2>1 DEF Types, Threads
  <2> QED
    BY <2>1, <2>2, CalmFact DEF Threads, Saving, storeVars
<1>12. ASSUME NEW m \in Members, Toggle(m) PROVE Effect
  <2>1. "login" \in Threads /\ "admin" \in Threads
    BY DEF Threads
  <2>2. /\ sessions[m] # NoSession /\ sessions'[m] # NoSession
        /\ sessions'[m].token = sessions[m].token
        /\ \A n \in Members : n # m => sessions'[n] = sessions[n]
    BY <1>12, ToggleFact
  <2>3. UNCHANGED <<file, pc, call, data, alone, issued, live, gone, stale>>
    BY <1>12 DEF Toggle
  <2>4. ASSUME NEW k \in Current PROVE k \in Current'
    <3>1. PICK n \in Members : sessions[n] # NoSession /\ sessions[n].token = k
      BY CurrentFact
    <3>2. sessions'[n] # NoSession /\ sessions'[n].token = k
      BY <2>2, <3>1
    <3> QED
      BY <3>1, <3>2 DEF Current
  <2> QED
    BY <2>2, <2>3, <2>4 DEF Calm, Saving
<1>13. ASSUME NEW m \in Members, Select(m) PROVE Effect
  BY <1>13 DEF Select, storeVars, Calm, Current, Saving
<1>14. ASSUME NEW m \in Members, UpdatePassword(m) PROVE Effect
  <2>1. /\ Change(Call("password", m, NoCall.profile), m, Stored(m))
        /\ UNCHANGED storeVars
        /\ pc["admin"] = "idle" /\ "admin" \in Threads
    BY <1>14 DEF UpdatePassword, Threads
  <2>2. /\ Call("password", m, NoCall.profile) \in Calls
        /\ Stored(m) \in Profiles \cup {NoEntry}
        /\ Call("password", m, NoCall.profile).ends = 0
        /\ Call("password", m, NoCall.profile).begins = 0
    BY NoCallFact, CallFact DEF Calls, Ops, Stored, Types
  <2> QED
    BY <2>1, <2>2, CalmChange DEF Saving
<1>15. ASSUME NEW m \in Members, Delete(m) PROVE Effect
  <2>1. Call("delete", m, NoCall.profile) \in Calls
        /\ "admin" \in Threads /\ "login" \in Threads
    BY NoCallFact, CallFact DEF Calls, Ops, Threads
  <2>2. /\ call'["login"].begins = call["login"].begins
        /\ call'["login"].ends = call["login"].ends
        /\ call'["admin"].begins = 0
    BY <1>15, <2>1, DeleteFact, CalledFact DEF SameCall
  <2>3. /\ pc["admin"] = "idle" /\ pc'["login"] = pc["login"]
        /\ sessions'[m] = NoSession
        /\ \A n \in Members : n # m => sessions'[n] = sessions[n]
        /\ sessions[m] = NoSession => /\ call'["admin"].ends = 0
                                      /\ live' = live
                                      /\ pc'["admin"] = "provider"
        /\ sessions[m] # NoSession =>
              /\ call'["admin"].ends = sessions[m].token
              /\ live' = live \ {sessions[m].token}
              /\ pc'["admin"] = "snapshot"
        /\ UNCHANGED <<file, data, alone, issued, gone, stale>>
    BY <1>15, DeleteFact
  <2> QED
    BY <2>1, <2>2, <2>3, CalmFact DEF Threads, Saving
<1>16. ASSUME NEW m \in Members, NEW p \in Profiles, Insert(m, p) PROVE Effect
  <2>1. /\ Change(Call("insert", m, p), m, p) /\ UNCHANGED storeVars
        /\ pc["admin"] = "idle" /\ "admin" \in Threads
    BY <1>16 DEF Insert, Threads
  <2>2. /\ Call("insert", m, p) \in Calls /\ p \in Profiles \cup {NoEntry}
        /\ Call("insert", m, p).ends = 0
        /\ Call("insert", m, p).begins = 0
    BY NoCallFact, CallFact DEF Calls, Ops, Stored, Types
  <2> QED
    BY <2>1, <2>2, CalmChange DEF Saving
<1>17. ASSUME NEW m \in Members, NEW p \in Profiles, UpdateProfile(m, p)
       PROVE Effect
  <2>1. /\ Call("update", m, p) \in Calls
        /\ Call("update", m, p).ends = 0 /\ Call("update", m, p).begins = 0
        /\ "admin" \in Threads
    BY CallFact DEF Ops, Threads
  <2>2. /\ call'["login"].begins = call["login"].begins
        /\ call'["login"].ends = call["login"].ends
        /\ call'["admin"].begins = 0 /\ call'["admin"].ends = 0
    BY <1>17, <2>1, UpdateFact, CalledFact
  <2>3. /\ pc["admin"] = "idle" /\ pc'["login"] = pc["login"]
        /\ pc'["admin"] \in {"provider", "snapshot"}
        /\ (sessions'[m] = NoSession) <=> (sessions[m] = NoSession)
        /\ sessions[m] # NoSession => sessions'[m].token = sessions[m].token
        /\ \A n \in Members : n # m => sessions'[n] = sessions[n]
        /\ live' = live
        /\ UNCHANGED <<file, data, alone, issued, gone, stale>>
    BY <1>17, UpdateFact
  <2> QED
    BY <2>1, <2>2, <2>3, CalmFact DEF Threads, Saving
<1>18. CASE Provide
  <2> DEFINE c == call["admin"]
             p == IF c.op = "delete" THEN NoEntry ELSE c.profile
  <2>1. /\ c \in Calls /\ c.id \in Members /\ p \in Profiles \cup {NoEntry}
        /\ "admin" \in Threads
    BY DEF Calls, Types, Threads
  <2>2. UNCHANGED storeVars /\ ~Saving("admin")
    BY <1>18 DEF Provide, Saving
  <2>3. CASE Change(c, c.id, p)
    <3> HIDE DEF p
    <3> QED
      BY <2>1, <2>2, <2>3, CalmChange
  <2>4. CASE Return("admin") /\ UNCHANGED entries
    BY <2>1, <2>2, <2>4, CalmReturn
  <2> QED
    BY <1>18, <2>3, <2>4 DEF Provide
<1>19. CASE Store
  <2>1. Return("admin") /\ UNCHANGED storeVars /\ ~Saving("admin")
    BY <1>19 DEF Store, Saving
  <2> QED
    BY <2>1, CalmReturn DEF Threads
<1>20. CASE Crash
  BY <1>20
<1>21. setting \in Settings
  BY DEF Types
<1> QED
  BY <1>1, <1>2, <1>3, <1>4, <1>5, <1>6, <1>7, <1>8, <1>9, <1>10, <1>11,
     <1>12, <1>13, <1>14, <1>15, <1>16, <1>17, <1>18, <1>19, <1>20, <1>21, SettingFact
     DEF AccountsNext

\* A list of sessions is not what a torn file holds.
LEMMA TornFact ==
    ASSUME NEW S, S \subseteq Saved
    PROVE  S # Torn
<1>1. \E s \in Torn : s.token = 0
  BY DEF Torn
<1>2. \A s \in S : s.token # 0
  BY AccountsAssumption DEF Saved, Tokens
<1> QED
  BY <1>1, <1>2

LEMMA SnapshotFact ==
    ASSUME Types, TokensInv, NEW t \in Threads, Snapshot(t)
    PROVE  /\ pc[t] = "snapshot" /\ pc'[t] = "truncate"
           /\ data' \in [Threads -> SUBSET Saved] /\ data'[t] = AsSaved
           /\ \A u \in Threads : u # t => data'[u] = data[u] /\ pc'[u] = pc[u]
           /\ alone'[t] => \A u \in Threads : ~Saving(u)
           /\ \A u \in Threads : u # t => (alone'[u] <=> alone[u] /\ ~Saving(u))
           /\ UNCHANGED <<setting, entries, disk, sessions, file, call,
                          selected, request, issued, crashes, live, gone,
                          stale, raced>>
<1>1. /\ pc[t] = "snapshot" /\ pc' = [pc EXCEPT ![t] = "truncate"]
      /\ data' = [data EXCEPT ![t] = AsSaved]
      /\ alone' = [u \in Threads |->
                     IF u = t THEN \A v \in Threads : ~Saving(v)
                              ELSE alone[u] /\ ~Saving(u)]
      /\ UNCHANGED <<setting, entries, disk, sessions, file, call, selected,
                     request, issued, crashes, live, gone, stale, raced>>
  BY DEF Snapshot
<1>2. pc'[t] = "truncate" /\ \A u \in Threads : u # t => pc'[u] = pc[u]
  BY <1>1 DEF Types
<1>3. /\ data' \in [Threads -> SUBSET Saved] /\ data'[t] = AsSaved
      /\ \A u \in Threads : u # t => data'[u] = data[u]
  <2>1. AsSaved \in SUBSET Saved /\ data \in [Threads -> SUBSET Saved]
    BY SavedFact DEF TokensInv
  <2> QED
    BY <1>1, <2>1
<1>4. alone'[t] => \A v \in Threads : ~Saving(v)
  BY <1>1
<1>5. \A u \in Threads : u # t => (alone'[u] <=> alone[u] /\ ~Saving(u))
  BY <1>1
<1> QED
  BY <1>1, <1>2, <1>3, <1>4, <1>5

LEMMA WriteFact ==
    ASSUME Types, TokensInv, NEW t \in Threads, Write(t)
    PROVE  /\ pc[t] = "write"
           /\ pc'[t] \in {"create", "provider", "idle"}
           /\ pc'[t] = "create" => call[t].op = "login" /\ call[t].begins = 0
           /\ pc'[t] = "provider" <=> call[t].op \in {"delete", "update"}
           /\ \A u \in Threads : u # t => /\ pc'[u] = pc[u]
                                          /\ call'[u] = call[u]
                                          /\ data'[u] = data[u]
                                          /\ alone'[u] <=> alone[u]
           /\ call'[t] \in {call[t], NoCall}
           /\ pc'[t] # "idle" => call'[t] = call[t]
           /\ Loaded' \in {{}, data[t]}
           /\ file = {} => Loaded' = data[t]
           /\ data' \in [Threads -> SUBSET Saved] /\ data'[t] = {}
           /\ stale' <=> ~alone[t]
           /\ gone' = gone \cup ({call[t].ends} \ {0})
           /\ live' = live \cup ({call[t].begins} \cap Current)
           /\ UNCHANGED <<setting, entries, disk, sessions, selected, request,
                          issued, crashes, raced>>
<1>1. /\ pc[t] = "write" /\ file' \in Written(t) /\ stale' = ~alone[t]
      /\ gone' = gone \cup ({call[t].ends} \ {0})
      /\ live' = live \cup ({call[t].begins} \cap Current)
      /\ AfterSave(t) = "idle" => Return(t)
      /\ AfterSave(t) # "idle" => pc' = [pc EXCEPT ![t] = AfterSave(t)]
                                  /\ UNCHANGED call
      /\ data' = [data EXCEPT ![t] = {}] /\ alone' = [alone EXCEPT ![t] = TRUE]
      /\ UNCHANGED <<setting, entries, disk, sessions, selected, request,
                     issued, crashes, raced>>
  BY DEF Write
<1>2. /\ Loaded' \in {{}, data[t]}
      /\ file = {} => Loaded' = data[t]
  <2>1. data[t] \subseteq Saved
    BY DEF TokensInv
  <2>2. data[t] # Torn
    BY <2>1, TornFact
  <2>3. file' = data[t] \/ (file' = Torn /\ file # {})
    BY <1>1 DEF Written
  <2>4. Loaded' = IF file' = Torn THEN {} ELSE file'
    BY DEF Loaded, Torn
  <2> QED
    BY <2>2, <2>3, <2>4
<1>3. /\ data' \in [Threads -> SUBSET Saved] /\ data'[t] = {}
      /\ \A u \in Threads : u # t => data'[u] = data[u]
  BY <1>1 DEF TokensInv
<1>4. \A u \in Threads : u # t => (alone'[u] <=> alone[u])
  BY <1>1
<1>5. CASE AfterSave(t) = "idle"
  <2>1. /\ call'[t] = NoCall /\ pc'[t] = "idle"
        /\ \A u \in Threads : u # t => call'[u] = call[u] /\ pc'[u] = pc[u]
    BY <1>1, <1>5, ReturnFact
  <2>2. call[t].op \notin {"delete", "update"}
    BY <1>5 DEF AfterSave
  <2> QED
    BY <1>1, <1>2, <1>3, <1>4, <2>1, <2>2
<1>6. CASE AfterSave(t) # "idle"
  <2>1. /\ call' = call /\ pc'[t] = AfterSave(t)
        /\ \A u \in Threads : u # t => pc'[u] = pc[u]
    BY <1>1, <1>6 DEF Types
  <2>2. \/ AfterSave(t) = "create" /\ call[t].op = "login" /\ call[t].begins = 0
        \/ AfterSave(t) = "provider" /\ call[t].op \in {"delete", "update"}
    BY <1>6 DEF AfterSave
  <2>3. AfterSave(t) = "create" => call[t].op \notin {"delete", "update"}
    BY <2>2
  <2> QED
    BY <1>1, <1>2, <1>3, <1>4, <2>1, <2>2, <2>3
<1> QED
  BY <1>5, <1>6

LEMMA TokensStep ==
    Types /\ Types' /\ TokensInv /\ [AccountsNext]_accountsVars => TokensInv'
<1> SUFFICES ASSUME Types, Types', TokensInv, [AccountsNext]_accountsVars
             PROVE  TokensInv'
  OBVIOUS
<1> DEFINE Holders ==
              /\ \A m \in Members : sessions[m] # NoSession =>
                    sessions[m].token <= issued
              /\ \A m, n \in Members :
                    /\ sessions[m] # NoSession /\ sessions[n] # NoSession
                    /\ sessions[m].token = sessions[n].token
                    => m = n
           Ended == \A t \in Threads :
                       /\ call[t].ends \notin Current
                       /\ call[t].ends <= issued /\ call[t].begins <= issued
           Forgotten == \A k \in gone : k <= issued
<1>1. /\ Holders /\ Ended /\ Forgotten /\ Distinct(Loaded)
      /\ data \in [Threads -> SUBSET Saved]
      /\ \A t \in Threads : Distinct(data[t])
  BY DEF TokensInv
<1>2. issued \in Nat /\ issued' \in Nat /\ MaxTokens \in Nat
  BY AccountsAssumption DEF Types
<1>3. /\ \A t \in Threads : call[t].ends \in Nat /\ call[t].begins \in Nat
      /\ \A m \in Members : sessions[m] # NoSession =>
            sessions[m].token \in Nat /\ sessions[m].token # 0
      /\ \A k \in Current : k \in Nat /\ k # 0
      /\ \A k \in gone : k \in Nat
  <2>1. /\ \A k \in 0 .. MaxTokens : k \in Nat
        /\ \A k \in Tokens : k \in Nat /\ k # 0
    BY <1>2 DEF Tokens
  <2>2. \A t \in Threads : call[t].ends \in 0 .. MaxTokens
                           /\ call[t].begins \in 0 .. MaxTokens
    BY DEF Types, Calls
  <2>3. \A m \in Members : sessions[m] # NoSession =>
            sessions[m].token \in Tokens
    BY DEF Types, Sessions
  <2> QED
    BY <2>1, <2>2, <2>3, CurrentFact DEF Types
<1>4. CASE Calm
  <2>1. UNCHANGED <<file, data, issued, gone>> /\ Loaded' = Loaded
    BY <1>4 DEF Calm, Loaded, Torn
  <2>2. \A m \in Members : sessions'[m] # NoSession =>
            /\ sessions[m] # NoSession
            /\ sessions'[m].token = sessions[m].token
    BY <1>4 DEF Calm
  <2>3. Holders'
    BY <1>1, <2>1, <2>2
  <2>4. ASSUME NEW k \in Current'
        PROVE  /\ k \in Current
               /\ \E m \in Members : /\ sessions'[m] # NoSession
                                     /\ sessions[m].token = k
    <3>1. PICK m \in Members : sessions'[m] # NoSession /\ sessions'[m].token = k
      BY <2>4 DEF Current
    <3> QED
      BY <2>2, <3>1 DEF Current
  <2>5. ASSUME NEW t \in Threads
        PROVE  /\ call'[t].ends \notin Current'
               /\ call'[t].ends <= issued /\ call'[t].begins <= issued
    <3>1. call'[t].begins <= issued
      BY <1>1, <1>2, <1>4 DEF Calm
    <3>2. CASE call'[t].ends \in {0, call[t].ends}
      BY <1>1, <1>2, <1>3, <2>4, <3>1, <3>2
    <3>3. CASE \E m \in Members : /\ sessions[m] # NoSession
                                  /\ sessions'[m] = NoSession
                                  /\ call'[t].ends = sessions[m].token
      <4>1. PICK m \in Members : /\ sessions[m] # NoSession
                                 /\ sessions'[m] = NoSession
                                 /\ call'[t].ends = sessions[m].token
        BY <3>3
      <4>2. call'[t].ends \notin Current'
        <5>1. SUFFICES ASSUME call'[t].ends \in Current' PROVE FALSE
          OBVIOUS
        <5>2. PICK n \in Members : /\ sessions'[n] # NoSession
                                   /\ sessions[n].token = sessions[m].token
          BY <2>4, <4>1, <5>1
        <5> QED
          BY <1>1, <2>2, <4>1, <5>2
      <4> QED
        BY <1>1, <3>1, <4>1, <4>2
    <3> QED
      BY <1>4, <3>2, <3>3 DEF Calm
  <2>6. Ended' /\ Forgotten'
    BY <1>1, <2>1, <2>5
  <2>7. /\ Distinct(Loaded)' /\ data' \in [Threads -> SUBSET Saved]
        /\ \A t \in Threads : Distinct(data[t])'
    BY <1>1, <2>1 DEF Distinct
  <2> QED
    BY <2>3, <2>6, <2>7 DEF TokensInv
<1>5. CASE Creation
  <2> DEFINE m == call["login"].id
  <2>1. /\ m \in Members /\ issued' = issued + 1
        /\ sessions'[m] # NoSession /\ sessions'[m].token = issued + 1
        /\ \A n \in Members : n # m => sessions'[n] = sessions[n]
        /\ call'["login"].begins = issued + 1 /\ call'["login"].ends = 0
        /\ call'["admin"] = call["admin"]
        /\ UNCHANGED <<file, data, gone>>
    BY <1>5, CreateFact DEF Creation
  <2>2. Loaded' = Loaded /\ issued <= issued'
    BY <1>2, <2>1 DEF Loaded, Torn
  <2> HIDE DEF m
  <2>3. Holders'
    <3>1. \A n \in Members : sessions'[n] # NoSession =>
              sessions'[n].token <= issued'
      BY <1>1, <1>2, <1>3, <2>1
    <3>2. \A n \in Members : n # m /\ sessions'[n] # NoSession =>
              sessions'[n].token # issued + 1
      BY <1>1, <1>2, <1>3, <2>1
    <3> QED
      BY <1>1, <2>1, <3>1, <3>2
  <2>4. ASSUME NEW k \in Current'
        PROVE  k \in Current \/ k = issued + 1
    <3>1. PICK n \in Members : sessions'[n] # NoSession /\ sessions'[n].token = k
      BY <2>4 DEF Current
    <3> QED
      BY <2>1, <3>1 DEF Current
  <2>5. Ended'
    <3>1. /\ call'["admin"].ends \notin Current'
          /\ call'["admin"].ends <= issued' /\ call'["admin"].begins <= issued'
      <4>1. /\ call["admin"].ends \in Nat /\ call["admin"].begins \in Nat
            /\ call["admin"].ends <= issued /\ call["admin"].begins <= issued
            /\ call["admin"].ends \notin Current
        BY <1>1, <1>3 DEF Threads
      <4> QED
        BY <1>2, <2>1, <2>4, <4>1
    <3>2. /\ call'["login"].ends \notin Current'
          /\ call'["login"].ends <= issued' /\ call'["login"].begins <= issued'
      BY <1>2, <1>3, <2>1, <2>4
    <3> QED
      BY <3>1, <3>2 DEF Threads
  <2>6. Forgotten'
    BY <1>1, <1>2, <1>3, <2>1
  <2>7. ASSUME NEW S, Distinct(S)
        PROVE  S \subseteq Saved /\ \A s \in S : s.token <= issued'
    <3>1. \A s \in S : s.token \in Nat /\ s.token <= issued
      BY <1>2, <2>7 DEF Distinct, Saved, Tokens
    <3> QED
      BY <1>2, <2>1, <2>7, <3>1 DEF Distinct
  <2>8. /\ Distinct(Loaded)' /\ data' \in [Threads -> SUBSET Saved]
        /\ \A t \in Threads : Distinct(data[t])'
    BY <1>1, <2>1, <2>2, <2>7 DEF Distinct
  <2> QED
    BY <2>3, <2>5, <2>6, <2>8 DEF TokensInv
<1>6. ASSUME NEW t \in Threads, Snapshot(t) PROVE TokensInv'
  <2>1. /\ UNCHANGED <<sessions, file, call, issued, gone>>
        /\ data' \in [Threads -> SUBSET Saved] /\ data'[t] = AsSaved
        /\ \A u \in Threads : u # t => data'[u] = data[u]
    BY <1>6, SnapshotFact
  <2>2. Distinct(AsSaved)
    <3>1. AsSaved \subseteq Saved /\ \A s \in AsSaved : s.id \in Members
      BY SavedFact DEF Saved
    <3>2. \A s \in AsSaved : /\ sessions[s.id] # NoSession
                             /\ s.token = sessions[s.id].token
      BY SavedFact
    <3>3. \A s \in AsSaved : s.token <= issued
      BY <1>1, <3>1, <3>2
    <3>4. ASSUME NEW r \in AsSaved, NEW s \in AsSaved,
                 r.id = s.id \/ r.token = s.token
          PROVE  r = s
      <4>1. r.id = s.id
        BY <1>1, <3>1, <3>2, <3>4
      <4> QED
        BY <4>1, SameRecord
    <3> QED
      BY <3>1, <3>3, <3>4 DEF Distinct
  <2>3. \A u \in Threads : Distinct(data[u])'
    BY <1>1, <2>1, <2>2 DEF Distinct
  <2>4. Holders' /\ Ended' /\ Forgotten' /\ Distinct(Loaded)'
    BY <1>1, <2>1 DEF Loaded, Torn, Distinct, Current
  <2> QED
    BY <2>1, <2>3, <2>4 DEF TokensInv
<1>7. ASSUME NEW t \in Threads, Truncate(t) PROVE TokensInv'
  <2>1. UNCHANGED <<sessions, data, call, issued, gone>> /\ file' = {}
    BY <1>7 DEF Truncate
  <2>2. Loaded' = {}
    BY <2>1 DEF Loaded, Torn
  <2>3. Distinct(Loaded)' /\ \A u \in Threads : Distinct(data[u])'
    BY <1>1, <2>1, <2>2 DEF Distinct
  <2>4. Holders' /\ Ended' /\ Forgotten'
    BY <1>1, <2>1 DEF Current
  <2> QED
    BY <1>1, <2>1, <2>3, <2>4 DEF TokensInv
<1>8. ASSUME NEW t \in Threads, Write(t) PROVE TokensInv'
  <2>1. /\ UNCHANGED <<sessions, issued>>
        /\ gone' = gone \cup ({call[t].ends} \ {0})
        /\ call'[t] \in {call[t], NoCall}
        /\ \A u \in Threads : u # t => call'[u] = call[u] /\ data'[u] = data[u]
        /\ data' \in [Threads -> SUBSET Saved] /\ data'[t] = {}
        /\ Loaded' \in {{}, data[t]}
    BY <1>8, WriteFact
  <2>2. Holders' /\ Forgotten'
    BY <1>1, <2>1
  <2>3. Ended'
    <3>1. NoCall.ends = 0 /\ NoCall.begins = 0 /\ 0 \notin Current /\ 0 <= issued
      BY <1>2, <1>3, NoCallFact
    <3> QED
      BY <1>1, <2>1, <3>1 DEF Current
  <2>4. Distinct(Loaded)' /\ \A u \in Threads : Distinct(data[u])'
    BY <1>1, <2>1 DEF Distinct
  <2> QED
    BY <2>1, <2>2, <2>3, <2>4 DEF TokensInv
<1>9. CASE Crash
  <2>1. /\ \A m \in Members : sessions'[m] # NoSession =>
              \E s \in Loaded : s.id = m /\ sessions'[m].token = s.token
        /\ UNCHANGED <<issued, file>> /\ gone' \in {{}, gone}
        /\ data' = [t \in Threads |-> {}] /\ call' = [t \in Threads |-> NoCall]
    BY <1>1, <1>9, CrashFact DEF Crash
  <2>2. Holders' /\ Forgotten'
    BY <1>1, <2>1 DEF Distinct
  <2>3. Ended'
    <3>1. NoCall.ends = 0 /\ NoCall.begins = 0
      BY NoCallFact
    <3>2. 0 \notin Current'
      <4>1. \A m \in Members : sessions'[m] # NoSession => sessions'[m].token # 0
        BY <1>2 DEF Types, Sessions, Tokens
      <4> QED
        BY <4>1 DEF Current
    <3> QED
      BY <1>2, <2>1, <3>1, <3>2
  <2>4. /\ Distinct(Loaded)' /\ data' \in [Threads -> SUBSET Saved]
        /\ \A u \in Threads : Distinct(data[u])'
    BY <1>1, <2>1 DEF Distinct, Loaded, Torn
  <2> QED
    BY <2>2, <2>3, <2>4 DEF TokensInv
<1> QED
  BY <1>4, <1>5, <1>6, <1>7, <1>8, <1>9, StepIs DEF Effect

LEMMA SavesStep ==
    /\ Types /\ Types' /\ TokensInv /\ TokensInv'
    /\ SavesInv /\ LoginsSurvive /\ [AccountsNext]_accountsVars
    => SavesInv' /\ LoginsSurvive'
<1> SUFFICES ASSUME Types, Types', TokensInv, TokensInv',
                    SavesInv, LoginsSurvive, [AccountsNext]_accountsVars
             PROVE  SavesInv' /\ LoginsSurvive'
  OBVIOUS
<1> DEFINE Good(t) ==
              /\ \A u \in Threads : Saving(u) => u = t
              /\ live \cup ({call[t].begins} \cap Current)
                    \subseteq TokensOf(data[t])
              /\ (gone \cup {call[t].ends}) \cap TokensOf(data[t]) = {}
              /\ pc[t] = "write" => file = {}
           Kept == /\ live \subseteq TokensOf(Loaded)
                   /\ gone \cap TokensOf(Loaded) = {}
<1>1. /\ \A t \in Threads : Saving(t) /\ alone[t] => Good(t)
      /\ ~Damaged => Kept
      /\ live \subseteq Current /\ gone \cap Current = {}
  BY DEF SavesInv, LoginsSurvive
<1>2. ASSUME \A t \in Threads : Saving(t)' /\ alone'[t] => Good(t)',
             ~Damaged' => Kept',
             live' \subseteq Current' /\ gone' \cap Current' = {}
      PROVE  SavesInv' /\ LoginsSurvive'
  BY <1>2 DEF SavesInv, LoginsSurvive
<1>3. CASE Calm
  <2>1. /\ UNCHANGED <<file, data, alone, gone, stale>> /\ Loaded' = Loaded
        /\ live' \subseteq live
        /\ \A k \in live' : k \in Current => k \in Current'
        /\ \A t \in Threads : Saving(t) \/ Saving(t)' =>
              /\ pc'[t] = pc[t] /\ call'[t].ends = call[t].ends
              /\ call'[t].begins = call[t].begins
    BY <1>3 DEF Calm, Loaded, Torn
  <2>2. Current' \subseteq Current
    BY <1>3 DEF Calm, Current
  <2>3. \A t \in Threads : Saving(t)' => Saving(t)
    BY <2>1 DEF Saving
  <2>4. Damaged' <=> Damaged
    BY <2>1 DEF Damaged, Saving
  <2>5. ASSUME NEW t \in Threads, Saving(t)', alone'[t] PROVE Good(t)'
    <3>1. Saving(t) /\ Good(t)
      BY <1>1, <2>1, <2>3, <2>5
    <3>2. TokensOf(data[t])' = TokensOf(data[t])
      BY <2>1 DEF TokensOf
    <3> QED
      BY <2>1, <2>2, <2>3, <3>1, <3>2
  <2>6. Kept => Kept'
    BY <2>1 DEF TokensOf
  <2> QED
    BY <1>1, <1>2, <2>1, <2>2, <2>4, <2>5, <2>6
<1>4. CASE Creation
  <2> DEFINE m == call["login"].id
  <2>1. /\ m \in Members /\ sessions[m] = NoSession
        /\ issued' = issued + 1
        /\ sessions'[m] # NoSession /\ sessions'[m].token = issued + 1
        /\ \A n \in Members : n # m => sessions'[n] = sessions[n]
        /\ call'["admin"] = call["admin"] /\ pc'["admin"] = pc["admin"]
        /\ pc["login"] = "create" /\ pc'["login"] = "snapshot"
        /\ UNCHANGED <<file, data, alone, live, gone, stale>>
    BY <1>4, CreateFact DEF Creation
  <2> HIDE DEF m
  <2>2. Current \subseteq Current'
    BY <2>1 DEF Current
  <2>3. ASSUME NEW k \in Current' PROVE k \in Current \/ k = issued + 1
    <3>1. PICK n \in Members : sessions'[n] # NoSession /\ sessions'[n].token = k
      BY <2>3 DEF Current
    <3> QED
      BY <2>1, <3>1 DEF Current
  <2>4. issued \in Nat /\ MaxTokens \in Nat /\ \A k \in gone : k \in Nat
    BY AccountsAssumption DEF Types, Tokens
  <2>5. issued + 1 \notin gone /\ issued + 1 # call["admin"].begins
    <3>1. /\ \A k \in gone : k <= issued
          /\ call["admin"].begins <= issued /\ call["admin"].begins \in Nat
      BY <2>4 DEF TokensInv, Types, Calls, Threads
    <3> QED
      BY <2>4, <3>1
  <2>6. Saving("admin")' = Saving("admin")
        /\ ~Saving("login") /\ ~Saving("login")'
    BY <2>1 DEF Saving
  <2>7. Damaged' <=> Damaged
    BY <2>1 DEF Damaged, Threads
  <2>8. Kept => Kept'
    BY <2>1 DEF Loaded, Torn, TokensOf
  <2>9. ASSUME NEW t \in Threads, Saving(t)', alone'[t] PROVE Good(t)'
    <3>1. t = "admin" /\ Good(t)
      BY <1>1, <2>1, <2>6, <2>9 DEF Threads
    <3>2. TokensOf(data[t])' = TokensOf(data[t])
      BY <2>1 DEF TokensOf
    <3> QED
      BY <2>1, <2>3, <2>5, <2>6, <3>1, <3>2 DEF Threads
  <2> QED
    BY <1>1, <1>2, <2>1, <2>2, <2>3, <2>5, <2>7, <2>8, <2>9
<1>5. ASSUME NEW t \in Threads, Snapshot(t)
      PROVE  SavesInv' /\ LoginsSurvive'
  <2>1. /\ pc[t] = "snapshot" /\ pc'[t] = "truncate" /\ data'[t] = AsSaved
        /\ \A u \in Threads : u # t => data'[u] = data[u] /\ pc'[u] = pc[u]
        /\ alone'[t] => \A u \in Threads : ~Saving(u)
        /\ \A u \in Threads : u # t => (alone'[u] <=> alone[u] /\ ~Saving(u))
        /\ UNCHANGED <<sessions, file, call, live, gone, stale>>
    BY <1>5, SnapshotFact
  <2>2. Current' = Current /\ Loaded' = Loaded
    BY <2>1 DEF Current, Loaded, Torn
  <2>3. Damaged' <=> Damaged
    BY <2>1 DEF Damaged
  <2>4. Kept => Kept'
    BY <2>1, <2>2 DEF TokensOf
  <2>5. ASSUME NEW u \in Threads, Saving(u)', alone'[u] PROVE Good(u)'
    <3>1. u = t
      BY <2>1, <2>5 DEF Saving
    <3>2. TokensOf(data[u])' = Current
      BY <2>1, <3>1, SavedFact DEF TokensOf
    <3>3. call[t].ends \notin Current
      BY DEF TokensInv
    <3>4. \A v \in Threads : Saving(v)' => v = t
      BY <2>1, <2>5, <3>1 DEF Saving
    <3> QED
      BY <1>1, <2>1, <2>2, <3>1, <3>2, <3>3, <3>4
  <2> QED
    BY <1>1, <1>2, <2>1, <2>2, <2>3, <2>4, <2>5
<1>6. ASSUME NEW t \in Threads, Truncate(t)
      PROVE  SavesInv' /\ LoginsSurvive'
  <2>1. /\ pc[t] = "truncate" /\ pc'[t] = "write" /\ file' = {}
        /\ \A u \in Threads : u # t => pc'[u] = pc[u]
        /\ UNCHANGED <<sessions, data, alone, call, live, gone, stale>>
    BY <1>6 DEF Truncate, Types
  <2>2. Damaged' /\ Current' = Current
    BY <2>1 DEF Damaged, Current
  <2>3. Saving(t) /\ \A u \in Threads : Saving(u)' => Saving(u)
    BY <2>1 DEF Saving
  <2>4. ASSUME NEW u \in Threads, Saving(u)', alone'[u] PROVE Good(u)'
    <3>1. Good(u) /\ u = t
      BY <1>1, <2>1, <2>3, <2>4
    <3>2. TokensOf(data[u])' = TokensOf(data[u])
      BY <2>1 DEF TokensOf
    <3> QED
      BY <2>1, <2>2, <2>3, <3>1, <3>2
  <2> QED
    BY <1>1, <1>2, <2>1, <2>2, <2>4
<1>7. ASSUME NEW t \in Threads, Write(t)
      PROVE  SavesInv' /\ LoginsSurvive'
  <2>1. /\ pc[t] = "write" /\ pc'[t] \in {"create", "provider", "idle"}
        /\ \A u \in Threads : u # t => pc'[u] = pc[u] /\ (alone'[u] <=> alone[u])
        /\ file = {} => Loaded' = data[t]
        /\ stale' <=> ~alone[t]
        /\ gone' = gone \cup ({call[t].ends} \ {0})
        /\ live' = live \cup ({call[t].begins} \cap Current)
        /\ UNCHANGED sessions
    BY <1>7, WriteFact
  <2>2. Saving(t) /\ ~Saving(t)'
        /\ \A u \in Threads : u # t => (Saving(u)' <=> Saving(u))
    BY <2>1 DEF Saving
  <2>3. Current' = Current
    BY <2>1 DEF Current
  <2>4. ASSUME NEW u \in Threads, Saving(u)', alone'[u] PROVE FALSE
    BY <1>1, <2>1, <2>2, <2>4
  <2>5. ASSUME ~Damaged' PROVE Kept'
    <3>1. alone[t]
      BY <2>1, <2>5 DEF Damaged
    <3>2. Good(t) /\ Loaded' = data[t]
      BY <1>1, <2>1, <2>2, <3>1
    <3>3. TokensOf(Loaded)' = TokensOf(data[t])
      BY <3>2 DEF TokensOf
    <3> QED
      BY <2>1, <3>2, <3>3
  <2>6. call[t].ends \notin Current
    BY DEF TokensInv
  <2> QED
    BY <1>1, <1>2, <2>1, <2>3, <2>4, <2>5, <2>6
<1>8. CASE Crash
  <2>1. /\ \A m \in Members : sessions'[m] # NoSession =>
              \E s \in Loaded : s.id = m /\ sessions'[m].token = s.token
        /\ \A s \in Loaded : /\ s.id \in Members
                             /\ sessions'[s.id] # NoSession
                             /\ sessions'[s.id].token = s.token
    BY <1>8, CrashFact DEF TokensInv
  <2>2. Current' = TokensOf(Loaded)
    <3>1. Current' \subseteq TokensOf(Loaded)
      BY <2>1 DEF Current, TokensOf
    <3>2. TokensOf(Loaded) \subseteq Current'
      BY <2>1 DEF Current, TokensOf
    <3> QED
      BY <3>1, <3>2
  <2>3. /\ pc' = [t \in Threads |-> "idle"] /\ UNCHANGED file
        /\ Damaged => live' = TokensOf(Loaded) /\ gone' = {}
        /\ ~Damaged => UNCHANGED <<live, gone>>
    BY <1>8 DEF Crash, TokensOf
  <2>4. TokensOf(Loaded)' = TokensOf(Loaded)
    BY <2>3 DEF Loaded, Torn, TokensOf
  <2>5. \A t \in Threads : ~Saving(t)'
    BY <2>3 DEF Saving
  <2>6. live' \subseteq TokensOf(Loaded) /\ gone' \cap TokensOf(Loaded) = {}
    BY <1>1, <2>3
  <2> QED
    BY <1>2, <2>2, <2>4, <2>5, <2>6
<1> QED
  BY <1>3, <1>4, <1>5, <1>6, <1>7, <1>8, StepIs DEF Effect

-----------------------------------------------------------------------------
(* Members and what is said of them.                                        *)

\* An administrator changes or removes m: its session first.
Administered(m) == Delete(m) \/ \E p \in Profiles : UpdateProfile(m, p)

LEMMA AdministeredFact ==
    ASSUME Types, NEW m \in Members, Administered(m)
    PROVE  /\ pc["admin"] = "idle" /\ pc'["login"] = pc["login"]
           /\ call'["admin"].id = m
           /\ sessions[m] = NoSession =>
                 sessions'[m] = NoSession /\ pc'["admin"] = "provider"
           /\ sessions[m] # NoSession => pc'["admin"] = "snapshot"
           /\ \A n \in Members : n # m => sessions'[n] = sessions[n]
           /\ call'["login"].op = call["login"].op
           /\ call'["login"].id = call["login"].id
           /\ call'["login"].profile = call["login"].profile
           /\ call'["login"].begins = call["login"].begins
           /\ call'["login"].raced <=>
                 call["login"].raced \/ Busy("login", m)
           /\ UNCHANGED <<setting, entries, disk, raced, file, data, alone,
                          issued, gone, stale>>
<1>1. CASE Delete(m)
  <2> DEFINE c == Call("delete", m, NoCall.profile)
  <2>1. c \in Calls /\ c.id = m
    BY NoCallFact, CallFact DEF Calls, Ops
  <2> HIDE DEF c
  <2>2. /\ Called(c)["login"].op = call["login"].op
        /\ Called(c)["login"].id = call["login"].id
        /\ Called(c)["login"].profile = call["login"].profile
        /\ Called(c)["login"].begins = call["login"].begins
        /\ Called(c)["login"].raced <=> call["login"].raced \/ Busy("login", m)
    BY <2>1, CalledFact
  <2>3. /\ pc["admin"] = "idle" /\ pc'["login"] = pc["login"]
        /\ call'["admin"].id = m
        /\ sessions'[m] = NoSession
        /\ sessions[m] = NoSession => pc'["admin"] = "provider"
        /\ sessions[m] # NoSession => pc'["admin"] = "snapshot"
        /\ \A n \in Members : n # m => sessions'[n] = sessions[n]
        /\ SameCall(call'["login"], Called(c)["login"])
        /\ UNCHANGED <<setting, entries, disk, raced, file, data, alone,
                       issued, gone, stale>>
    BY <1>1, DeleteFact DEF c
  <2> QED
    BY <2>2, <2>3 DEF SameCall
<1>2. CASE \E p \in Profiles : UpdateProfile(m, p)
  <2>1. PICK p \in Profiles : UpdateProfile(m, p)
    BY <1>2
  <2> DEFINE c == Call("update", m, p)
  <2>2. c \in Calls /\ c.id = m
    BY CallFact DEF Ops
  <2>3. call' = Called(c)
    BY <2>1, UpdateFact
  <2> HIDE DEF c
  <2>4. /\ call'["admin"] = c
        /\ call'["login"].op = call["login"].op
        /\ call'["login"].id = call["login"].id
        /\ call'["login"].profile = call["login"].profile
        /\ call'["login"].begins = call["login"].begins
        /\ call'["login"].raced <=> call["login"].raced \/ Busy("login", m)
    BY <2>2, <2>3, CalledFact
  <2>5. /\ pc["admin"] = "idle" /\ pc'["login"] = pc["login"]
        /\ sessions[m] = NoSession =>
              sessions'[m] = NoSession /\ pc'["admin"] = "provider"
        /\ sessions[m] # NoSession => pc'["admin"] = "snapshot"
        /\ \A n \in Members : n # m => sessions'[n] = sessions[n]
        /\ UNCHANGED <<setting, entries, disk, raced, file, data, alone,
                       issued, gone, stale>>
    BY <2>1, UpdateFact
  <2> QED
    BY <2>2, <2>4, <2>5
<1> QED
  BY <1>1, <1>2 DEF Administered

\* A step that leaves the members and the administrator's call alone.
LEMMA VouchedFact ==
    ASSUME NEW m \in Members, NEW p \in Profiles, Vouched(m, p),
           raced \subseteq raced', entries'[m] = entries[m],
           Pending(m)' <=> Pending(m),
           Pending(m) => /\ call'["admin"].op = call["admin"].op
                         /\ call'["admin"].profile = call["admin"].profile
    PROVE  Vouched(m, p)'
BY DEF Vouched, Agrees

\* The same for all members, when the administrator's thread stays where it is.
LEMMA VouchedSame ==
    ASSUME UNCHANGED <<entries, raced>>, call'["admin"] = call["admin"],
           pc'["admin"] = pc["admin"]
    PROVE  \A m \in Members, p \in Profiles : Vouched(m, p) => Vouched(m, p)'
BY DEF Vouched, Agrees, Pending

\* The administrator's thread returns from a call that changed nothing.
LEMMA VouchedReturn ==
    ASSUME Types, UNCHANGED <<entries, raced>>, Return("admin"),
           pc["admin"] \notin {"snapshot", "truncate", "write", "provider"}
    PROVE  \A m \in Members, p \in Profiles : Vouched(m, p) => Vouched(m, p)'
<1>1. pc'["admin"] = "idle"
  BY ReturnFact DEF Threads
<1> QED
  BY <1>1 DEF Vouched, Agrees, Pending

\* The change of member m to q agrees with what was right for m.
LEMMA VouchedChange ==
    ASSUME Types, MembersInv, provider \in {"file", "object"},
           NEW c \in Calls, NEW m \in Members,
           NEW q \in Profiles \cup {NoEntry}, Change(c, m, q),
           UNCHANGED <<disk, raced>>,
           \/ pc["admin"] = "idle"
           \/ pc["admin"] = "provider" /\ call["admin"].id = m,
           \A p \in Profiles : disk = "whole" /\ Agrees(m, p) => q = p
    PROVE  \A n \in Members, p \in Profiles : Vouched(n, p) => Vouched(n, p)'
<1> SUFFICES ASSUME NEW n \in Members, NEW p \in Profiles, Vouched(n, p)
             PROVE  Vouched(n, p)'
  OBVIOUS
<1>1. /\ entries'[m] = q /\ pc'["admin"] \in {"store", "idle"}
      /\ disk = "whole" \/ provider # "file" =>
            \A k \in Members : k # m => entries'[k] = entries[k]
  BY ChangeFact
<1>2. ~Pending(n)'
  BY <1>1 DEF Pending
<1>3. CASE disk # "whole"
  BY <1>3 DEF MembersInv, LoginInv, Vouched
<1>4. CASE disk = "whole" /\ n = m
  BY <1>1, <1>2, <1>4 DEF Vouched, Agrees
<1>5. CASE disk = "whole" /\ n # m
  <2>1. ~Pending(n) /\ entries'[n] = entries[n]
    BY <1>1, <1>5 DEF Pending
  <2> QED
    BY <1>2, <2>1, VouchedFact
<1> QED
  BY <1>3, <1>4, <1>5

\* A restart excuses the members that were worked on.
LEMMA VouchedCrash ==
    ASSUME Types, Crash
    PROVE  \A m \in Members, p \in Profiles : Vouched(m, p) => Vouched(m, p)'
<1>1. pc'["admin"] = "idle" /\ raced \subseteq raced'
  BY DEF Crash, Types, Threads
<1> SUFFICES ASSUME NEW m \in Members, NEW p \in Profiles, Vouched(m, p)
             PROVE  Vouched(m, p)'
  OBVIOUS
<1>2. CASE m \in raced'
  BY <1>2 DEF Vouched
<1>3. CASE m \notin raced'
  <2>1. /\ ~(provider = "object" \/ pc["admin"] = "store")
        /\ ~Busy("admin", m)
    BY <1>3 DEF Crash
  <2>2. UNCHANGED entries
    BY <2>1 DEF Crash
  <2>3. ~Pending(m) /\ ~Pending(m)'
    BY <1>1, <2>1 DEF Pending, Busy
  <2> QED
    BY <1>1, <2>2, <2>3, VouchedFact
<1> QED
  BY <1>2, <1>3

\* What was right of a member still is, but for the member that is administered
\* or that logs in now.
VouchedKept ==
    \A m \in Members, p \in Profiles : Vouched(m, p) =>
        \/ Vouched(m, p)'
        \/ Administered(m)
        \/ Creation /\ m = call["login"].id

LEMMA VouchedStep ==
    provider \in {"file", "object"} /\ Types /\ Types' /\ ThreadsInv
    /\ TokensInv /\ MembersInv
    /\ [AccountsNext]_accountsVars => VouchedKept
<1> SUFFICES ASSUME provider \in {"file", "object"}, Types, Types', ThreadsInv,
                    TokensInv, MembersInv, [AccountsNext]_accountsVars
             PROVE  VouchedKept
  OBVIOUS
<1> USE DEF VouchedKept
<1>1. CASE UNCHANGED accountsVars
  <2>1. /\ UNCHANGED <<entries, raced>>
        /\ call'["admin"] = call["admin"] /\ pc'["admin"] = pc["admin"]
    BY <1>1 DEF accountsVars
  <2> QED
    BY <2>1, VouchedSame
<1>2. ASSUME NEW t \in Threads, Snapshot(t) PROVE VouchedKept
  <2>1. /\ UNCHANGED <<call, entries, raced>>
        /\ pc[t] = "snapshot" /\ pc'[t] = "truncate"
        /\ \A u \in Threads : u # t => pc'[u] = pc[u]
    BY <1>2, SnapshotFact
  <2>2. \A m \in Members : Pending(m)' <=> Pending(m)
    BY <2>1 DEF Pending, Threads
  <2> QED
    BY <2>1, <2>2, VouchedFact
<1>3. ASSUME NEW t \in Threads, Truncate(t) PROVE VouchedKept
  <2>1. /\ UNCHANGED <<call, entries, raced>>
        /\ pc[t] = "truncate" /\ pc' = [pc EXCEPT ![t] = "write"]
    BY <1>3 DEF Truncate
  <2>2. \A m \in Members : Pending(m)' <=> Pending(m)
    BY <2>1 DEF Pending, Threads, Types
  <2> QED
    BY <2>1, <2>2, VouchedFact
<1>4. ASSUME NEW t \in Threads, Write(t) PROVE VouchedKept
  <2>1. /\ UNCHANGED <<entries, raced>>
        /\ pc[t] = "write"
        /\ pc'[t] = "provider" <=> call[t].op \in {"delete", "update"}
        /\ \A u \in Threads : u # t => pc'[u] = pc[u] /\ call'[u] = call[u]
        /\ pc'[t] # "idle" => call'[t] = call[t]
    BY <1>4, WriteFact
  <2>2. CASE t = "login"
    <3>1. call'["admin"] = call["admin"] /\ pc'["admin"] = pc["admin"]
      BY <2>1, <2>2 DEF Threads
    <3> QED
      BY <2>1, <3>1, VouchedSame
  <2>3. CASE t = "admin"
    <3>1. pc'["admin"] = "provider" /\ call'["admin"] = call["admin"]
      BY <2>1, <2>3 DEF ThreadsInv
    <3>2. \A m \in Members : Pending(m)' <=> Pending(m)
      BY <2>1, <2>3, <3>1 DEF Pending
    <3> QED
      BY <2>1, <3>1, <3>2, VouchedFact
  <2> QED
    BY <2>2, <2>3 DEF Threads
<1>5. CASE CreateSession("login")
  <2>1. CASE sessions[call["login"].id] # NoSession
    <3>1. /\ UNCHANGED <<entries, raced>>
          /\ call'["admin"] = call["admin"] /\ pc'["admin"] = pc["admin"]
      BY <1>5, <2>1, ReturnFact DEF CreateSession, Threads
    <3> QED
      BY <3>1, VouchedSame
  <2>2. CASE sessions[call["login"].id] = NoSession
    <3> DEFINE n == call["login"].id
    <3>1. Creation
      BY <1>5, <2>2 DEF Creation
    <3>2. /\ raced' = IF call["login"].raced THEN raced \cup {n}
                                             ELSE raced \ {n}
          /\ call'["admin"] = call["admin"] /\ pc'["admin"] = pc["admin"]
          /\ entries' = entries
      BY <1>5, <2>2, CreateFact
    <3> HIDE DEF n
    <3>3. ASSUME NEW m \in Members, NEW p \in Profiles, Vouched(m, p), m # n
          PROVE  Vouched(m, p)'
      BY <3>2, <3>3 DEF Vouched, Agrees, Pending
    <3> QED
      BY <3>1, <3>3 DEF n
  <2> QED
    BY <2>1, <2>2
<1>6. CASE LoginGet
  <2>1. /\ UNCHANGED <<entries, raced>>
        /\ call'["admin"] = call["admin"] /\ pc'["admin"] = pc["admin"]
    BY <1>6, ReturnFact DEF LoginGet, Types, Threads
  <2> QED
    BY <2>1, VouchedSame
<1>7. CASE LoginReplace
  <2>1. call["login"].id \in Members /\ call \in [Threads -> Calls]
    BY DEF Types, Calls, Threads
  <2>2. call'["admin"] = call["admin"] /\ pc'["admin"] = pc["admin"]
    <3>1. CASE sessions[call["login"].id] = NoSession
      BY <1>7, <3>1, ReturnFact DEF LoginReplace, Threads
    <3>2. CASE sessions[call["login"].id] # NoSession
      <4>1. RemoveSession("login", call["login"].id, call)
        BY <1>7, <3>2 DEF LoginReplace
      <4> QED
        BY <2>1, <3>2, <4>1, RemoveFact DEF Threads
    <3> QED
      BY <3>1, <3>2
  <2>3. UNCHANGED <<entries, raced>>
    BY <1>7 DEF LoginReplace
  <2> QED
    BY <2>2, <2>3, VouchedSame
<1>8. CASE Authenticate
  <2>1. /\ UNCHANGED <<entries, raced>>
        /\ call'["admin"] = call["admin"] /\ pc'["admin"] = pc["admin"]
    BY <1>8 DEF Authenticate
  <2> QED
    BY <2>1, VouchedSame
<1>9. CASE Logout
  <2>1. /\ UNCHANGED <<entries, raced>>
        /\ call'["admin"] = call["admin"] /\ pc'["admin"] = pc["admin"]
    BY <1>9, LogoutFact DEF Types, Threads, storeVars
  <2> QED
    BY <2>1, VouchedSame
<1>10. ASSUME NEW tok \in Tokens, FindToken(tok) PROVE VouchedKept
  <2>1. /\ UNCHANGED <<entries, raced>>
        /\ call'["admin"] = call["admin"] /\ pc'["admin"] = pc["admin"]
    BY <1>10 DEF FindToken
  <2> QED
    BY <2>1, VouchedSame
<1>11. ASSUME NEW m \in Members, Login(m) PROVE VouchedKept
  <2>1. /\ UNCHANGED <<entries, raced>>
        /\ call'["admin"] = call["admin"] /\ pc'["admin"] = pc["admin"]
    BY <1>11, LoginFact DEF Types, Threads
  <2> QED
    BY <2>1, VouchedSame
<1>12. ASSUME NEW m \in Members, Toggle(m) PROVE VouchedKept
  <2>1. /\ UNCHANGED <<entries, raced>>
        /\ call'["admin"] = call["admin"] /\ pc'["admin"] = pc["admin"]
    BY <1>12 DEF Toggle
  <2> QED
    BY <2>1, VouchedSame
<1>13. ASSUME NEW m \in Members, Select(m) PROVE VouchedKept
  <2>1. /\ UNCHANGED <<entries, raced>>
        /\ call'["admin"] = call["admin"] /\ pc'["admin"] = pc["admin"]
    BY <1>13 DEF Select
  <2> QED
    BY <2>1, VouchedSame
<1>14. ASSUME NEW m \in Members, UpdatePassword(m) PROVE VouchedKept
  <2> DEFINE c == Call("password", m, NoCall.profile)
  <2>1. /\ Change(c, m, Stored(m)) /\ UNCHANGED <<disk, raced>>
        /\ pc["admin"] = "idle"
    BY <1>14 DEF UpdatePassword
  <2>2. c \in Calls /\ Stored(m) \in Profiles \cup {NoEntry}
    BY NoCallFact, CallFact DEF Calls, Ops, Stored, Types
  <2>3. \A q \in Profiles : disk = "whole" /\ Agrees(m, q) => Stored(m) = q
    BY <2>1 DEF Agrees, Pending, Stored
  <2> HIDE DEF c
  <2> QED
    BY <2>1, <2>2, <2>3, VouchedChange
<1>15. ASSUME NEW m \in Members, Delete(m) PROVE VouchedKept
  <2>1. Administered(m)
    BY <1>15 DEF Administered
  <2>2. ASSUME NEW n \in Members, NEW q \in Profiles, n # m, Vouched(n, q)
        PROVE  Vouched(n, q)'
    <3>1. /\ pc["admin"] = "idle" /\ call'["admin"].id = m
          /\ UNCHANGED <<entries, raced>>
      BY <2>1, AdministeredFact
    <3>2. ~Pending(n) /\ ~Pending(n)'
      BY <2>2, <3>1 DEF Pending
    <3> QED
      BY <2>2, <3>1, <3>2, VouchedFact
  <2> QED
    BY <2>1, <2>2
<1>16. ASSUME NEW m \in Members, NEW p \in Profiles, Insert(m, p)
       PROVE VouchedKept
  <2>1. /\ Change(Call("insert", m, p), m, p) /\ UNCHANGED <<disk, raced>>
        /\ pc["admin"] = "idle" /\ Stored(m) = NoEntry
    BY <1>16 DEF Insert
  <2>2. Call("insert", m, p) \in Calls
    BY CallFact DEF Ops
  <2>3. \A q \in Profiles : ~(disk = "whole" /\ Agrees(m, q))
    BY <2>1, AccountsAssumption DEF Agrees, Pending, Stored
  <2> QED
    BY <2>1, <2>2, <2>3, VouchedChange
<1>17. ASSUME NEW m \in Members, NEW p \in Profiles, UpdateProfile(m, p)
       PROVE VouchedKept
  <2>1. Administered(m)
    BY <1>17 DEF Administered
  <2>2. ASSUME NEW n \in Members, NEW q \in Profiles, n # m, Vouched(n, q)
        PROVE  Vouched(n, q)'
    <3>1. /\ pc["admin"] = "idle" /\ call'["admin"].id = m
          /\ UNCHANGED <<entries, raced>>
      BY <2>1, AdministeredFact
    <3>2. ~Pending(n) /\ ~Pending(n)'
      BY <2>2, <3>1 DEF Pending
    <3> QED
      BY <2>2, <3>1, <3>2, VouchedFact
  <2> QED
    BY <2>1, <2>2
<1>18. CASE Provide
  <2> DEFINE c == call["admin"]
             q == IF c.op = "delete" THEN NoEntry ELSE c.profile
  <2>1. /\ c \in Calls /\ c.id \in Members /\ q \in Profiles \cup {NoEntry}
        /\ c.op \in {"update", "delete"}
    BY <1>18 DEF Calls, Types, Threads, ThreadsInv, Provide
  <2>2. pc["admin"] = "provider" /\ UNCHANGED <<disk, raced>>
    BY <1>18 DEF Provide
  <2>3. \A p \in Profiles : Agrees(c.id, p) =>
            c.op = "update" /\ q = p /\ entries[c.id] # NoEntry
    BY <2>2 DEF Agrees, Pending
  <2>4. CASE Change(c, c.id, q)
    <3> HIDE DEF q
    <3> QED
      BY <2>1, <2>2, <2>3, <2>4, VouchedChange
  <2>5. CASE /\ Return("admin") /\ UNCHANGED entries
             /\ ~(Keeps /\ Stored(c.id) # NoEntry)
    <3>1. pc'["admin"] = "idle"
      BY <2>5, ReturnFact DEF Threads
    <3>2. ASSUME NEW m \in Members, NEW p \in Profiles, Vouched(m, p)
          PROVE  Vouched(m, p)'
      <4>1. CASE disk # "whole"
        BY <2>2, <4>1 DEF MembersInv, LoginInv, Vouched
      <4>2. CASE disk = "whole" /\ m = c.id
        <5>1. entries[c.id] = NoEntry
          BY <2>5, <4>2 DEF Keeps, Stored
        <5>2. m \in raced
          BY <2>3, <3>2, <4>2, <5>1 DEF Vouched
        <5> QED
          BY <2>2, <5>2 DEF Vouched
      <4>3. CASE disk = "whole" /\ m # c.id
        <5>1. ~Pending(m) /\ ~Pending(m)'
          BY <3>1, <4>3 DEF Pending
        <5> QED
          BY <2>2, <2>5, <3>2, <5>1, VouchedFact
      <4> QED
        BY <4>1, <4>2, <4>3
    <3> QED
      BY <3>2
  <2> QED
    BY <1>18, <2>4, <2>5 DEF Provide
<1>19. CASE Store
  <2>1. /\ UNCHANGED <<entries, raced>> /\ Return("admin")
        /\ pc["admin"] = "store"
    BY <1>19 DEF Store
  <2> QED
    BY <2>1, VouchedReturn
<1>20. CASE Crash
  BY <1>20, VouchedCrash
<1>21. setting \in Settings
  BY DEF Types
<1> QED
  BY <1>1, <1>2, <1>3, <1>4, <1>5, <1>6, <1>7, <1>8, <1>9, <1>10, <1>11,
     <1>12, <1>13, <1>14, <1>15, <1>16, <1>17, <1>18, <1>19, <1>20, <1>21, SettingFact
     DEF AccountsNext

\* A session comes from a session, an update or a login; one that goes is taken
\* away by a thread that saves that, and what a thread is saving stays known.
SessionsKept ==
    /\ \A m \in Members :
          /\ sessions'[m] # NoSession =>
                \/ /\ sessions[m] # NoSession
                   /\ sessions'[m].profile = sessions[m].profile
                \/ \E p \in Profiles : UpdateProfile(m, p)
                \/ Creation /\ m = call["login"].id
          /\ sessions[m] # NoSession /\ sessions'[m] = NoSession =>
                \E t \in Threads : pc'[t] = "snapshot" /\ call'[t].id = m
    /\ \A t \in Threads, m \in Members :
          Removing(t, m) => Removing(t, m)' \/ Truncate(t)
    /\ \A m \in Members : Excused(m) => Excused(m)' \/ Write("login")

\* A step that takes no session away but by a thread that goes on to save that.
LEMMA SessionsFact ==
    ASSUME NEW t \in Threads, NEW m \in Members,
           ~Saving(t), pc[t] # "snapshot",
           \A n \in Members : n # m => sessions'[n] = sessions[n],
           sessions'[m] # NoSession =>
               sessions[m] # NoSession /\ sessions'[m].profile = sessions[m].profile,
           sessions[m] # NoSession /\ sessions'[m] = NoSession =>
               pc'[t] = "snapshot" /\ call'[t].id = m,
           \A u \in Threads : u # t =>
               /\ pc'[u] = pc[u] /\ call'[u].id = call[u].id
               /\ call[u].raced => call'[u].raced
    PROVE  SessionsKept
<1>1. \A u \in Threads, n \in Members : Removing(u, n) => Removing(u, n)'
  BY DEF Removing, Saving
<1>2. \A n \in Members : Excused(n) => Excused(n)'
  BY DEF Excused, Saving, Threads
<1> QED
  BY <1>1, <1>2 DEF SessionsKept

\* No session comes or goes, and one thread at most moves, which is not saving.
LEMMA SessionsSame ==
    ASSUME NEW t \in Threads, ~Saving(t), pc[t] # "snapshot",
           UNCHANGED sessions,
           \A u \in Threads : u # t => pc'[u] = pc[u] /\ call'[u] = call[u]
    PROVE  SessionsKept
<1>1. PICK m \in Members : TRUE
  BY AccountsAssumption
<1> QED
  BY <1>1, SessionsFact

LEMMA SessionsStep ==
    Types /\ Types' /\ ThreadsInv /\ TokensInv
    /\ [AccountsNext]_accountsVars => SessionsKept \/ Crash
<1> SUFFICES ASSUME Types, Types', ThreadsInv, TokensInv,
                    [AccountsNext]_accountsVars
             PROVE  SessionsKept \/ Crash
  OBVIOUS
<1>1. CASE UNCHANGED accountsVars
  <2>1. UNCHANGED <<sessions, pc, call>>
    BY <1>1 DEF accountsVars
  <2> QED
    BY <2>1 DEF SessionsKept, Removing, Excused
<1>2. ASSUME NEW t \in Threads, Snapshot(t) PROVE SessionsKept \/ Crash
  <2>1. /\ UNCHANGED <<sessions, call>> /\ pc[t] = "snapshot"
        /\ pc'[t] = "truncate"
        /\ \A u \in Threads : u # t => pc'[u] = pc[u]
    BY <1>2, SnapshotFact
  <2>2. /\ \A u \in Threads, n \in Members :
              Removing(u, n) => Removing(u, n)'
        /\ \A n \in Members : Excused(n) => Excused(n)'
    BY <2>1 DEF Removing, Excused, Threads
  <2> QED
    BY <2>1, <2>2 DEF SessionsKept
<1>3. ASSUME NEW t \in Threads, Truncate(t) PROVE SessionsKept \/ Crash
  <2>1. /\ UNCHANGED <<sessions, call>> /\ pc[t] = "truncate"
        /\ pc'[t] = "write"
        /\ \A u \in Threads : u # t => pc'[u] = pc[u]
    BY <1>3 DEF Truncate, Types
  <2>2. \A u \in Threads, n \in Members :
            Removing(u, n) => Removing(u, n)' \/ Truncate(u)
    BY <1>3, <2>1 DEF Removing
  <2>3. \A n \in Members : Excused(n) => Excused(n)'
    BY <2>1 DEF Excused, Threads
  <2> QED
    BY <2>1, <2>2, <2>3 DEF SessionsKept
<1>4. ASSUME NEW t \in Threads, Write(t) PROVE SessionsKept \/ Crash
  <2>1. /\ UNCHANGED sessions /\ pc[t] = "write"
        /\ \A u \in Threads : u # t => pc'[u] = pc[u] /\ call'[u] = call[u]
    BY <1>4, WriteFact
  <2>2. \A u \in Threads, n \in Members : Removing(u, n) => Removing(u, n)'
    BY <2>1 DEF Removing
  <2>3. \A n \in Members : Excused(n) => Excused(n)' \/ Write("login")
    BY <1>4, <2>1 DEF Excused, Threads
  <2> QED
    BY <2>1, <2>2, <2>3 DEF SessionsKept
<1>5. CASE CreateSession("login")
  <2>1. CASE sessions[call["login"].id] # NoSession
    <3>1. /\ pc["login"] = "create" /\ UNCHANGED sessions
          /\ pc'["admin"] = pc["admin"] /\ call'["admin"] = call["admin"]
      BY <1>5, <2>1, ReturnFact DEF CreateSession, Threads
    <3> QED
      BY <3>1, SessionsSame DEF Saving, Threads
  <2>2. CASE sessions[call["login"].id] = NoSession
    <3> DEFINE n == call["login"].id
    <3>1. Creation
      BY <1>5, <2>2 DEF Creation
    <3>2. /\ pc["login"] = "create" /\ sessions'[n] # NoSession
          /\ \A m \in Members : m # n => sessions'[m] = sessions[m]
          /\ pc'["admin"] = pc["admin"] /\ call'["admin"] = call["admin"]
      BY <1>5, <2>2, CreateFact
    <3>3. /\ \A u \in Threads, m \in Members :
                Removing(u, m) => Removing(u, m)'
          /\ \A m \in Members : Excused(m) => Excused(m)'
      BY <3>2 DEF Removing, Excused, Threads
    <3> QED
      BY <3>1, <3>2, <3>3 DEF SessionsKept
  <2> QED
    BY <2>1, <2>2
<1>6. CASE LoginGet
  <2>1. /\ pc["login"] = "get" /\ UNCHANGED sessions
        /\ pc'["admin"] = pc["admin"] /\ call'["admin"] = call["admin"]
    BY <1>6, ReturnFact DEF LoginGet, storeVars, Types, Threads
  <2> QED
    BY <2>1, SessionsSame DEF Saving, Threads
<1>7. CASE LoginReplace
  <2> DEFINE m == call["login"].id
  <2>1. m \in Members /\ call \in [Threads -> Calls] /\ "login" \in Threads
    BY DEF Types, Calls, Threads
  <2>2. CASE sessions[m] = NoSession
    <3>1. /\ pc["login"] = "replace" /\ UNCHANGED sessions
          /\ pc'["admin"] = pc["admin"] /\ call'["admin"] = call["admin"]
      BY <1>7, <2>2, ReturnFact DEF LoginReplace, storeVars, Threads
    <3> QED
      BY <3>1, SessionsSame DEF Saving, Threads
  <2>3. CASE sessions[m] # NoSession
    <3>1. RemoveSession("login", m, call) /\ pc["login"] = "replace"
      BY <1>7, <2>3 DEF LoginReplace
    <3>2. /\ sessions'[m] = NoSession
          /\ \A n \in Members : n # m => sessions'[n] = sessions[n]
          /\ call'["login"].id = m /\ pc' = [pc EXCEPT !["login"] = "snapshot"]
          /\ pc'["admin"] = pc["admin"] /\ call'["admin"] = call["admin"]
      BY <2>1, <2>3, <3>1, RemoveFact DEF SameCall, Threads
    <3>3. pc'["login"] = "snapshot"
      BY <2>1, <3>2 DEF Types
    <3> HIDE DEF m
    <3> QED
      BY <2>1, <3>1, <3>2, <3>3, SessionsFact DEF Saving, Threads
  <2> QED
    BY <2>2, <2>3
<1>8. CASE Authenticate
  <2>1. UNCHANGED <<sessions, pc, call>>
    BY <1>8 DEF Authenticate, storeVars
  <2> QED
    BY <2>1 DEF SessionsKept, Removing, Excused
<1>9. CASE Logout
  <2> DEFINE m == request.id
  <2>1. m \in Members /\ "login" \in Threads
    BY DEF Types, Threads
  <2>2. CASE sessions[m] = NoSession
    <3>1. UNCHANGED <<sessions, pc, call>>
      BY <1>9, <2>2, LogoutFact DEF storeVars
    <3> QED
      BY <3>1 DEF SessionsKept, Removing, Excused
  <2>3. CASE sessions[m] # NoSession
    <3>1. /\ pc["login"] = "idle" /\ sessions'[m] = NoSession
          /\ \A n \in Members : n # m => sessions'[n] = sessions[n]
          /\ call'["login"].id = m /\ pc' = [pc EXCEPT !["login"] = "snapshot"]
          /\ call'["admin"] = call["admin"]
      BY <1>9, <2>3, LogoutFact
    <3>2. pc'["login"] = "snapshot" /\ pc'["admin"] = pc["admin"]
      BY <2>1, <3>1 DEF Types, Threads
    <3> HIDE DEF m
    <3> QED
      BY <2>1, <3>1, <3>2, SessionsFact DEF Saving, Threads
  <2> QED
    BY <2>2, <2>3
<1>10. ASSUME NEW tok \in Tokens, FindToken(tok) PROVE SessionsKept \/ Crash
  <2>1. UNCHANGED <<sessions, pc, call>>
    BY <1>10 DEF FindToken, storeVars
  <2> QED
    BY <2>1 DEF SessionsKept, Removing, Excused
<1>11. ASSUME NEW m \in Members, Login(m) PROVE SessionsKept \/ Crash
  <2>1. /\ pc["login"] = "idle" /\ UNCHANGED sessions
        /\ pc'["admin"] = pc["admin"] /\ call'["admin"] = call["admin"]
    BY <1>11, LoginFact DEF storeVars, Types, Threads
  <2> QED
    BY <2>1, SessionsSame DEF Saving, Threads
<1>12. ASSUME NEW m \in Members, Toggle(m) PROVE SessionsKept \/ Crash
  <2>1. /\ UNCHANGED <<pc, call>>
        /\ sessions[m] # NoSession /\ sessions'[m] # NoSession
        /\ sessions'[m].profile = sessions[m].profile
        /\ \A n \in Members : n # m => sessions'[n] = sessions[n]
    BY <1>12, ToggleFact DEF Toggle
  <2> QED
    BY <2>1 DEF SessionsKept, Removing, Excused
<1>13. ASSUME NEW m \in Members, Select(m) PROVE SessionsKept \/ Crash
  <2>1. UNCHANGED <<sessions, pc, call>>
    BY <1>13 DEF Select, storeVars
  <2> QED
    BY <2>1 DEF SessionsKept, Removing, Excused
<1>14. ASSUME NEW m \in Members, UpdatePassword(m) PROVE SessionsKept \/ Crash
  <2> DEFINE c == Call("password", m, NoCall.profile)
  <2>1. /\ Change(c, m, Stored(m)) /\ pc["admin"] = "idle" /\ UNCHANGED sessions
    BY <1>14 DEF UpdatePassword, storeVars
  <2>2. c \in Calls /\ Stored(m) \in Profiles \cup {NoEntry}
    BY NoCallFact, CallFact DEF Calls, Ops, Stored, Types
  <2> HIDE DEF c
  <2>3. pc'["login"] = pc["login"] /\ call'["login"] = call["login"]
    BY <2>1, <2>2, ChangeFact
  <2> QED
    BY <2>1, <2>3, SessionsSame DEF Saving, Threads
<1>15. ASSUME NEW m \in Members, Delete(m) PROVE SessionsKept \/ Crash
  <2>1. Administered(m)
    BY <1>15 DEF Administered
  <2>2. /\ pc["admin"] = "idle" /\ pc'["login"] = pc["login"]
        /\ call'["admin"].id = m
        /\ sessions[m] # NoSession => pc'["admin"] = "snapshot"
        /\ \A n \in Members : n # m => sessions'[n] = sessions[n]
        /\ call'["login"].id = call["login"].id
        /\ call["login"].raced => call'["login"].raced
    BY <2>1, AdministeredFact
  <2>3. sessions'[m] = NoSession
    BY <1>15, DeleteFact
  <2> QED
    BY <2>2, <2>3, SessionsFact DEF Saving, Threads
<1>16. ASSUME NEW m \in Members, NEW p \in Profiles, Insert(m, p)
       PROVE SessionsKept \/ Crash
  <2> DEFINE c == Call("insert", m, p)
  <2>1. /\ Change(c, m, p) /\ pc["admin"] = "idle" /\ UNCHANGED sessions
    BY <1>16 DEF Insert, storeVars
  <2>2. c \in Calls /\ p \in Profiles \cup {NoEntry}
    BY NoCallFact, CallFact DEF Calls, Ops, Stored, Types
  <2> HIDE DEF c
  <2>3. pc'["login"] = pc["login"] /\ call'["login"] = call["login"]
    BY <2>1, <2>2, ChangeFact
  <2> QED
    BY <2>1, <2>3, SessionsSame DEF Saving, Threads
<1>17. ASSUME NEW m \in Members, NEW p \in Profiles, UpdateProfile(m, p)
       PROVE SessionsKept \/ Crash
  <2>1. Administered(m)
    BY <1>17 DEF Administered
  <2>2. /\ pc["admin"] = "idle" /\ pc'["login"] = pc["login"]
        /\ sessions[m] = NoSession => sessions'[m] = NoSession
        /\ \A n \in Members : n # m => sessions'[n] = sessions[n]
        /\ call'["login"].id = call["login"].id
        /\ call["login"].raced => call'["login"].raced
    BY <2>1, AdministeredFact
  <2>3. sessions[m] # NoSession => sessions'[m] # NoSession
    BY <1>17, UpdateFact
  <2>4. /\ \A u \in Threads, n \in Members :
              Removing(u, n) => Removing(u, n)'
        /\ \A n \in Members : Excused(n) => Excused(n)'
    BY <2>2 DEF Removing, Excused, Threads
  <2> QED
    BY <1>17, <2>2, <2>3, <2>4 DEF SessionsKept
<1>18. CASE Provide
  <2> DEFINE c == call["admin"]
             q == IF c.op = "delete" THEN NoEntry ELSE c.profile
  <2>1. c \in Calls /\ c.id \in Members /\ q \in Profiles \cup {NoEntry}
    BY DEF Calls, Types, Threads
  <2>2. pc["admin"] = "provider" /\ UNCHANGED sessions
    BY <1>18 DEF Provide, storeVars
  <2>3. CASE Change(c, c.id, q)
    <3> HIDE DEF q
    <3>1. pc'["login"] = pc["login"] /\ call'["login"] = call["login"]
      BY <2>1, <2>3, ChangeFact
    <3> QED
      BY <2>2, <3>1, SessionsSame DEF Saving, Threads
  <2>4. CASE Return("admin")
    <3>1. pc'["login"] = pc["login"] /\ call'["login"] = call["login"]
      BY <2>4, ReturnFact DEF Threads
    <3> QED
      BY <2>2, <3>1, SessionsSame DEF Saving, Threads
  <2> QED
    BY <1>18, <2>3, <2>4 DEF Provide
<1>19. CASE Store
  <2>1. Return("admin") /\ pc["admin"] = "store" /\ UNCHANGED sessions
    BY <1>19 DEF Store, storeVars
  <2>2. pc'["login"] = pc["login"] /\ call'["login"] = call["login"]
    BY <2>1, ReturnFact DEF Threads
  <2> QED
    BY <2>1, <2>2, SessionsSame DEF Saving, Threads
<1>20. CASE Crash
  BY <1>20
<1>21. setting \in Settings
  BY DEF Types
<1> QED
  BY <1>1, <1>2, <1>3, <1>4, <1>5, <1>6, <1>7, <1>8, <1>9, <1>10, <1>11,
     <1>12, <1>13, <1>14, <1>15, <1>16, <1>17, <1>18, <1>19, <1>20, <1>21, SettingFact
     DEF AccountsNext

-----------------------------------------------------------------------------
(* Logins.                                                                  *)

\* The login thread stays where it is.
LEMMA LoginSame ==
    ASSUME LoginInv, UNCHANGED <<setting, disk, raced>>,
           pc'["login"] = pc["login"],
           call'["login"].op = call["login"].op,
           call'["login"].id = call["login"].id,
           call'["login"].profile = call["login"].profile,
           call'["login"].begins = call["login"].begins,
           call["login"].raced => call'["login"].raced,
           sessions[call["login"].id] = NoSession =>
               sessions'[call["login"].id] = NoSession,
           pc'["admin"] = "store" => pc["admin"] = "store" \/ provider = "file",
           LoggingIn /\ ~call'["login"].raced =>
               /\ entries'[call["login"].id] = entries[call["login"].id]
               /\ ~Pending(call["login"].id)'
    PROVE  LoginInv'
<1>1. LoggingIn' <=> LoggingIn
  BY DEF LoggingIn
<1>2. provider' = provider
  BY DEF provider
<1> QED
  BY <1>1, <1>2 DEF LoginInv

\* The login thread goes on with the same call.
LEMMA LoginMove ==
    ASSUME LoginInv, UNCHANGED <<setting, disk, raced, entries>>,
           call'["admin"] = call["admin"], pc'["admin"] = pc["admin"],
           SameCall(call'["login"], call["login"]), pc["login"] # "idle",
           pc'["login"] \in {"get", "replace", "create"} =>
               call["login"].begins = 0,
           LoggingIn' /\ pc'["login"] \notin {"get", "replace"} =>
               sessions'[call["login"].id] = NoSession
    PROVE  LoginInv'
<1>1. LoggingIn' => LoggingIn
  BY DEF LoggingIn, SameCall
<1>2. provider' = provider
  BY DEF provider
<1>3. Pending(call["login"].id)' => Pending(call["login"].id)
  BY DEF Pending, SameCall
<1> QED
  BY <1>1, <1>2, <1>3 DEF LoginInv, SameCall

\* Nobody is logging in any more.
LEMMA LoginDone ==
    ASSUME LoginInv, UNCHANGED <<setting, disk>>, ~LoggingIn',
           pc'["login"] \notin {"get", "replace", "create"},
           disk # "whole" => raced' = Members, pc'["admin"] = pc["admin"]
    PROVE  LoginInv'
BY DEF LoginInv, provider

\* A thread takes a step of its save.
LEMMA LoginSaves ==
    ASSUME LoginInv, Types, NEW t \in Threads,
           UNCHANGED <<setting, entries, disk, raced, sessions, call>>,
           pc[t] \in {"snapshot", "truncate"}, pc'[t] \in {"truncate", "write"},
           \A u \in Threads : u # t => pc'[u] = pc[u]
    PROVE  LoginInv'
<1>1. CASE t = "admin"
  <2>1. pc'["login"] = pc["login"]
    BY <1>1 DEF Threads
  <2>2. Pending(call["login"].id)' <=> Pending(call["login"].id)
    BY <1>1 DEF Pending
  <2> QED
    BY <1>1, <2>1, <2>2, LoginSame DEF LoginInv
<1>2. CASE t = "login"
  <2>1. pc'["admin"] = pc["admin"]
    BY <1>2 DEF Threads
  <2>2. LoggingIn' => LoggingIn
    BY <1>2 DEF LoggingIn
  <2> QED
    BY <1>2, <2>1, <2>2, LoginMove DEF SameCall, LoginInv
<1> QED
  BY <1>1, <1>2 DEF Threads

LEMMA LoginStep ==
    provider \in {"file", "object"} /\ Types /\ Types' /\ ThreadsInv
    /\ TokensInv /\ LoginInv
    /\ [AccountsNext]_accountsVars => LoginInv'
<1> SUFFICES ASSUME provider \in {"file", "object"}, Types, Types', ThreadsInv,
                    TokensInv, LoginInv, [AccountsNext]_accountsVars
             PROVE  LoginInv'
  OBVIOUS
<1>1. CASE UNCHANGED accountsVars
  <2>1. /\ UNCHANGED <<setting, entries, disk, raced, pc, call>>
        /\ \A n \in Members : sessions[n] = NoSession => sessions'[n] = NoSession
    BY <1>1 DEF accountsVars
  <2>2. call["login"].id \in Members
    BY DEF Types, Calls, Threads
  <2>3. \A n \in Members : Pending(n)' <=> Pending(n)
    BY <2>1 DEF Pending
  <2> QED
    BY <2>1, <2>2, <2>3, LoginSame DEF LoginInv
<1>2. ASSUME NEW t \in Threads, Snapshot(t) PROVE LoginInv'
  <2>1. /\ UNCHANGED <<setting, entries, disk, raced, sessions, call>>
        /\ pc[t] = "snapshot" /\ pc'[t] = "truncate"
        /\ \A u \in Threads : u # t => pc'[u] = pc[u]
    BY <1>2, SnapshotFact
  <2> QED
    BY <2>1, LoginSaves
<1>3. ASSUME NEW t \in Threads, Truncate(t) PROVE LoginInv'
  <2>1. /\ UNCHANGED <<setting, entries, disk, raced, sessions, call>>
        /\ pc[t] = "truncate" /\ pc'[t] = "write"
        /\ \A u \in Threads : u # t => pc'[u] = pc[u]
    BY <1>3 DEF Truncate, Types
  <2> QED
    BY <2>1, LoginSaves
<1>4. ASSUME NEW t \in Threads, Write(t) PROVE LoginInv'
  <2>1. /\ UNCHANGED <<setting, entries, disk, raced, sessions>>
        /\ pc[t] = "write" /\ pc'[t] \in {"create", "provider", "idle"}
        /\ pc'[t] = "create" => call[t].begins = 0
        /\ pc'[t] = "provider" <=> call[t].op \in {"delete", "update"}
        /\ \A u \in Threads : u # t => pc'[u] = pc[u] /\ call'[u] = call[u]
        /\ pc'[t] # "idle" => call'[t] = call[t]
    BY <1>4, WriteFact
  <2>2. CASE t = "admin"
    <3>1. /\ pc'["admin"] = "provider" /\ call' = call
          /\ pc'["login"] = pc["login"]
      BY <2>1, <2>2 DEF ThreadsInv, Threads, Types
    <3>2. \A n \in Members : Pending(n)' <=> Pending(n)
      BY <2>1, <2>2, <3>1 DEF Pending
    <3>3. call["login"].id \in Members
      BY DEF Types, Calls, Threads
    <3> QED
      BY <2>1, <3>1, <3>2, <3>3, LoginSame DEF LoginInv
  <2>3. CASE t = "login"
    <3>1. pc'["admin"] = pc["admin"] /\ call'["admin"] = call["admin"]
      BY <2>1, <2>3 DEF Threads
    <3>2. CASE pc'["login"] = "idle"
      <4>1. ~LoggingIn'
        BY <3>2 DEF LoggingIn
      <4> QED
        BY <2>1, <3>1, <3>2, <4>1, LoginDone DEF LoginInv
    <3>3. CASE pc'["login"] # "idle"
      <4>1. /\ call'["login"] = call["login"] /\ pc["login"] = "write"
            /\ pc'["login"] = "create"
        BY <2>1, <2>3, <3>3 DEF ThreadsInv
      <4>2. LoggingIn' => LoggingIn
        BY <4>1 DEF LoggingIn
      <4> QED
        BY <2>1, <2>3, <3>1, <4>1, <4>2, LoginMove DEF SameCall, LoginInv
    <3> QED
      BY <3>2, <3>3
  <2> QED
    BY <2>2, <2>3 DEF Threads
<1>5. CASE CreateSession("login")
  <2>1. CASE sessions[call["login"].id] # NoSession
    <3>1. /\ pc'["login"] = "idle" /\ pc'["admin"] = pc["admin"]
          /\ UNCHANGED <<setting, disk, raced>>
      BY <1>5, <2>1, ReturnFact DEF CreateSession, Threads
    <3>2. ~LoggingIn'
      BY <3>1 DEF LoggingIn
    <3> QED
      BY <3>1, <3>2, LoginDone DEF LoginInv
  <2>2. CASE sessions[call["login"].id] = NoSession
    <3>1. /\ pc["login"] = "create" /\ pc'["login"] = "snapshot"
          /\ pc'["admin"] = pc["admin"] /\ call'["login"].begins = issued + 1
          /\ UNCHANGED <<setting, disk>>
      BY <1>5, <2>2, CreateFact
    <3>2. LoggingIn
      BY <3>1 DEF LoggingIn, LoginInv, ThreadsInv
    <3>3. issued + 1 # 0
      BY AccountsAssumption DEF Types
    <3>4. ~LoggingIn'
      BY <3>1, <3>3 DEF LoggingIn
    <3> QED
      BY <3>1, <3>2, <3>4, LoginDone DEF LoginInv
  <2> QED
    BY <2>1, <2>2
<1>6. CASE LoginGet
  <2>1. CASE Return("login")
    <3>1. /\ pc'["login"] = "idle" /\ pc'["admin"] = pc["admin"]
          /\ UNCHANGED <<setting, disk, raced>>
      BY <1>6, <2>1, ReturnFact DEF LoginGet, Threads
    <3>2. ~LoggingIn'
      BY <3>1 DEF LoggingIn
    <3> QED
      BY <3>1, <3>2, LoginDone DEF LoginInv
  <2>2. ASSUME NEW x \in {"create", "replace"},
               pc' = [pc EXCEPT !["login"] = x], call' = call,
               x = "create" => sessions[call["login"].id] = NoSession
        PROVE  LoginInv'
    <3>1. /\ pc["login"] = "get" /\ pc'["login"] = x
          /\ pc'["admin"] = pc["admin"]
          /\ UNCHANGED <<setting, disk, raced, entries, sessions>>
      BY <1>6, <2>2 DEF LoginGet, Types, Threads, storeVars
    <3> QED
      BY <2>2, <3>1, LoginMove DEF SameCall, LoginInv
  <2> QED
    BY <1>6, <2>1, <2>2 DEF LoginGet
<1>7. CASE LoginReplace
  <2> DEFINE m == call["login"].id
  <2>1. m \in Members /\ call \in [Threads -> Calls] /\ "login" \in Threads
    BY DEF Types, Calls, Threads
  <2>2. CASE sessions[m] = NoSession
    <3>1. /\ pc'["login"] = "idle" /\ pc'["admin"] = pc["admin"]
          /\ UNCHANGED <<setting, disk, raced>>
      BY <1>7, <2>2, ReturnFact DEF LoginReplace, Threads
    <3>2. ~LoggingIn'
      BY <3>1 DEF LoggingIn
    <3> QED
      BY <3>1, <3>2, LoginDone DEF LoginInv
  <2>3. CASE sessions[m] # NoSession
    <3>1. /\ RemoveSession("login", m, call) /\ pc["login"] = "replace"
          /\ UNCHANGED <<setting, entries, disk, raced>>
      BY <1>7, <2>3 DEF LoginReplace
    <3>2. /\ sessions'[m] = NoSession /\ SameCall(call'["login"], call["login"])
          /\ pc' = [pc EXCEPT !["login"] = "snapshot"]
          /\ pc'["admin"] = pc["admin"] /\ call'["admin"] = call["admin"]
      BY <2>1, <2>3, <3>1, RemoveFact DEF Threads
    <3>3. pc'["login"] = "snapshot"
      BY <2>1, <3>2 DEF Types
    <3> QED
      BY <3>1, <3>2, <3>3, LoginMove
  <2> QED
    BY <2>2, <2>3
<1>8. CASE Authenticate
  <2>1. /\ UNCHANGED <<setting, entries, disk, raced, pc, call>>
        /\ \A n \in Members : sessions[n] = NoSession => sessions'[n] = NoSession
    BY <1>8 DEF Authenticate, storeVars
  <2>2. call["login"].id \in Members
    BY DEF Types, Calls, Threads
  <2>3. \A n \in Members : Pending(n)' <=> Pending(n)
    BY <2>1 DEF Pending
  <2> QED
    BY <2>1, <2>2, <2>3, LoginSame DEF LoginInv
<1>9. CASE Logout
  <2>1. pc["login"] = "idle" /\ UNCHANGED <<setting, entries, disk, raced>>
    BY <1>9, LogoutFact
  <2>2. CASE sessions[request.id] = NoSession
    <3>1. UNCHANGED <<sessions, pc, call>>
      BY <1>9, <2>2, LogoutFact DEF storeVars
    <3>2. ~LoggingIn' /\ pc'["login"] = "idle"
      BY <2>1, <3>1 DEF LoggingIn
    <3> QED
      BY <2>1, <3>1, <3>2, LoginDone DEF LoginInv
  <2>3. CASE sessions[request.id] # NoSession
    <3>1. call'["login"].op = "logout"
          /\ pc' = [pc EXCEPT !["login"] = "snapshot"]
      BY <1>9, <2>3, LogoutFact
    <3>2. pc'["login"] = "snapshot" /\ pc'["admin"] = pc["admin"]
      BY <3>1 DEF Types, Threads
    <3>3. ~LoggingIn'
      BY <3>1 DEF LoggingIn
    <3> QED
      BY <2>1, <3>2, <3>3, LoginDone DEF LoginInv
  <2> QED
    BY <2>2, <2>3
<1>10. ASSUME NEW tok \in Tokens, FindToken(tok) PROVE LoginInv'
  <2>1. /\ UNCHANGED <<setting, entries, disk, raced, pc, call>>
        /\ \A n \in Members : sessions[n] = NoSession => sessions'[n] = NoSession
    BY <1>10 DEF FindToken, storeVars
  <2>2. call["login"].id \in Members
    BY DEF Types, Calls, Threads
  <2>3. \A n \in Members : Pending(n)' <=> Pending(n)
    BY <2>1 DEF Pending
  <2> QED
    BY <2>1, <2>2, <2>3, LoginSame DEF LoginInv
<1>11. ASSUME NEW m \in Members, Login(m) PROVE LoginInv'
  <2>1. /\ call'["login"].op = "login" /\ call'["login"].id = m
        /\ call'["login"].profile \in Authentic(m)
        /\ call'["login"].begins = 0
        /\ call'["login"].raced <=> Busy("admin", m)
        /\ call'["admin"] = call["admin"]
        /\ pc' = [pc EXCEPT !["login"] = "get"]
        /\ UNCHANGED <<setting, entries, disk, raced>>
    BY <1>11, LoginFact
  <2>2. pc'["login"] = "get" /\ pc'["admin"] = pc["admin"]
    BY <2>1 DEF Types, Threads
  <2>3. disk = "whole" /\ call'["login"].profile = entries[m]
    BY <2>1 DEF Authentic, FileAnswers, ObjectAnswers, LoginInv
  <2>4. Pending(m)' => Busy("admin", m)
    BY <2>1, <2>2 DEF Pending, Busy
  <2>5. provider' = provider /\ (provider = "object" => pc["admin"] # "store")
    BY <2>1 DEF provider, LoginInv
  <2>6. /\ entries'[call'["login"].id] = call'["login"].profile
        /\ ~call'["login"].raced => ~Pending(m)'
    BY <2>1, <2>3, <2>4
  <2> QED
    BY <2>1, <2>2, <2>3, <2>5, <2>6 DEF LoginInv
<1>12. ASSUME NEW m \in Members, Toggle(m) PROVE LoginInv'
  <2>1. /\ UNCHANGED <<setting, entries, disk, raced, pc, call>>
        /\ \A n \in Members : sessions[n] = NoSession => sessions'[n] = NoSession
    BY <1>12, ToggleFact DEF Toggle
  <2>2. call["login"].id \in Members
    BY DEF Types, Calls, Threads
  <2>3. \A n \in Members : Pending(n)' <=> Pending(n)
    BY <2>1 DEF Pending
  <2> QED
    BY <2>1, <2>2, <2>3, LoginSame DEF LoginInv
<1>13. ASSUME NEW m \in Members, Select(m) PROVE LoginInv'
  <2>1. /\ UNCHANGED <<setting, entries, disk, raced, pc, call>>
        /\ \A n \in Members : sessions[n] = NoSession => sessions'[n] = NoSession
    BY <1>13 DEF Select, storeVars
  <2>2. call["login"].id \in Members
    BY DEF Types, Calls, Threads
  <2>3. \A n \in Members : Pending(n)' <=> Pending(n)
    BY <2>1 DEF Pending
  <2> QED
    BY <2>1, <2>2, <2>3, LoginSame DEF LoginInv
<1>14. ASSUME NEW m \in Members, UpdatePassword(m) PROVE LoginInv'
  <2> DEFINE n == call["login"].id
             c == Call("password", m, NoCall.profile)
  <2>0. n \in Members /\ call["login"].profile \in Profiles
    BY DEF Types, Calls, Threads
  <2>1. /\ Change(c, m, Stored(m)) /\ pc["admin"] = "idle"
        /\ UNCHANGED <<setting, disk, raced, sessions>>
    BY <1>14 DEF UpdatePassword, storeVars
  <2>2. c \in Calls /\ Stored(m) \in Profiles \cup {NoEntry}
    BY NoCallFact, CallFact DEF Calls, Ops, Stored, Types
  <2> HIDE DEF c
  <2>3. /\ pc'["login"] = pc["login"] /\ call'["login"] = call["login"]
        /\ pc'["admin"] \in {"store", "idle"} /\ entries'[m] = Stored(m)
        /\ pc'["admin"] = "store" => provider = "file"
        /\ disk = "whole" =>
              \A k \in Members : k # m => entries'[k] = entries[k]
    BY <2>1, <2>2, ChangeFact
  <2>4. ASSUME LoggingIn, ~call["login"].raced
        PROVE  entries'[n] = entries[n] /\ ~Pending(n)'
    <3>1. disk = "whole" /\ entries[n] = call["login"].profile
      BY <2>4 DEF LoginInv
    <3>2. ~Pending(n)'
      BY <2>3 DEF Pending
    <3>3. entries'[n] = entries[n]
      BY <2>0, <2>1, <2>3, <3>1, AccountsAssumption DEF Stored
    <3> QED
      BY <3>2, <3>3
  <2> HIDE DEF n
  <2> QED
    BY <2>1, <2>3, <2>4, LoginSame DEF n
<1>15. ASSUME NEW m \in Members, Delete(m) PROVE LoginInv'
  <2>1. Administered(m)
    BY <1>15 DEF Administered
  <2>2. /\ pc["admin"] = "idle" /\ pc'["login"] = pc["login"]
        /\ call'["admin"].id = m
        /\ sessions[m] = NoSession =>
              sessions'[m] = NoSession /\ pc'["admin"] = "provider"
        /\ sessions[m] # NoSession => pc'["admin"] = "snapshot"
        /\ \A n \in Members : n # m => sessions'[n] = sessions[n]
        /\ call'["login"].op = call["login"].op
        /\ call'["login"].id = call["login"].id
        /\ call'["login"].profile = call["login"].profile
        /\ call'["login"].begins = call["login"].begins
        /\ call'["login"].raced <=> call["login"].raced \/ Busy("login", m)
        /\ UNCHANGED <<setting, entries, disk, raced>>
    BY <2>1, AdministeredFact
  <2>3. ASSUME LoggingIn, ~call'["login"].raced
        PROVE  ~Pending(call["login"].id)'
    BY <2>2, <2>3 DEF LoggingIn, Pending, Busy
  <2>4. call["login"].id \in Members
    BY DEF Types, Calls, Threads
  <2> QED
    BY <2>2, <2>3, <2>4, LoginSame
<1>16. ASSUME NEW m \in Members, NEW p \in Profiles, Insert(m, p)
       PROVE LoginInv'
  <2> DEFINE n == call["login"].id
             c == Call("insert", m, p)
  <2>0. n \in Members /\ call["login"].profile \in Profiles
    BY DEF Types, Calls, Threads
  <2>1. /\ Change(c, m, p) /\ pc["admin"] = "idle"
        /\ UNCHANGED <<setting, disk, raced, sessions>> /\ Stored(m) = NoEntry
    BY <1>16 DEF Insert, storeVars
  <2>2. c \in Calls /\ p \in Profiles \cup {NoEntry}
    BY NoCallFact, CallFact DEF Calls, Ops, Stored, Types
  <2> HIDE DEF c
  <2>3. /\ pc'["login"] = pc["login"] /\ call'["login"] = call["login"]
        /\ pc'["admin"] \in {"store", "idle"} /\ entries'[m] = p
        /\ pc'["admin"] = "store" => provider = "file"
        /\ disk = "whole" =>
              \A k \in Members : k # m => entries'[k] = entries[k]
    BY <2>1, <2>2, ChangeFact
  <2>4. ASSUME LoggingIn, ~call["login"].raced
        PROVE  entries'[n] = entries[n] /\ ~Pending(n)'
    <3>1. disk = "whole" /\ entries[n] = call["login"].profile
      BY <2>4 DEF LoginInv
    <3>2. ~Pending(n)'
      BY <2>3 DEF Pending
    <3>3. entries'[n] = entries[n]
      BY <2>0, <2>1, <2>3, <3>1, AccountsAssumption DEF Stored
    <3> QED
      BY <3>2, <3>3
  <2> HIDE DEF n
  <2> QED
    BY <2>1, <2>3, <2>4, LoginSame DEF n
<1>17. ASSUME NEW m \in Members, NEW p \in Profiles, UpdateProfile(m, p)
       PROVE LoginInv'
  <2>1. Administered(m)
    BY <1>17 DEF Administered
  <2>2. /\ pc["admin"] = "idle" /\ pc'["login"] = pc["login"]
        /\ call'["admin"].id = m
        /\ sessions[m] = NoSession =>
              sessions'[m] = NoSession /\ pc'["admin"] = "provider"
        /\ sessions[m] # NoSession => pc'["admin"] = "snapshot"
        /\ \A n \in Members : n # m => sessions'[n] = sessions[n]
        /\ call'["login"].op = call["login"].op
        /\ call'["login"].id = call["login"].id
        /\ call'["login"].profile = call["login"].profile
        /\ call'["login"].begins = call["login"].begins
        /\ call'["login"].raced <=> call["login"].raced \/ Busy("login", m)
        /\ UNCHANGED <<setting, entries, disk, raced>>
    BY <2>1, AdministeredFact
  <2>3. ASSUME LoggingIn, ~call'["login"].raced
        PROVE  ~Pending(call["login"].id)'
    BY <2>2, <2>3 DEF LoggingIn, Pending, Busy
  <2>4. call["login"].id \in Members
    BY DEF Types, Calls, Threads
  <2> QED
    BY <2>2, <2>3, <2>4, LoginSame
<1>18. CASE Provide
  <2> DEFINE n == call["login"].id
             c == call["admin"]
             q == IF c.op = "delete" THEN NoEntry ELSE c.profile
  <2>0. n \in Members
    BY DEF Types, Calls, Threads
  <2>1. c \in Calls /\ c.id \in Members /\ q \in Profiles \cup {NoEntry}
    BY DEF Calls, Types, Threads
  <2>2. /\ pc["admin"] = "provider"
        /\ UNCHANGED <<setting, disk, raced, sessions>>
    BY <1>18 DEF Provide, storeVars
  <2>3. CASE Change(c, c.id, q)
    <3> HIDE DEF q
    <3>1. /\ pc'["login"] = pc["login"] /\ call'["login"] = call["login"]
          /\ pc'["admin"] \in {"store", "idle"}
          /\ pc'["admin"] = "store" => provider = "file"
          /\ disk = "whole" =>
                \A k \in Members : k # c.id => entries'[k] = entries[k]
      BY <2>1, <2>3, ChangeFact
    <3>2. ASSUME LoggingIn, ~call["login"].raced
          PROVE  entries'[n] = entries[n] /\ ~Pending(n)'
      <4>1. disk = "whole" /\ n # c.id
        BY <2>2, <3>2 DEF LoginInv, Pending
      <4> QED
        BY <2>0, <3>1, <4>1 DEF Pending
    <3> HIDE DEF n, c
    <3> QED
      BY <2>2, <3>1, <3>2, LoginSame DEF n
  <2>4. CASE Return("admin") /\ UNCHANGED entries
    <3>1. /\ pc'["login"] = pc["login"] /\ call'["login"] = call["login"]
          /\ pc'["admin"] = "idle"
      BY <2>4, ReturnFact DEF Threads
    <3>2. ~Pending(n)'
      BY <3>1 DEF Pending
    <3> QED
      BY <2>2, <2>4, <3>1, <3>2, LoginSame
  <2> QED
    BY <1>18, <2>3, <2>4 DEF Provide
<1>19. CASE Store
  <2>1. /\ UNCHANGED <<setting, entries, raced, sessions>> /\ disk' = "whole"
        /\ Return("admin")
    BY <1>19 DEF Store, storeVars
  <2>2. /\ pc'["login"] = pc["login"] /\ call'["login"] = call["login"]
        /\ pc'["admin"] = "idle"
    BY <2>1, ReturnFact DEF Threads
  <2>3. ~Pending(call["login"].id)' /\ (LoggingIn' <=> LoggingIn)
    BY <2>2 DEF Pending, LoggingIn
  <2> QED
    BY <2>1, <2>2, <2>3 DEF LoginInv
<1>20. CASE Crash
  <2>1. /\ pc'["login"] = "idle" /\ pc'["admin"] = "idle" /\ setting' = setting
    BY <1>20 DEF Crash, Types, Threads
  <2>2. ~LoggingIn'
    BY <2>1 DEF LoggingIn
  <2>3. disk' # "whole" => raced' = Members
    BY <1>20 DEF Crash, LoginInv, Types
  <2>4. provider = "object" => disk' = disk
    BY <1>20 DEF Crash
  <2> QED
    BY <2>1, <2>2, <2>3, <2>4 DEF LoginInv, provider
<1>21. setting \in Settings
  BY DEF Types
<1> QED
  BY <1>1, <1>2, <1>3, <1>4, <1>5, <1>6, <1>7, <1>8, <1>9, <1>10, <1>11,
     <1>12, <1>13, <1>14, <1>15, <1>16, <1>17, <1>18, <1>19, <1>20, <1>21, SettingFact
     DEF AccountsNext

LEMMA SettingSame ==
    Types /\ [AccountsNext]_accountsVars => setting' = setting
<1> SUFFICES ASSUME Types, [AccountsNext]_accountsVars
             PROVE  setting' = setting
  OBVIOUS
<1> USE DEF storeVars, RemoveSession, Return, Change, ChangeFile, ChangeObject
<1>1. CASE UNCHANGED accountsVars
  BY <1>1 DEF accountsVars
<1>2. ASSUME NEW t \in Threads, Snapshot(t) PROVE setting' = setting
  BY <1>2 DEF Snapshot
<1>3. ASSUME NEW t \in Threads, Truncate(t) PROVE setting' = setting
  BY <1>3 DEF Truncate
<1>4. ASSUME NEW t \in Threads, Write(t) PROVE setting' = setting
  BY <1>4 DEF Write
<1>5. CASE CreateSession("login")
  BY <1>5 DEF CreateSession
<1>6. CASE LoginGet
  BY <1>6 DEF LoginGet
<1>7. CASE LoginReplace
  BY <1>7 DEF LoginReplace
<1>8. CASE Authenticate
  BY <1>8 DEF Authenticate
<1>9. CASE Logout
  BY <1>9 DEF Logout
<1>10. ASSUME NEW tok \in Tokens, FindToken(tok) PROVE setting' = setting
  BY <1>10 DEF FindToken
<1>11. ASSUME NEW m \in Members, Login(m) PROVE setting' = setting
  BY <1>11 DEF Login
<1>12. ASSUME NEW m \in Members, Toggle(m) PROVE setting' = setting
  BY <1>12 DEF Toggle
<1>13. ASSUME NEW m \in Members, Select(m) PROVE setting' = setting
  BY <1>13 DEF Select
<1>14. ASSUME NEW m \in Members, UpdatePassword(m) PROVE setting' = setting
  BY <1>14 DEF UpdatePassword
<1>15. ASSUME NEW m \in Members, Delete(m) PROVE setting' = setting
  BY <1>15 DEF Delete
<1>16. ASSUME NEW m \in Members, NEW p \in Profiles, Insert(m, p)
       PROVE setting' = setting
  BY <1>16 DEF Insert
<1>17. ASSUME NEW m \in Members, NEW p \in Profiles, UpdateProfile(m, p)
       PROVE setting' = setting
  BY <1>17 DEF UpdateProfile
<1>18. CASE Provide
  BY <1>18 DEF Provide
<1>19. CASE Store
  BY <1>19 DEF Store
<1>20. CASE Crash
  BY <1>20 DEF Crash
<1>21. setting \in Settings
  BY DEF Types
<1> QED
  BY <1>1, <1>2, <1>3, <1>4, <1>5, <1>6, <1>7, <1>8, <1>9, <1>10, <1>11,
     <1>12, <1>13, <1>14, <1>15, <1>16, <1>17, <1>18, <1>19, <1>20, <1>21, SettingFact
     DEF AccountsNext

-----------------------------------------------------------------------------
(* Sessions, saves and the file.                                            *)

\* After a restart the file speaks for the sessions.
LEMMA CrashVouched ==
    ASSUME Types, Types', FileInv, Crash, Distinct(Loaded), NEW s \in Loaded
    PROVE  s.id \in Members /\ s.profile \in Profiles
           /\ Vouched(s.id, s.profile)'
<1>1. s.id \in Members /\ s.profile \in Profiles
  BY DEF Distinct, Saved
<1>2. CASE Damaged
  BY <1>1, <1>2 DEF Crash, Vouched
<1>3. CASE ~Damaged
  <2>1. \/ Vouched(s.id, s.profile) \/ Excused(s.id)
        \/ Removing("admin", s.id)
    BY <1>3 DEF FileInv
  <2>2. Excused(s.id) => Busy("login", s.id) /\ call["login"].raced
    BY DEF Excused, Busy
  <2>3. Removing("admin", s.id) => Busy("admin", s.id)
    BY DEF Removing, Busy
  <2>4. CASE Vouched(s.id, s.profile)
    BY <1>1, <2>4, VouchedCrash
  <2>5. CASE Busy("admin", s.id) \/ (Busy("login", s.id) /\ call["login"].raced)
    <3>1. s.id \in raced'
      BY <1>1, <2>5 DEF Crash
    <3> QED
      BY <1>1, <3>1 DEF Vouched
  <2> QED
    BY <2>1, <2>2, <2>3, <2>4, <2>5
<1> QED
  BY <1>1, <1>2, <1>3

LEMMA SessionsInvStep ==
    ASSUME Types, Types', ThreadsInv, TokensInv, MembersInv, FileInv,
           VouchedKept, SessionsKept \/ Crash
    PROVE  SessionsInv'
<1> SUFFICES ASSUME NEW m \in Members, sessions'[m] # NoSession
             PROVE  Vouched(m, sessions[m].profile)'
  BY DEF SessionsInv
<1>0. sessions[m] # NoSession =>
          sessions[m].profile \in Profiles /\ Vouched(m, sessions[m].profile)
  BY DEF MembersInv, SessionsInv, Types, Sessions
<1>1. CASE Crash
  <2>1. PICK s \in Loaded : s.id = m /\ sessions'[m].profile = s.profile
    BY <1>1, CrashFact DEF TokensInv
  <2>2. Vouched(s.id, s.profile)'
    BY <1>1, CrashVouched DEF TokensInv
  <2> QED
    BY <2>1, <2>2
<1>2. ASSUME NEW p \in Profiles, UpdateProfile(m, p)
      PROVE  Vouched(m, sessions[m].profile)'
  <2>1. Call("update", m, p) \in Calls /\ Call("update", m, p).id = m
        /\ Call("update", m, p).op = "update" /\ Call("update", m, p).profile = p
    BY CallFact DEF Ops
  <2>2. /\ sessions[m] # NoSession /\ sessions'[m].profile = p
        /\ pc["admin"] = "idle" /\ pc'["admin"] = "snapshot"
        /\ call' = Called(Call("update", m, p))
        /\ UNCHANGED <<entries, raced>>
    BY <1>2, UpdateFact
  <2>3. call'["admin"] = Call("update", m, p)
    BY <2>1, <2>2, CalledFact
  <2>4. m \notin raced => entries[m] # NoEntry
    BY <1>0, <2>2, AccountsAssumption DEF Vouched, Agrees, Pending
  <2> QED
    BY <2>1, <2>2, <2>3, <2>4 DEF Vouched, Agrees, Pending
<1>3. CASE Creation /\ m = call["login"].id
  <2>1. /\ sessions'[m].profile = call["login"].profile
        /\ raced' = IF call["login"].raced THEN raced \cup {m} ELSE raced \ {m}
        /\ pc["login"] = "create"
        /\ call'["admin"] = call["admin"] /\ pc'["admin"] = pc["admin"]
        /\ UNCHANGED entries
    BY <1>3, CreateFact DEF Creation
  <2>2. CASE call["login"].raced
    BY <2>1, <2>2 DEF Vouched
  <2>3. CASE ~call["login"].raced
    <3>1. LoggingIn
      BY <2>1 DEF LoggingIn, MembersInv, LoginInv, ThreadsInv
    <3>2. entries[m] = call["login"].profile /\ ~Pending(m)
      BY <1>3, <2>3, <3>1 DEF MembersInv, LoginInv
    <3> QED
      BY <2>1, <3>2 DEF Vouched, Agrees, Pending
  <2> QED
    BY <2>2, <2>3
<1>4. CASE /\ SessionsKept /\ ~ \E p \in Profiles : UpdateProfile(m, p)
           /\ ~(Creation /\ m = call["login"].id)
  <2>1. sessions[m] # NoSession /\ sessions'[m].profile = sessions[m].profile
    BY <1>4 DEF SessionsKept
  <2>2. ~Delete(m)
    BY DeleteFact
  <2>3. Vouched(m, sessions[m].profile)'
    BY <1>0, <1>4, <2>1, <2>2 DEF VouchedKept, Administered
  <2> QED
    BY <2>1, <2>3
<1> QED
  BY <1>1, <1>2, <1>3, <1>4

\* What a thread saves alone stays true while it saves.
LEMMA DataKept ==
    ASSUME Types, SavesInv, DataInv, VouchedKept, SessionsKept, TokensInv,
           NEW t \in Threads, Saving(t), alone[t], Saving(t)',
           NEW s \in data[t]
    PROVE  /\ sessions'[s.id] = NoSession =>
                  \E u \in Threads : u # t /\ Removing(u, s.id)'
           /\ \/ Vouched(s.id, s.profile)'
              \/ t = "login" /\ Removing("admin", s.id)'
<1>1. s.id \in Members /\ s.profile \in Profiles
  BY DEF TokensInv, Saved
<1>2. /\ sessions[s.id] = NoSession =>
            \E u \in Threads : u # t /\ Removing(u, s.id)
      /\ \/ Vouched(s.id, s.profile)
         \/ t = "login" /\ Removing("admin", s.id)
  BY DEF DataInv
<1>3. ASSUME NEW u \in Threads, u # t, Removing(u, s.id)
      PROVE  Removing(u, s.id)'
  <2>1. ~Saving(u)
    BY <1>3 DEF SavesInv
  <2>2. ~Truncate(u)
    BY <2>1 DEF Saving, Truncate
  <2> QED
    BY <1>1, <1>3, <2>2 DEF SessionsKept
<1>4. ASSUME sessions'[s.id] = NoSession
      PROVE  \E u \in Threads : u # t /\ Removing(u, s.id)'
  <2>1. CASE sessions[s.id] = NoSession
    BY <1>2, <1>3, <2>1
  <2>2. CASE sessions[s.id] # NoSession
    <3>1. PICK u \in Threads : pc'[u] = "snapshot" /\ call'[u].id = s.id
      BY <1>1, <1>4, <2>2 DEF SessionsKept
    <3>2. u # t /\ Removing(u, s.id)'
      BY <3>1 DEF Saving, Removing
    <3> QED
      BY <3>2
  <2> QED
    BY <2>1, <2>2
<1>5. \/ Vouched(s.id, s.profile)'
      \/ t = "login" /\ Removing("admin", s.id)'
  <2>1. CASE t = "login" /\ Removing("admin", s.id)
    BY <1>3, <2>1 DEF Threads
  <2>2. CASE Vouched(s.id, s.profile) /\ Administered(s.id)
    <3>1. /\ pc["admin"] = "idle" /\ call'["admin"].id = s.id
          /\ sessions[s.id] # NoSession => pc'["admin"] = "snapshot"
      BY <1>1, <2>2, AdministeredFact
    <3>2. t = "login"
      BY <3>1 DEF Saving, Threads
    <3>3. sessions[s.id] # NoSession
      BY <1>2, <3>1, <3>2 DEF Removing, Threads
    <3> QED
      BY <3>1, <3>2, <3>3 DEF Removing
  <2>3. ~(Creation /\ s.id = call["login"].id)
    <3>1. SUFFICES ASSUME Creation, s.id = call["login"].id PROVE FALSE
      OBVIOUS
    <3>2. pc["login"] = "create" /\ sessions[s.id] = NoSession
      BY <3>1, CreateFact DEF Creation
    <3> QED
      BY <1>2, <3>2 DEF Saving, Removing, Threads
  <2> QED
    BY <1>1, <1>2, <2>1, <2>2, <2>3 DEF VouchedKept
<1> QED
  BY <1>4, <1>5

LEMMA DataStep ==
    ASSUME Types, Types', TokensInv, SavesInv, MembersInv, DataInv,
           VouchedKept, SessionsKept \/ Crash, Effect
    PROVE  DataInv'
<1> SUFFICES ASSUME NEW t \in Threads, Saving(t)', alone'[t],
                    NEW s \in data'[t]
             PROVE  /\ sessions'[s.id] = NoSession =>
                          \E u \in Threads : u # t /\ Removing(u, s.id)'
                    /\ \/ Vouched(s.id, s.profile)'
                       \/ t = "login" /\ Removing("admin", s.id)'
  BY DEF DataInv
<1>1. ~Crash
  BY DEF Crash, Saving
<1>2. CASE Snapshot(t)
  <2>1. /\ UNCHANGED <<sessions, entries, raced, call>> /\ data'[t] = AsSaved
        /\ pc[t] = "snapshot" /\ pc'[t] = "truncate"
        /\ \A u \in Threads : u # t => pc'[u] = pc[u]
    BY <1>2, SnapshotFact
  <2>2. /\ s.id \in Members /\ s.profile \in Profiles
        /\ sessions[s.id] # NoSession /\ s.profile = sessions[s.id].profile
    BY <2>1, SavedFact DEF Saved
  <2>3. Vouched(s.id, s.profile)
    BY <2>2 DEF MembersInv, SessionsInv
  <2>4. Pending(s.id)' <=> Pending(s.id)
    BY <2>1 DEF Pending, Threads
  <2>5. Vouched(s.id, s.profile)'
    BY <2>1, <2>2, <2>3, <2>4, VouchedFact
  <2> QED
    BY <2>1, <2>2, <2>5
<1>3. CASE Saving(t) /\ alone[t] /\ data'[t] = data[t]
  BY <1>1, <1>3, DataKept
<1>4. CASE Calm
  BY <1>3, <1>4 DEF Calm, Saving
<1>5. CASE Creation
  <2>1. /\ UNCHANGED <<data, alone>> /\ pc'["admin"] = pc["admin"]
        /\ pc'["login"] = "snapshot"
    BY <1>5, CreateFact DEF Creation
  <2>2. Saving(t)
    BY <2>1 DEF Saving, Threads
  <2> QED
    BY <1>3, <2>1, <2>2
<1>6. ASSUME NEW u \in Threads, u # t, Snapshot(u) PROVE FALSE
  BY <1>6, SnapshotFact DEF Saving
<1>7. ASSUME NEW u \in Threads, Truncate(u)
      PROVE  Saving(t) /\ alone[t] /\ data'[t] = data[t]
  <2>1. /\ UNCHANGED <<data, alone>> /\ pc[u] = "truncate"
        /\ \A v \in Threads : v # u => pc'[v] = pc[v]
    BY <1>7 DEF Truncate, Types
  <2> QED
    BY <2>1 DEF Saving
<1>8. ASSUME NEW u \in Threads, Write(u) PROVE FALSE
  <2>1. /\ pc[u] = "write" /\ pc'[u] \in {"create", "provider", "idle"}
        /\ \A v \in Threads : v # u => pc'[v] = pc[v] /\ (alone'[v] <=> alone[v])
    BY <1>8, WriteFact
  <2>2. u # t /\ Saving(t) /\ alone[t] /\ Saving(u)
    BY <2>1 DEF Saving
  <2> QED
    BY <2>2 DEF SavesInv
<1> QED
  BY <1>1, <1>2, <1>3, <1>4, <1>5, <1>6, <1>7, <1>8 DEF Effect

\* What is in the file stays true while nobody saves.
LEMMA FileKept ==
    ASSUME Types, FileInv, ~Damaged, VouchedKept, SessionsKept, Distinct(Loaded),
           \A t \in Threads : Saving(t) => pc'[t] = pc[t],
           NEW s \in Loaded
    PROVE  /\ sessions'[s.id] = NoSession =>
                  \E u \in Threads : Removing(u, s.id)'
           /\ \/ Vouched(s.id, s.profile)' \/ Excused(s.id)'
              \/ Removing("admin", s.id)'
<1>1. s.id \in Members /\ s.profile \in Profiles
  BY DEF Distinct, Saved
<1>2. /\ sessions[s.id] = NoSession => \E u \in Threads : Removing(u, s.id)
      /\ \/ Vouched(s.id, s.profile) \/ Excused(s.id)
         \/ Removing("admin", s.id)
  BY DEF FileInv
<1>3. \A u \in Threads : ~Truncate(u) /\ ~Write(u)
  <2>1. ASSUME NEW u \in Threads PROVE ~Truncate(u)
    BY DEF Truncate, Types, Saving
  <2>2. ASSUME NEW u \in Threads PROVE ~Write(u)
    BY DEF Damaged, Write
  <2> QED
    BY <2>1, <2>2
<1>4. ASSUME NEW u \in Threads, Removing(u, s.id) PROVE Removing(u, s.id)'
  BY <1>1, <1>3, <1>4 DEF SessionsKept
<1>5. ASSUME sessions'[s.id] = NoSession
      PROVE  \E u \in Threads : Removing(u, s.id)'
  <2>1. CASE sessions[s.id] = NoSession
    BY <1>2, <1>4, <2>1
  <2>2. CASE sessions[s.id] # NoSession
    BY <1>1, <1>5, <2>2 DEF SessionsKept, Removing
  <2> QED
    BY <2>1, <2>2
<1>6. CASE Excused(s.id)
  BY <1>1, <1>3, <1>5, <1>6 DEF SessionsKept, Threads
<1>7. CASE Removing("admin", s.id)
  BY <1>4, <1>5, <1>7 DEF Threads
<1>8. CASE Vouched(s.id, s.profile) /\ Administered(s.id)
  <2>1. /\ pc["admin"] = "idle" /\ call'["admin"].id = s.id
        /\ pc'["login"] = pc["login"]
        /\ sessions[s.id] # NoSession => pc'["admin"] = "snapshot"
        /\ call'["login"].id = call["login"].id
        /\ call'["login"].raced <=>
              call["login"].raced \/ Busy("login", s.id)
    BY <1>1, <1>8, AdministeredFact
  <2>2. CASE sessions[s.id] # NoSession
    BY <1>5, <2>1, <2>2 DEF Removing
  <2>3. CASE sessions[s.id] = NoSession
    <3>1. Removing("login", s.id)
      BY <1>2, <2>1, <2>3 DEF Removing, Threads
    <3>2. Excused(s.id)'
      BY <2>1, <3>1 DEF Removing, Busy, Excused
    <3> QED
      BY <1>5, <3>2
  <2> QED
    BY <1>5, <2>2, <2>3
<1>9. CASE Creation /\ s.id = call["login"].id
  <2>1. pc["login"] = "create" /\ sessions[s.id] = NoSession
    BY <1>9, CreateFact DEF Creation
  <2>2. Removing("admin", s.id)
    BY <1>2, <2>1 DEF Removing, Threads
  <2> QED
    BY <1>7, <2>2
<1> QED
  BY <1>1, <1>2, <1>5, <1>6, <1>7, <1>8, <1>9 DEF VouchedKept

LEMMA FileStep ==
    ASSUME Types, Types', TokensInv, SavesInv, MembersInv, DataInv, FileInv,
           VouchedKept, SessionsKept \/ Crash, Effect
    PROVE  FileInv'
<1> SUFFICES ASSUME ~Damaged', NEW s \in Loaded'
             PROVE  /\ sessions'[s.id] = NoSession =>
                          \E u \in Threads : Removing(u, s.id)'
                    /\ \/ Vouched(s.id, s.profile)' \/ Excused(s.id)'
                       \/ Removing("admin", s.id)'
  BY DEF FileInv
<1>1. CASE Crash
  <2>1. Loaded' = Loaded
    BY <1>1 DEF Crash, Loaded, Torn
  <2>2. sessions'[s.id] # NoSession
    BY <1>1, <2>1, CrashFact DEF TokensInv
  <2>3. Vouched(s.id, s.profile)'
    BY <1>1, <2>1, CrashVouched DEF TokensInv
  <2> QED
    BY <2>2, <2>3
<1>2. ASSUME SessionsKept, UNCHANGED <<file, stale>>,
             \A t \in Threads : Saving(t) => pc'[t] = pc[t]
      PROVE  /\ sessions'[s.id] = NoSession =>
                   \E u \in Threads : Removing(u, s.id)'
             /\ \/ Vouched(s.id, s.profile)' \/ Excused(s.id)'
                \/ Removing("admin", s.id)'
  <2>1. Loaded' = Loaded
    BY <1>2 DEF Loaded, Torn
  <2>2. ~Damaged
    BY <1>2 DEF Damaged, Saving
  <2> QED
    BY <1>2, <2>1, <2>2, FileKept DEF TokensInv
<1>3. CASE Calm /\ SessionsKept
  <2>1. /\ UNCHANGED <<file, stale>>
        /\ \A t \in Threads : Saving(t) => pc'[t] = pc[t]
    BY <1>3 DEF Calm
  <2> QED
    BY <1>2, <1>3, <2>1
<1>4. CASE Creation /\ SessionsKept
  <2>1. /\ UNCHANGED <<file, stale>> /\ pc["login"] = "create"
        /\ pc'["admin"] = pc["admin"]
    BY <1>4, CreateFact DEF Creation
  <2>2. \A t \in Threads : Saving(t) => pc'[t] = pc[t]
    BY <2>1 DEF Saving, Threads
  <2> QED
    BY <1>2, <1>4, <2>1, <2>2
<1>5. ASSUME NEW t \in Threads, Snapshot(t), SessionsKept
      PROVE  /\ sessions'[s.id] = NoSession =>
                   \E u \in Threads : Removing(u, s.id)'
             /\ \/ Vouched(s.id, s.profile)' \/ Excused(s.id)'
                \/ Removing("admin", s.id)'
  <2>1. /\ UNCHANGED <<file, stale>> /\ pc[t] = "snapshot"
        /\ \A u \in Threads : u # t => pc'[u] = pc[u]
    BY <1>5, SnapshotFact
  <2>2. \A u \in Threads : Saving(u) => pc'[u] = pc[u]
    BY <2>1 DEF Saving
  <2> QED
    BY <1>2, <1>5, <2>1, <2>2
<1>6. ASSUME NEW t \in Threads, Truncate(t) PROVE FALSE
  BY <1>6 DEF Truncate, Damaged, Types
<1>7. ASSUME NEW t \in Threads, Write(t), SessionsKept
      PROVE  /\ sessions'[s.id] = NoSession =>
                   \E u \in Threads : Removing(u, s.id)'
             /\ \/ Vouched(s.id, s.profile)' \/ Excused(s.id)'
                \/ Removing("admin", s.id)'
  <2>1. /\ pc[t] = "write" /\ pc'[t] \in {"create", "provider", "idle"}
        /\ \A u \in Threads : u # t => pc'[u] = pc[u]
        /\ file = {} => Loaded' = data[t]
        /\ stale' <=> ~alone[t]
        /\ UNCHANGED sessions
    BY <1>7, WriteFact
  <2>2. alone[t] /\ Saving(t)
    BY <2>1 DEF Damaged, Saving
  <2>3. s \in data[t] /\ \A u \in Threads : Saving(u) => u = t
    BY <2>1, <2>2 DEF SavesInv
  <2>4. s.id \in Members /\ s.profile \in Profiles
    BY <2>3 DEF TokensInv, Saved
  <2>5. /\ sessions[s.id] = NoSession =>
              \E u \in Threads : u # t /\ Removing(u, s.id)
        /\ \/ Vouched(s.id, s.profile)
           \/ t = "login" /\ Removing("admin", s.id)
    BY <2>2, <2>3 DEF DataInv
  <2>6. ASSUME NEW u \in Threads, u # t, Removing(u, s.id)
        PROVE  Removing(u, s.id)'
    <3>1. ~Truncate(u)
      BY <2>3, <2>6 DEF Saving, Truncate
    <3> QED
      BY <1>7, <2>4, <2>6, <3>1 DEF SessionsKept
  <2>7. ~Administered(s.id)
    BY <2>1, <2>4, AdministeredFact DEF Threads
  <2>8. ~Creation
    <3>1. Creation => /\ pc["login"] = "create" /\ pc'["login"] = "snapshot"
                      /\ pc'["admin"] = pc["admin"]
      BY CreateFact DEF Creation
    <3> QED
      BY <2>1, <3>1 DEF Threads
  <2>9. Vouched(s.id, s.profile) => Vouched(s.id, s.profile)'
    BY <2>4, <2>7, <2>8 DEF VouchedKept
  <2> QED
    BY <2>1, <2>5, <2>6, <2>9 DEF Threads
<1> QED
  BY <1>1, <1>3, <1>4, <1>5, <1>6, <1>7 DEF Effect

LEMMA StoresStep ==
    /\ Types /\ Types' /\ ThreadsInv /\ TokensInv /\ SavesInv
    /\ StoresInv /\ [AccountsNext]_accountsVars
    => StoresInv'
<1> SUFFICES ASSUME Types, Types', ThreadsInv, TokensInv, SavesInv,
                    StoresInv, [AccountsNext]_accountsVars,
                    provider' \in {"file", "object"}
             PROVE  (MembersInv /\ DataInv /\ FileInv)'
  BY DEF StoresInv
<1>1. provider \in {"file", "object"}
  BY SettingSame DEF provider
<1>2. MembersInv /\ DataInv /\ FileInv
  BY <1>1 DEF StoresInv
<1>3. VouchedKept /\ (SessionsKept \/ Crash) /\ Effect
  BY <1>1, <1>2, VouchedStep, SessionsStep, StepIs
<1>4. SessionsInv'
  BY <1>2, <1>3, SessionsInvStep
<1>5. LoginInv'
  BY <1>1, <1>2, LoginStep DEF MembersInv
<1>6. DataInv' /\ FileInv'
  BY <1>2, <1>3, DataStep, FileStep
<1> QED
  BY <1>4, <1>5, <1>6 DEF MembersInv

-----------------------------------------------------------------------------
(* The invariant.                                                           *)

IInv == /\ Types /\ ThreadsInv /\ TokensInv /\ SavesInv /\ StoresInv
        /\ LoginsSurvive

LEMMA InitIInv == AccountsInit => IInv
<1> SUFFICES ASSUME AccountsInit PROVE IInv
  OBVIOUS
<1> USE DEF AccountsInit
<1>1. NoCall \in Calls /\ NoCall.ends = 0 /\ NoCall.begins = 0
  BY NoCallFact
<1>2. Current = {} /\ Loaded = {} /\ ~Damaged /\ MaxTokens \in Nat
      /\ \A t \in Threads : ~Saving(t)
  BY AccountsAssumption DEF Current, Loaded, Torn, Damaged, Saving
<1>3. Types
  <2>1. entries \in [Members -> Profiles \cup {NoEntry}]
    BY AccountsAssumption DEF FirstEntries
  <2>2. /\ call \in [Threads -> Calls] /\ alone \in [Threads -> BOOLEAN]
        /\ issued \in 0 .. MaxTokens /\ request.id \in Members
    BY <1>1, <1>2 DEF NoRequest, Calls
  <2>3. /\ pc \in [Threads -> {"idle", "get", "replace", "create", "snapshot",
                              "truncate", "write", "provider", "store"}]
        /\ sessions \in [Members -> Sessions \cup {NoSession}]
    OBVIOUS
  <2> QED
    BY <2>1, <2>2, <2>3 DEF Types
<1>4. ThreadsInv
  BY DEF ThreadsInv, Threads
<1>5. TokensInv /\ SavesInv /\ LoginsSurvive
  BY <1>1, <1>2 DEF TokensInv, SavesInv, LoginsSurvive, Distinct
<1>6. StoresInv
  BY <1>2 DEF StoresInv, MembersInv, SessionsInv, LoginInv, LoggingIn, DataInv,
              FileInv, Threads
<1> QED
  BY <1>3, <1>4, <1>5, <1>6 DEF IInv

LEMMA InductiveInvariant == IInv /\ [AccountsNext]_accountsVars => IInv'
<1> SUFFICES ASSUME IInv, [AccountsNext]_accountsVars PROVE IInv'
  OBVIOUS
<1>1. Types /\ ThreadsInv /\ TokensInv /\ SavesInv /\ StoresInv /\ LoginsSurvive
  BY DEF IInv
<1>2. Types' /\ ThreadsInv'
  BY <1>1, TypesStep, ThreadsStep DEF TokensInv
<1>3. TokensInv'
  BY <1>1, <1>2, TokensStep
<1>4. SavesInv' /\ LoginsSurvive' /\ StoresInv'
  BY <1>1, <1>2, <1>3, SavesStep, StoresStep
<1> QED
  BY <1>2, <1>3, <1>4 DEF IInv

LEMMA Always == AccountsSpec => []IInv
BY InitIInv, InductiveInvariant, PTL DEF AccountsSpec

\* A login that was answered is good until its session is ended, and a session
\* that was ended stays so, through any number of restarts at any moments.
THEOREM LoginsSurviveCorrect == AccountsSpec => []LoginsSurvive
BY Always, PTL DEF IInv

\* A member nobody works on has the session of the profile that the provider
\* has, whichever of logins, updates and deletes came last.
THEOREM SessionsAreMembersCorrect == AccountsSpec => []SessionsAreMembers
<1>1. IInv => SessionsAreMembers
  <2> SUFFICES ASSUME IInv, provider \in {"file", "object"},
                      NEW m \in Members \ raced, sessions[m] # NoSession,
                      \A t \in Threads : ~Busy(t, m)
               PROVE  entries[m] = sessions[m].profile
    BY DEF SessionsAreMembers
  <2>1. Agrees(m, sessions[m].profile)
    BY DEF IInv, StoresInv, MembersInv, SessionsInv, Vouched
  <2>2. ~Pending(m)
    BY DEF Pending, Busy, Threads
  <2> QED
    BY <2>1, <2>2 DEF Agrees
<1> QED
  BY <1>1, Always, PTL
=============================================================================
