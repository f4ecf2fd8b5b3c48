------------------------------- MODULE Accounts -------------------------------
(***************************************************************************)
(* Members and their sessions: internal/member, internal/session and the   *)
(* handlers of internal/api that log in, log out and administer members.   *)
(*                                                                         *)
(* Login and Logout hold loginMu, the operations on the members hold       *)
(* providerMu, so that one goroutine of each kind is inside the managers:  *)
(* "login" and "admin".  Both change the sessions, and both save them to   *)
(* a file that is truncated and then written.  The process may die and     *)
(* start again at any moment.                                              *)
(***************************************************************************)
EXTENDS Naturals, FiniteSets

CONSTANTS Members,      \* ids
          Profiles,     \* profiles of members
          CanLogin,     \* the profiles with CanLogin
          Settings,     \* what is tried: a provider, the ids, the profiles of
                        \* members and those they are given by updates
          Configured,   \* the users of the object provider's configuration
          MaxTokens,    \* bound: sessions created
          MaxCrashes,   \* bound: restarts
          NoEntry, NoSession

Threads == {"login", "admin"}
Tokens == 1 .. MaxTokens
Sessions == [token : Tokens, profile : Profiles, connected : BOOLEAN]
Saved == [id : Members, token : Tokens, profile : Profiles]

ASSUME AccountsAssumption ==
    /\ Members # {} /\ Profiles # {}
    /\ CanLogin \subseteq Profiles
    /\ Settings \subseteq
          [provider : {"file", "object", "multiuser", "noauth"},
           ids : SUBSET Members, profiles : SUBSET Profiles,
           updates : SUBSET Profiles]
    /\ Configured \in [Members -> Profiles \cup {NoEntry}]
    /\ NoEntry \notin Profiles /\ NoSession \notin Sessions
    /\ MaxTokens \in Nat /\ MaxCrashes \in Nat

VARIABLES
    setting,    \* one of Settings, with member.config.Provider
    entries,    \* the provider's members: what was last written to its file
    disk,       \* the file of the members: "whole", "empty" or "partial"
    sessions,   \* manager.sessions, and manager.tokens in the tokens
    file,       \* the sessions in their file, Torn when it cannot be parsed
    pc,         \* where each thread is
    call,       \* and what it is called for
    data,       \* the sessions each thread is about to write
    alone,      \* history: no other save ran during the thread's save
    selected,   \* members read by requests that will update them
    request,    \* an authenticated request on its way
    issued,     \* tokens created
    crashes,    \* restarts
    live,       \* history: tokens answered to a client and not ended since
    gone,       \* history: tokens whose session was ended, as was answered
    stale,      \* history: the last saves overlapped
    raced       \* history: members logged in while they were administered

accountsVars == <<setting, entries, disk, sessions, file, pc, call, data,
                  alone, selected, request, issued, crashes, live, gone,
                  stale, raced>>

storeVars == <<sessions, file, data, alone, issued, live, gone, stale>>

Torn == {[id |-> CHOOSE m \in Members : TRUE, token |-> 0,
          profile |-> CHOOSE p \in Profiles : TRUE]}

NoCall == [op |-> "none", id |-> CHOOSE m \in Members : TRUE,
           profile |-> CHOOSE p \in Profiles : TRUE,
           ends |-> 0, begins |-> 0, raced |-> FALSE]

Call(op, m, p) == [NoCall EXCEPT !.op = op, !.id = m, !.profile = p]

NoRequest == [stage |-> "none", id |-> NoCall.id]

Current == {sessions[m].token : m \in {n \in Members : sessions[n] # NoSession}}

AsSaved == {[id |-> m, token |-> sessions[m].token,
             profile |-> sessions[m].profile] :
               m \in {n \in Members : sessions[n] # NoSession}}

provider == setting.provider

\* The members there are before anyone is inserted: the object provider starts
\* with those of its configuration, every time.
FirstEntries == IF provider = "object" THEN Configured
                ELSE [m \in Members |-> NoEntry]

\* Thread t works on member m.
Busy(t, m) == pc[t] # "idle" /\ call[t].id = m

\* Thread t returns.
Return(t) == /\ pc' = [pc EXCEPT ![t] = "idle"]
             /\ call' = [call EXCEPT ![t] = NoCall]

-----------------------------------------------------------------------------
(* internal/session: Create, Update, Delete and save                        *)

\* Delete takes the session out of both maps; its peers are destroyed and
\* "deleted" is emitted before it is saved.
RemoveSession(t, m, calls) ==
    /\ sessions' = [sessions EXCEPT ![m] = NoSession]
    /\ live' = live \ {sessions[m].token}
    /\ call' = [calls EXCEPT ![t].ends = sessions[m].token]
    /\ pc' = [pc EXCEPT ![t] = "snapshot"]
    /\ UNCHANGED <<file, data, alone, issued, gone, stale>>

\* mutant of CreateSession: the new session is not saved
CreateUnsaved(t) ==
    /\ pc[t] = "create"
    /\ IF sessions[call[t].id] # NoSession
       THEN UNCHANGED <<sessions, issued, live>>
       ELSE /\ issued < MaxTokens
            /\ issued' = issued + 1
            /\ sessions' = [sessions EXCEPT ![call[t].id] =
                   [token |-> issued + 1, profile |-> call[t].profile,
                    connected |-> FALSE]]
            /\ live' = live \cup {issued + 1}
    /\ Return(t)
    /\ UNCHANGED <<setting, entries, disk, file, data, alone, selected,
                   request, crashes, gone, stale, raced>>

\* Create refuses an id that exists and makes a new token.
CreateSession(t) ==
    /\ pc[t] = "create"
    /\ IF sessions[call[t].id] # NoSession
       THEN Return(t) /\ UNCHANGED <<sessions, issued, raced>>
       ELSE /\ issued < MaxTokens
            /\ issued' = issued + 1
            /\ sessions' = [sessions EXCEPT ![call[t].id] =
                   [token |-> issued + 1, profile |-> call[t].profile,
                    connected |-> FALSE]]
            /\ raced' = IF call[t].raced THEN raced \cup {call[t].id}
                                         ELSE raced \ {call[t].id}
            /\ call' = [call EXCEPT ![t].begins = issued + 1, ![t].ends = 0]
            /\ pc' = [pc EXCEPT ![t] = "snapshot"]
    /\ UNCHANGED <<setting, entries, disk, file, data, alone, selected,
                   request, crashes, live, gone, stale>>

\* save() walks over the sessions without their lock.  A walk that sees one
\* change of the other thread, or not, gives what a step before or after it would;
\* one that lasts over more lasts over that thread's own save, and is not alone.
Saving(t) == pc[t] \in {"truncate", "write"}

Snapshot(t) ==
    /\ pc[t] = "snapshot"
    /\ data' = [data EXCEPT ![t] = AsSaved]
    /\ alone' = [u \in Threads |->
                    IF u = t THEN \A v \in Threads : ~Saving(v)
                             ELSE alone[u] /\ ~Saving(u)]
    /\ pc' = [pc EXCEPT ![t] = "truncate"]
    /\ UNCHANGED <<setting, entries, disk, sessions, file, call, selected,
                   request, issued, crashes, live, gone, stale, raced>>

\* opens the file, which makes it empty,
Truncate(t) ==
    /\ pc[t] = "truncate"
    /\ file' = {}
    /\ pc' = [pc EXCEPT ![t] = "write"]
    /\ UNCHANGED <<setting, entries, disk, sessions, call, data, alone,
                   selected, request, issued, crashes, live, gone, stale, raced>>

\* and writes from its start, maybe over the longer text of another save.
Written(t) == IF file = {} THEN {data[t]} ELSE {data[t], Torn}

\* Then Create, Delete or Update returns: Login goes on to create the session,
\* an administrator's call goes on to the provider.
AfterSave(t) ==
    CASE call[t].op = "login" /\ call[t].begins = 0 -> "create"
      [] call[t].op \in {"delete", "update"} -> "provider"
      [] OTHER -> "idle"

Write(t) ==
    /\ pc[t] = "write"
    /\ file' \in Written(t)
    /\ stale' = ~alone[t]
    /\ gone' = gone \cup ({call[t].ends} \ {0})
    /\ live' = live \cup ({call[t].begins} \cap Current)
    /\ IF AfterSave(t) = "idle" THEN Return(t)
       ELSE pc' = [pc EXCEPT ![t] = AfterSave(t)] /\ UNCHANGED call
    /\ data' = [data EXCEPT ![t] = {}] /\ alone' = [alone EXCEPT ![t] = TRUE]
    /\ UNCHANGED <<setting, entries, disk, sessions, selected, request, issued,
                   crashes, raced>>

-----------------------------------------------------------------------------
(* Login and Logout                                                         *)

\* What the providers answer to the right password.  The file provider reads
\* its file, whoever is writing to it.
FileAnswers(m) == IF disk = "whole" /\ pc["admin"] # "store"
                  THEN {entries[m]} \ {NoEntry} ELSE {}

ObjectAnswers(m) == {entries[m]} \ {NoEntry}

\* multiuser and noauth make up an id and take the profile from the
\* configuration.
MadeUp == setting.profiles

Authentic(m) ==
    CASE provider = "file" -> FileAnswers(m)
      [] provider = "object" -> ObjectAnswers(m)
      [] OTHER -> MadeUp

Login(m) ==
    /\ pc["login"] = "idle"
    /\ \E p \in Authentic(m) :
          call' = [call EXCEPT !["login"] =
                     [Call("login", m, p) EXCEPT !.raced = Busy("admin", m)]]
    /\ pc' = [pc EXCEPT !["login"] = "get"]
    /\ UNCHANGED <<setting, entries, disk, storeVars, selected, request,
                   crashes, raced>>

\* A session that is connected is left alone, another one is replaced.
LoginGet ==
    LET m == call["login"].id IN
    /\ pc["login"] = "get"
    /\ \/ /\ sessions[m] = NoSession
          /\ pc' = [pc EXCEPT !["login"] = "create"]
          /\ UNCHANGED <<storeVars, call>>
       \/ /\ sessions[m] # NoSession /\ sessions[m].connected
          /\ Return("login") /\ UNCHANGED storeVars
       \/ /\ sessions[m] # NoSession /\ ~sessions[m].connected
          /\ pc' = [pc EXCEPT !["login"] = "replace"]
          /\ UNCHANGED <<storeVars, call>>
    /\ UNCHANGED <<setting, entries, disk, selected, request, crashes, raced>>

\* Delete fails when an administrator was faster, and Login with it.
LoginReplace ==
    LET m == call["login"].id IN
    /\ pc["login"] = "replace"
    /\ IF sessions[m] = NoSession
       THEN Return("login") /\ UNCHANGED storeVars
       ELSE RemoveSession("login", m, call)
    /\ UNCHANGED <<setting, entries, disk, selected, request, crashes, raced>>

\* GetByToken looks for the id of a token and then for the session of that id,
\* which may be another one by then.
FindToken(tok) ==
    /\ request.stage = "none"
    /\ \E m \in Members :
          /\ sessions[m] # NoSession /\ sessions[m].token = tok
          /\ request' = [stage |-> "found", id |-> m]
    /\ UNCHANGED <<setting, entries, disk, storeVars, pc, call, selected,
                   crashes, raced>>

MayLogin(m) == sessions[m] # NoSession /\ sessions[m].profile \in CanLogin

Authenticate ==
    /\ request.stage = "found"
    /\ request' = IF MayLogin(request.id)
                  THEN [request EXCEPT !.stage = "passed"] ELSE NoRequest
    /\ UNCHANGED <<setting, entries, disk, storeVars, pc, call, selected,
                   crashes, raced>>

\* Logout ends the session that has the id by now, if there is one.
Logout ==
    /\ request.stage = "passed" /\ pc["login"] = "idle"
    /\ request' = NoRequest
    /\ IF sessions[request.id] = NoSession
       THEN UNCHANGED <<storeVars, pc, call>>
       ELSE RemoveSession("login", request.id,
               [call EXCEPT !["login"] = Call("logout", request.id, NoCall.profile)])
    /\ UNCHANGED <<setting, entries, disk, selected, crashes, raced>>

-----------------------------------------------------------------------------
(* The operations on members                                                *)

\* The providers that keep members, and whether the file can be read.
Keeps == provider = "object" \/ (provider = "file" /\ disk # "partial")

Stored(m) == IF disk = "whole" THEN entries[m] ELSE NoEntry

\* The providers' answers to a change of member m, to profile p or NoEntry: the
\* file is truncated here and written in Store, the object changes at once.
ChangeFile(c, m, p) ==
    /\ pc' = [pc EXCEPT !["admin"] = "store"]
    /\ entries' = [n \in Members |-> IF n = m THEN p ELSE Stored(n)]
    /\ call' = [call EXCEPT !["admin"] = c]

ChangeObject(m, p) ==
    /\ entries' = [entries EXCEPT ![m] = p]
    /\ Return("admin")

Change(c, m, p) ==
    IF provider = "file" THEN ChangeFile(c, m, p) ELSE ChangeObject(m, p)

Store ==
    /\ pc["admin"] = "store"
    /\ disk' = "whole"
    /\ Return("admin")
    /\ UNCHANGED <<setting, entries, storeVars, selected, request,
                   crashes, raced>>

Insert(m, p) ==
    /\ pc["admin"] = "idle"
    /\ Keeps /\ Stored(m) = NoEntry
    /\ Change(Call("insert", m, p), m, p)
    /\ UNCHANGED <<setting, disk, storeVars, selected, request, crashes, raced>>

\* The password is written with the entry.
UpdatePassword(m) ==
    /\ pc["admin"] = "idle"
    /\ Keeps /\ Stored(m) # NoEntry
    /\ Change(Call("password", m, NoCall.profile), m, Stored(m))
    /\ UNCHANGED <<setting, disk, storeVars, selected, request, crashes, raced>>

\* Select takes the profile from the session first.
CanSelect(m) == sessions[m] # NoSession \/ (Keeps /\ Stored(m) # NoEntry)

\* ExtractMember and the bulk update read the profile before it is updated.
Select(m) ==
    /\ pc["admin"] = "idle" /\ setting.updates # {}
    /\ CanSelect(m)
    /\ selected' = selected \cup {m}
    /\ UNCHANGED <<setting, entries, disk, storeVars, pc, call, request,
                   crashes, raced>>

\* The admin thread is called for c.  The login that is under way for the same
\* member may have read it before.
Called(c) == [call EXCEPT !["admin"] = c,
                          !["login"].raced = @ \/ Busy("login", c.id)]

\* mutant of UpdateProfile: the session keeps its profile
UpdateMemberOnly(m, p) ==
    /\ pc["admin"] = "idle" /\ m \in selected
    /\ selected' = selected \ {m}
    /\ pc' = [pc EXCEPT !["admin"] = "provider"]
    /\ call' = Called(Call("update", m, p))
    /\ UNCHANGED <<setting, entries, disk, storeVars, request, crashes, raced>>

\* UpdateProfile updates the session and then the member.
UpdateProfile(m, p) ==
    /\ pc["admin"] = "idle" /\ m \in selected
    /\ selected' = selected \ {m}
    /\ sessions' = IF sessions[m] = NoSession THEN sessions
                   ELSE [sessions EXCEPT ![m].profile = p]
    /\ pc' = [pc EXCEPT !["admin"] = IF sessions[m] = NoSession
                                     THEN "provider" ELSE "snapshot"]
    /\ call' = Called(Call("update", m, p))
    /\ UNCHANGED <<setting, entries, disk, file, data, alone, issued, live,
                   gone, stale, request, crashes, raced>>

\* Delete destroys the session first.  The bulk delete takes any id.
Delete(m) ==
    LET calls == Called(Call("delete", m, NoCall.profile)) IN
    /\ pc["admin"] = "idle"
    /\ IF sessions[m] = NoSession
       THEN /\ pc' = [pc EXCEPT !["admin"] = "provider"]
            /\ call' = calls
            /\ UNCHANGED storeVars
       ELSE RemoveSession("admin", m, calls)
    /\ UNCHANGED <<setting, entries, disk, selected, request, crashes, raced>>

\* The second half of both: the provider refuses members it does not have.
Provide ==
    LET c == call["admin"] IN
    /\ pc["admin"] = "provider"
    /\ IF Keeps /\ Stored(c.id) # NoEntry
       THEN Change(c, c.id, IF c.op = "delete" THEN NoEntry ELSE c.profile)
       ELSE Return("admin") /\ UNCHANGED entries
    /\ UNCHANGED <<setting, disk, storeVars, selected, request, crashes, raced>>

-----------------------------------------------------------------------------
\* The session's websocket connects and disconnects (see WsSession).
Toggle(m) ==
    /\ sessions[m] # NoSession
    /\ sessions' = [sessions EXCEPT ![m].connected = ~@]
    /\ UNCHANGED <<setting, entries, disk, file, pc, call, data, alone,
                   selected, request, issued, crashes, live, gone, stale, raced>>

\* What load() makes of the file.
Loaded == IF file = Torn THEN {} ELSE file

\* The file is not the work of one save from beginning to end.
Damaged == stale \/ \E t \in Threads : pc[t] = "write"

\* The process dies and starts again: it has what is in the files.  A damaged
\* file excuses that answers are forgotten or come back; what may then differ
\* between sessions and members is excused as well.
Crash ==
    /\ crashes < MaxCrashes
    /\ crashes' = crashes + 1
    /\ sessions' = [m \in Members |->
          IF \E s \in Loaded : s.id = m
          THEN LET s == CHOOSE s \in Loaded : s.id = m
               IN [token |-> s.token, profile |-> s.profile,
                   connected |-> FALSE]
          ELSE NoSession]
    /\ IF Damaged
       THEN /\ live' = {s.token : s \in Loaded}
            /\ gone' = {}
       ELSE UNCHANGED <<live, gone>>
    /\ \/ /\ provider = "object"
          /\ entries' = FirstEntries /\ UNCHANGED disk
       \/ /\ provider = "file" /\ pc["admin"] = "store"
          /\ disk' \in {"whole", "empty", "partial"} /\ UNCHANGED entries
       \/ /\ provider # "object" /\ pc["admin"] # "store"
          /\ UNCHANGED <<entries, disk>>
    /\ raced' = IF Damaged \/ provider = "object" \/ pc["admin"] = "store"
                THEN Members
                ELSE raced \cup {m \in Members :
                        \/ Busy("admin", m)
                        \/ Busy("login", m) /\ call["login"].raced}
    /\ pc' = [t \in Threads |-> "idle"]
    /\ call' = [t \in Threads |-> NoCall]
    /\ data' = [t \in Threads |-> {}]
    /\ alone' = [t \in Threads |-> TRUE]
    /\ selected' = {} /\ request' = NoRequest /\ stale' = FALSE
    /\ UNCHANGED <<setting, file, issued>>

-----------------------------------------------------------------------------
AccountsInit ==
    /\ setting \in Settings
    /\ entries = FirstEntries
    /\ disk = "whole"
    /\ sessions = [m \in Members |-> NoSession] /\ file = {}
    /\ pc = [t \in Threads |-> "idle"]
    /\ call = [t \in Threads |-> NoCall]
    /\ data = [t \in Threads |-> {}]
    /\ alone = [t \in Threads |-> TRUE]
    /\ selected = {} /\ request = NoRequest
    /\ issued = 0 /\ crashes = 0
    /\ live = {} /\ gone = {} /\ stale = FALSE /\ raced = {}

AccountsNext ==
    \/ \E t \in Threads : Snapshot(t) \/ Truncate(t) \/ Write(t)
    \/ CreateSession("login") \/ LoginGet \/ LoginReplace
    \/ Authenticate \/ Logout
    \/ \E tok \in Tokens : FindToken(tok)
    \/ \E m \in setting.ids :
          \/ Login(m) \/ Toggle(m)
          \/ Select(m) \/ UpdatePassword(m) \/ Delete(m)
          \/ \E p \in setting.profiles : Insert(m, p)
          \/ \E p \in setting.updates : UpdateProfile(m, p)
    \/ Provide \/ Store \/ Crash

AccountsSpec == AccountsInit /\ [][AccountsNext]_accountsVars

-----------------------------------------------------------------------------
AccountsTypeOK ==
    /\ setting \in Settings
    /\ entries \in [Members -> Profiles \cup {NoEntry}]
    /\ disk \in {"whole", "empty", "partial"}
    /\ sessions \in [Members -> Sessions \cup {NoSession}]
    /\ file = Torn \/ file \subseteq Saved
    /\ pc \in [Threads -> {"idle", "get", "replace", "create", "snapshot",
                           "truncate", "write", "provider", "store"}]
    /\ DOMAIN call = Threads /\ DOMAIN data = Threads
    /\ alone \in [Threads -> BOOLEAN]
    /\ selected \subseteq Members
    /\ request.stage \in {"none", "found", "passed"} /\ request.id \in Members
    /\ issued \in 0 .. MaxTokens /\ crashes \in 0 .. MaxCrashes
    /\ live \subseteq Tokens /\ gone \subseteq Tokens
    /\ stale \in BOOLEAN /\ raced \subseteq Members

\* A login that was answered is good for as long as nobody ends its session,
\* and a session that was ended stays so, through any restart: unless the
\* process died while the file was being written, or two saves overlapped.
LoginsSurvive == live \subseteq Current /\ gone \cap Current = {}

\* With a provider that keeps members, a session is the session of a member
\* and has its profile once nobody works on it, whichever of login, update and
\* delete came last: unless a login read the member while an administrator
\* was changing it, which the two mutexes do not exclude.
SessionsAreMembers ==
    provider \in {"file", "object"} =>
        \A m \in Members \ raced :
            (sessions[m] # NoSession /\ \A t \in Threads : ~Busy(t, m))
                => entries[m] = sessions[m].profile
=============================================================================
