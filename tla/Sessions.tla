------------------------------- MODULE Sessions -------------------------------
(***************************************************************************)
(* JWT sessions: POST /api/v1/auth, POST /api/v1/refresh and the handlers    *)
(* behind a role, with the table active_tokens; and the commands of truthctl *)
(* that use them, several at a time on one ~/.truthctl/session.json.         *)
(*                                                                          *)
(* A handler takes the mutex of the database anew for each of its steps, so *)
(* the handlers of two requests interleave, and a role that was checked in   *)
(* the access token can be revoked before the request has its turn. The file *)
(* is truncated and then filled. Requests, answers and processes can be lost.*)
(***************************************************************************)
EXTENDS Integers, FiniteSets

CONSTANTS
    Home,        \* home directories; each has one key, known by the same name
    Proc,        \* truthctl processes
    HomeOf,      \* the home a process runs in
    Admin,       \* the homes whose key is an administrator's at first
    AccessLife, RefreshLife,  \* an hour, a day
    Leeway,      \* the minute jsonwebtoken adds to exp by default
    Margin,      \* the half minute truthctl takes off its own expires_at
    MaxTime,     \* bound on the clock
    MaxTokens,   \* bound on the pairs issued
    MaxRuns,     \* bound on the commands run
    None         \* no file, no token

ASSUME SessionAssump ==
    /\ HomeOf \in [Proc -> Home] /\ Admin \subseteq Home
    /\ {AccessLife, RefreshLife, Leeway, Margin, MaxTime, MaxTokens, MaxRuns} \subseteq Nat
    /\ Margin <= Leeway /\ Leeway < AccessLife /\ AccessLife < RefreshLife

Role == {"observer", "admin"}
TokenId == 1..MaxTokens

\* What a refresh token has left when its access token expires.
Left == RefreshLife - AccessLife

\* What a session.json that does not parse is read as: an empty one, and one cut short.
Torn == [refresh |-> 0, sub |-> None, role |-> "observer", exp |-> 0, until |-> 0]

VARIABLES
    now,      \* the clock, the same everywhere
    role,     \* role[k] in table users
    active,   \* table active_tokens
    file,     \* session.json: None, a torn file, or a pair with expires_at (until)
    cmd,      \* cmd[p]: the command of process p and how far it is; of a "users"
              \* command, pair has the key (sub) and the role it asks for
    issued,   \* pairs issued so far; the newest refresh token
    runs,     \* commands run so far
    changed,  \* history: when a role last changed
    given,    \* history: refresh tokens given out in exchange for a token
    shared,   \* history: refresh tokens two requests had found at the same time
    hurt      \* history: homes whose session a fault may have broken

vars == <<now, role, active, file, cmd, issued, runs, changed, given, shared, hurt>>

NoCmd == [op |-> "none", at |-> "idle", old |-> 0, pair |-> Torn]

Init ==
    /\ now = 0
    /\ role = [k \in Home |-> IF k \in Admin THEN "admin" ELSE "observer"]
    /\ active = {}
    /\ file = [h \in Home |-> None]
    /\ cmd = [p \in Proc |-> NoCmd]
    /\ issued = 0
    /\ runs = 0
    /\ changed = [k \in Home |-> 0]
    /\ given = [t \in TokenId |-> {}]
    /\ shared = {}
    /\ hurt = {}

At(p, step) == cmd[p].at = step

Goto(p, step) == cmd' = [cmd EXCEPT ![p].at = step]

End(p) == cmd' = [cmd EXCEPT ![p] = NoCmd]

Run == runs < MaxRuns /\ runs' = runs + 1

-----------------------------------------------------------------------------
(* truthctl.                                                                  *)

\* auth_flow: the signed request.
AuthFlow(p) ==
    /\ At(p, "idle")
    /\ Run
    /\ cmd' = [cmd EXCEPT ![p] = [NoCmd EXCEPT !.op = "auth", !.at = "issue"]]
    /\ UNCHANGED <<now, role, active, file, issued, changed, given, shared, hurt>>

\* refresh_flow ends silently while the token is alive by its own count.
RefreshFlow(p) ==
    LET s == file[HomeOf[p]] IN
    /\ At(p, "idle")
    /\ s # None
    /\ now >= s.until - Margin
    /\ Run
    /\ cmd' = [cmd EXCEPT ![p] = [NoCmd EXCEPT !.op = "refresh", !.at = "find", !.old = s.refresh]]
    /\ UNCHANGED <<now, role, active, file, issued, changed, given, shared, hurt>>

\* verify_jwt, on the token that bearer_or_err takes from the file.
Accepted(s) == s # None /\ s.sub # None /\ now <= s.exp + Leeway

\* users grant, users revoke: POST /api/v1/users/role, up to require_role.
UsersRole(p, k, r) ==
    LET s == file[HomeOf[p]] IN
    /\ At(p, "idle")
    /\ Accepted(s) /\ s.role = "admin"
    /\ Run
    /\ cmd' = [cmd EXCEPT ![p] = [NoCmd EXCEPT !.op = "users", !.at = "grant",
                                  !.pair = [Torn EXCEPT !.sub = k, !.role = r]]]
    /\ UNCHANGED <<now, role, active, file, issued, changed, given, shared, hurt>>

\* fs::write opens the file, and so empties it, when the answer is there.
TruncateSession(p) ==
    /\ At(p, "write")
    /\ file' = [file EXCEPT ![HomeOf[p]] = Torn]
    /\ cmd' = [cmd EXCEPT ![p] = [@ EXCEPT !.at = "fill", !.pair.until = now + AccessLife]]
    /\ UNCHANGED <<now, role, active, issued, runs, changed, given, shared, hurt>>

\* The pair of the answer, with an expiry of truthctl's own count, is written from
\* the start of the file.
FillSession(p) ==
    /\ At(p, "fill")
    /\ file' = [file EXCEPT ![HomeOf[p]] = cmd[p].pair]
    /\ End(p)
    /\ UNCHANGED <<now, role, active, issued, runs, changed, given, shared, hurt>>

\* A longer session, which another process has written since, stays behind its end.
OverlaySession(p) ==
    /\ At(p, "fill")
    /\ file[HomeOf[p]].refresh # Torn.refresh
    /\ file' = [file EXCEPT ![HomeOf[p]] = Torn]
    /\ hurt' = hurt \cup {HomeOf[p]}
    /\ End(p)
    /\ UNCHANGED <<now, role, active, issued, runs, changed, given, shared>>

-----------------------------------------------------------------------------
(* The server.                                                                *)

\* The row of active_tokens.
Found(t) == {s \in active : s.id = t}

\* api_v1_refresh: find_session_by_refresh
FindSession(p) ==
    LET t == cmd[p].old IN
    /\ At(p, "find")
    /\ IF Found(t) = {} THEN End(p)
       ELSE Goto(p, IF \E s \in Found(t) : now >= s.exp THEN "expired" ELSE "issue")
    /\ shared' = IF \E q \in Proc \ {p} : cmd[q].old = t /\ cmd[q].at \in {"issue", "rotate"}
                 THEN shared \cup {t} ELSE shared
    /\ UNCHANGED <<now, role, active, file, issued, runs, changed, given, hurt>>

\* An expired session is deleted and the answer is 401.
DeleteExpired(p) ==
    /\ At(p, "expired")
    /\ active' = active \ Found(cmd[p].old)
    /\ End(p)
    /\ UNCHANGED <<now, role, file, issued, runs, changed, given, shared, hurt>>

\* Slip: the generator repeats itself.
NextTokenRepeats == 1 + issued \div 2

\* The random refresh token.
NextToken == issued + 1

\* Slip: a refresh copies the role of the access token it replaces.
RoleKept(p, k) == IF cmd[p].op = "refresh" /\ file[HomeOf[p]] # None
                  THEN file[HomeOf[p]].role ELSE role[k]

RoleNow(p, k) == role[k]

\* issue_jwt_pair_with: the role of this moment goes into the access token.
IssuePair(p) ==
    LET k == HomeOf[p] IN
    /\ At(p, "issue")
    /\ issued < MaxTokens
    /\ issued' = issued + 1
    /\ cmd' = [cmd EXCEPT ![p] = [@ EXCEPT !.at = IF cmd[p].op = "auth" THEN "register" ELSE "rotate",
                   !.pair = [refresh |-> NextToken, sub |-> k, role |-> RoleNow(p, k),
                             exp |-> now + AccessLife, until |-> 0]]]
    /\ UNCHANGED <<now, role, active, file, runs, changed, given, shared, hurt>>

Row(pair) == [id |-> pair.refresh, user |-> pair.sub, exp |-> pair.exp + Left]

\* api_v1_auth: register_refresh_token
Register(p) ==
    /\ At(p, "register")
    /\ active' = active \cup {Row(cmd[p].pair)}
    /\ Goto(p, "write")
    /\ UNCHANGED <<now, role, file, issued, runs, changed, given, shared, hurt>>

\* Slip: the sessions of the key are closed, not the one presented.
ClosedAll(p) == {s \in active : s.user = HomeOf[p]}

\* Slip: the token presented stays.
ClosedNone(p) == {}

Closed(p) == Found(cmd[p].old)

\* api_v1_refresh: delete_refresh_token, whether or not it is still there.
DeleteOld(p) ==
    /\ At(p, "rotate")
    /\ active' = active \ Closed(p)
    /\ Goto(p, "insert")
    /\ UNCHANGED <<now, role, file, issued, runs, changed, given, shared, hurt>>

\* ... and register_refresh_token under the same mutex.
InsertNew(p) ==
    /\ At(p, "insert")
    /\ active' = active \cup {Row(cmd[p].pair)}
    /\ given' = [given EXCEPT ![cmd[p].old] = @ \cup {cmd[p].pair.refresh}]
    /\ Goto(p, "write")
    /\ UNCHANGED <<now, role, file, issued, runs, changed, shared, hurt>>

\* update_user_role, once the request has the mutex: nothing is checked again.
UpdateUserRole(p) ==
    LET k == cmd[p].pair.sub
        r == cmd[p].pair.role IN
    /\ At(p, "grant")
    /\ role' = [role EXCEPT ![k] = r]
    /\ changed' = IF role[k] = r THEN changed ELSE [changed EXCEPT ![k] = now]
    /\ End(p)
    /\ UNCHANGED <<now, active, file, issued, runs, given, shared, hurt>>

\* Between the two statements of a rotation the mutex is held.
Locked == \E p \in Proc : At(p, "insert")

\* cleanup_expired_tokens exists and nothing calls it: expired rows stay.

-----------------------------------------------------------------------------
(* Faults.                                                                    *)

\* The request, or the answer to it, is lost, or truthctl is killed before it has
\* written the file. The session is hurt when its token has been exchanged by then,
\* or the file is empty.
Lose(p) ==
    /\ cmd[p].at \in {"find", "issue", "register", "rotate", "grant", "write", "fill"}
    /\ hurt' = IF At(p, "fill") \/ (At(p, "write") /\ cmd[p].op = "refresh")
               THEN hurt \cup {HomeOf[p]} ELSE hurt
    /\ End(p)
    /\ UNCHANGED <<now, role, active, file, issued, runs, changed, given, shared>>

\* The server is killed: requests in hand fail, what was committed stays, and of a
\* rotation that may be the first half.
KillServer ==
    LET cutShort == {p \in Proc : cmd[p].at \notin {"idle", "write", "fill"}} IN
    /\ cutShort # {}
    /\ cmd' = [p \in Proc |-> IF p \in cutShort THEN NoCmd ELSE cmd[p]]
    /\ hurt' = hurt \cup {HomeOf[p] : p \in {q \in Proc : At(q, "insert")}}
    /\ UNCHANGED <<now, role, active, file, issued, runs, changed, given, shared>>

Tick ==
    /\ now < MaxTime
    /\ now' = now + 1
    /\ UNCHANGED <<role, active, file, cmd, issued, runs, changed, given, shared, hurt>>

Next ==
    \/ Tick
    \/ KillServer
    \/ \E p \in Proc :
        \/ AuthFlow(p) \/ RefreshFlow(p)
        \/ TruncateSession(p) \/ FillSession(p) \/ OverlaySession(p)
        \/ \E k \in Home : \E r \in Role : UsersRole(p, k, r)
        \/ Lose(p) \/ InsertNew(p)
        \/ /\ ~Locked
           /\ \/ FindSession(p) \/ DeleteExpired(p) \/ IssuePair(p) \/ Register(p) \/ DeleteOld(p)
              \/ UpdateUserRole(p)

Spec == Init /\ [][Next]_vars

-----------------------------------------------------------------------------
(* Properties.                                                                *)

\* The shape of the tables, of the session files and of the commands.
TypeOK ==
    /\ now \in 0..MaxTime
    /\ role \in [Home -> Role]
    /\ \A s \in active : s.id \in 1..issued /\ s.user \in Home /\ s.exp \in Nat
    /\ \A s, t \in active : s.id = t.id => s = t
    /\ \A h \in Home : file[h] = None \/ file[h].refresh \in 0..issued
    /\ \A p \in Proc : cmd[p].at = "idle" <=> cmd[p].op = "none"
    /\ hurt \subseteq Home

\* However many commands of a home run at the same time, and in whatever order
\* their answers overwrite session.json, the refresh token in the file is one the
\* server still knows (until its day is over), once they are done: the token a
\* late writer brings cannot have been used by anybody yet. Only these break the
\* chain: the answer to a refresh is lost, truthctl is killed with the file empty,
\* the server between the two statements of a rotation, two processes fill the file
\* at a time.
SessionAlive ==
    \A h \in Home :
        LET s == file[h] IN
        h \notin hurt /\ s # None /\ (\A p \in Proc : HomeOf[p] = h => At(p, "idle")) =>
            \/ Found(s.refresh) # {}
            \/ now >= s.exp + Left

\* A refresh token is rotated once, unless two requests had found it before either
\* deleted it: then both answers are good.
RotatesOnce ==
    \A t \in TokenId : t \notin shared => Cardinality(given[t]) <= 1

\* A role that was changed takes hold no later than an access token lives, plus the
\* minute of leeway: refreshing does not carry the old role along. So whose request
\* to change a role is let in is an administrator, or was one that short a time ago,
\* and no role changes but by a request that was let in, however long it waits.
RoleTakesHold ==
    [][/\ \A k \in Home : role'[k] # role[k] =>
            \E p \in Proc : At(p, "grant") /\ cmd[p].pair.sub = k /\ cmd[p].pair.role = role'[k]
       /\ \A p \in Proc : ~At(p, "grant") /\ cmd'[p].at = "grant" =>
            LET by == HomeOf[p] IN
            /\ file[by] # None /\ file[by].role = "admin"
            /\ role[by] = "admin" \/ now <= changed[by] + AccessLife + Leeway]_vars

=============================================================================
