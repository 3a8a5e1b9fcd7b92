----------------------------- MODULE SessionsProofs -----------------------------
(***************************************************************************)
(* Proofs about Sessions, for any homes, processes, lifetimes and bounds.    *)
(***************************************************************************)
EXTENDS Sessions, FiniteSetTheorems, TLAPS

Pair == [refresh : Nat, sub : Home \cup {None}, role : Role, exp : Nat, until : Nat]

Command == [op   : {"none", "auth", "refresh", "users"},
            at   : {"idle", "find", "expired", "issue", "register", "rotate", "insert", "grant",
                    "write", "fill"},
            old  : Nat,
            pair : Pair]

\* p has a pair that it has not written to session.json yet.
Pending(p) == cmd[p].at \in {"register", "rotate", "insert", "write", "fill"}

\* The sorts of the variables.
Sorts ==
    /\ now \in 0..MaxTime
    /\ role \in [Home -> Role]
    /\ active \subseteq [id : Nat, user : Home, exp : Nat]
    /\ file \in [Home -> Pair \cup {None}]
    /\ cmd \in [Proc -> Command]
    /\ issued \in Nat
    /\ changed \in [Home -> Nat]
    /\ given \in [TokenId -> SUBSET Nat]
    /\ hurt \subseteq Home
    /\ \A p \in Proc : /\ cmd[p].at = "idle" <=> cmd[p].op = "none"
                       /\ Pending(p) => cmd[p].pair.sub = HomeOf[p]
                       /\ cmd[p].at = "grant" => cmd[p].pair.sub \in Home
                       /\ cmd[p].op = "users" => cmd[p].at = "grant"
                       /\ cmd[p].at \in {"rotate", "insert"} => cmd[p].op = "refresh"

\* The constants are of their sorts.
LEMMA Lives ==
  /\ AccessLife \in Nat /\ RefreshLife \in Nat /\ Leeway \in Nat /\ Margin \in Nat
  /\ MaxTime \in Nat /\ MaxTokens \in Nat /\ AccessLife < RefreshLife
  /\ Left \in Nat
  /\ HomeOf \in [Proc -> Home]
  BY SessionAssump DEF Left

\* The values that stand for no pair and no command.
LEMMA IdleCommand == Torn \in Pair /\ NoCmd \in Command
  BY DEF Torn, NoCmd, Pair, Command, Role

\* A command that goes on to a step, with its pair or a new one.
LEMMA CommandGoes ==
  ASSUME cmd \in [Proc -> Command], NEW p \in Proc, NEW pair \in Pair,
         NEW step \in {"expired", "issue", "register", "rotate", "insert", "write", "fill"}
  PROVE  /\ [cmd EXCEPT ![p].at = step] \in [Proc -> Command]
         /\ [cmd EXCEPT ![p] = [@ EXCEPT !.at = step, !.pair = pair]] \in [Proc -> Command]
  BY DEF Command

\* The actions, one by one.
LEMMA Steps ==
  ASSUME [Next]_vars
  PROVE  \/ UNCHANGED vars
         \/ Tick \/ KillServer
         \/ \E p \in Proc :
              \/ AuthFlow(p) \/ RefreshFlow(p)
              \/ TruncateSession(p) \/ FillSession(p) \/ OverlaySession(p)
              \/ \E k \in Home : \E r \in Role : UsersRole(p, k, r)
              \/ Lose(p) \/ InsertNew(p)
              \/ FindSession(p) /\ ~Locked
              \/ DeleteExpired(p) \/ IssuePair(p) \/ Register(p) \/ DeleteOld(p)
              \/ UpdateUserRole(p)
  BY DEF Next

\* What a request for a refresh finds: nothing, an expired session, or a live one.
LEMMA Finds ==
  ASSUME Sorts, NEW p \in Proc, FindSession(p)
  PROVE  /\ UNCHANGED <<now, active, file, issued, given, hurt>>
         /\ \A q \in Proc \ {p} : cmd'[q] = cmd[q]
         /\ cmd[p].at = "find" /\ cmd'[p].at \in {"idle", "expired", "issue"}
         /\ cmd'[p].old \in {0, cmd[p].old}
         /\ cmd'[p].at = "expired" => /\ cmd'[p].old = cmd[p].old
                                     /\ \E s \in active : s.id = cmd[p].old /\ now >= s.exp
         /\ cmd'[p].at = "issue" => \E s \in active : s.id = cmd[p].old
<1>1. CASE Found(cmd[p].old) = {}
  BY <1>1 DEF FindSession, Sorts, Command, End, NoCmd, At
<1>2. CASE Found(cmd[p].old) # {}
  BY <1>2 DEF FindSession, Sorts, Command, Goto, Found, At
<1> QED BY <1>1, <1>2

\* Every step keeps the sorts.
LEMMA SortsStep == ASSUME Sorts, [Next]_vars PROVE Sorts'
<1> USE Lives, IdleCommand
<1>1. CASE UNCHANGED vars
  BY <1>1 DEF Sorts, Pending, vars
<1>2. CASE Tick
  BY <1>2 DEF Sorts, Pending, Tick
<1>3. CASE KillServer
  BY <1>3 DEF Sorts, Pending, KillServer, NoCmd
<1>4. ASSUME NEW p \in Proc, AuthFlow(p) PROVE Sorts'
  BY <1>4 DEF Sorts, Pending, AuthFlow, Run, NoCmd, Command
<1>5. ASSUME NEW p \in Proc, RefreshFlow(p) PROVE Sorts'
  <2>1. file[HomeOf[p]].refresh \in Nat
    BY <1>5 DEF Sorts, Pending, RefreshFlow, Pair
  <2> QED BY <1>5, <2>1 DEF Sorts, Pending, RefreshFlow, Run, NoCmd, Command
<1>6. ASSUME NEW p \in Proc, FillSession(p) PROVE Sorts'
  BY <1>6 DEF Sorts, Pending, FillSession, End, NoCmd, Command
<1>7. ASSUME NEW p \in Proc, NEW k \in Home, NEW r \in Role, UsersRole(p, k, r) PROVE Sorts'
  <2> DEFINE pair == [Torn EXCEPT !.sub = k, !.role = r]
             new == [NoCmd EXCEPT !.op = "users", !.at = "grant", !.pair = pair]
  <2>1. pair \in Pair /\ pair.sub = k
    BY DEF Torn, Pair
  <2>2. new \in Command /\ new.at = "grant" /\ new.op = "users" /\ new.pair = pair
    BY <2>1 DEF NoCmd, Command
  <2>3. cmd' = [cmd EXCEPT ![p] = new]
        /\ UNCHANGED <<now, role, active, file, issued, changed, given, shared, hurt>>
    BY <1>7 DEF UsersRole
  <2> HIDE DEF pair, new
  <2> QED BY <2>1, <2>2, <2>3 DEF Sorts, Pending
<1>8. ASSUME NEW p \in Proc, Lose(p) PROVE Sorts'
  BY <1>8 DEF Sorts, Pending, Lose, End, NoCmd
<1>9. ASSUME NEW p \in Proc, TruncateSession(p) PROVE Sorts'
  <2> DEFINE pair == [cmd[p].pair EXCEPT !.until = now + AccessLife]
  <2>1. pair \in Pair /\ pair.sub = cmd[p].pair.sub
    BY DEF Sorts, Command, Pair
  <2>2. cmd' = [cmd EXCEPT ![p] = [@ EXCEPT !.at = "fill", !.pair = pair]]
        /\ cmd[p].at = "write" /\ file' = [file EXCEPT ![HomeOf[p]] = Torn]
        /\ UNCHANGED <<now, role, active, issued, changed, given, shared, hurt>>
    BY <1>9 DEF TruncateSession, At, Sorts, Command, Pair
  <2> HIDE DEF pair
  <2>3. cmd' \in [Proc -> Command]
    BY <2>1, <2>2, CommandGoes DEF Sorts
  <2>4. /\ cmd'[p].at = "fill" /\ cmd'[p].pair = pair /\ cmd'[p].op = cmd[p].op
        /\ \A q \in Proc \ {p} : cmd'[q] = cmd[q]
    BY <2>2 DEF Sorts, Command
  <2> QED BY <2>1, <2>2, <2>3, <2>4 DEF Sorts, Pending
<1>10. ASSUME NEW p \in Proc, InsertNew(p) PROVE Sorts'
  <2>1. Row(cmd[p].pair) \in [id : Nat, user : Home, exp : Nat]
    BY <1>10 DEF Sorts, Pending, InsertNew, At, Row, Command, Pair
  <2>2. cmd[p].pair.refresh \in Nat
    BY DEF Sorts, Command, Pair
  <2>3. given' \in [TokenId -> SUBSET Nat]
    BY <1>10, <2>2 DEF Sorts, InsertNew
  <2>4. cmd' \in [Proc -> Command]
    BY <1>10 DEF Sorts, InsertNew, Goto, Command
  <2> QED BY <1>10, <2>1, <2>3, <2>4 DEF Sorts, Pending, InsertNew, Goto, At
<1>11. ASSUME NEW p \in Proc, FindSession(p) PROVE Sorts'
  <2>1. CASE End(p)
    BY <1>11, <2>1 DEF Sorts, Pending, FindSession, End, NoCmd
  <2>2. ASSUME NEW step \in {"expired", "issue"}, Goto(p, step), cmd[p].at = "find" PROVE Sorts'
    <3>1. cmd' \in [Proc -> Command]
      BY <2>2, IdleCommand, CommandGoes DEF Sorts, Goto
    <3>2. cmd'[p].at = step /\ cmd'[p].op = cmd[p].op /\ \A q \in Proc \ {p} : cmd'[q] = cmd[q]
      BY <2>2 DEF Sorts, Goto, Command
    <3> QED BY <1>11, <2>2, <3>1, <3>2 DEF Sorts, Pending, FindSession
  <2> QED BY <1>11, <2>1, <2>2 DEF FindSession, At
<1>12. ASSUME NEW p \in Proc, DeleteExpired(p) PROVE Sorts'
  BY <1>12 DEF Sorts, Pending, DeleteExpired, End, NoCmd
<1>13. ASSUME NEW p \in Proc, IssuePair(p) PROVE Sorts'
  <2> DEFINE new == [refresh |-> NextToken, sub |-> HomeOf[p], role |-> RoleNow(p, HomeOf[p]),
                     exp |-> now + AccessLife, until |-> 0]
             step == IF cmd[p].op = "auth" THEN "register" ELSE "rotate"
  <2>1. new \in Pair /\ new.sub = HomeOf[p]
    BY DEF Sorts, NextToken, RoleNow, Pair
  <2>2. cmd' = [cmd EXCEPT ![p] = [@ EXCEPT !.at = step, !.pair = new]]
    BY <1>13 DEF IssuePair
  <2>3. step \in {"register", "rotate"} /\ (step = "rotate" => cmd[p].op = "refresh")
    BY <1>13 DEF IssuePair, At, Sorts, Command
  <2>4. cmd[p].at = "issue" /\ issued' = issued + 1
        /\ UNCHANGED <<now, role, active, file, runs, changed, given, shared, hurt>>
    BY <1>13 DEF IssuePair, At
  <2> HIDE DEF new, step
  <2>5. cmd' \in [Proc -> Command]
    BY <2>1, <2>2, <2>3, CommandGoes DEF Sorts
  <2>6. /\ cmd'[p].at = step /\ cmd'[p].pair = new /\ cmd'[p].op = cmd[p].op
        /\ \A q \in Proc \ {p} : cmd'[q] = cmd[q]
    BY <2>2 DEF Sorts, Command
  <2> QED BY <2>1, <2>3, <2>4, <2>5, <2>6 DEF Sorts, Pending
<1>14. ASSUME NEW p \in Proc, Register(p) PROVE Sorts'
  <2>1. Row(cmd[p].pair) \in [id : Nat, user : Home, exp : Nat]
    BY <1>14 DEF Sorts, Pending, Register, At, Row, Command, Pair
  <2>2. cmd' \in [Proc -> Command]
    BY <1>14 DEF Sorts, Register, Goto, Command
  <2> QED BY <1>14, <2>1, <2>2 DEF Sorts, Pending, Register, Goto, At
<1>15. ASSUME NEW p \in Proc, DeleteOld(p) PROVE Sorts'
  BY <1>15 DEF Sorts, Pending, DeleteOld, Goto, At, Command
<1>16. ASSUME NEW p \in Proc, OverlaySession(p) PROVE Sorts'
  BY <1>16 DEF Sorts, Pending, OverlaySession, End, NoCmd
<1>17. ASSUME NEW p \in Proc, UpdateUserRole(p) PROVE Sorts'
  <2>1. cmd[p].pair.sub \in Home /\ cmd[p].pair.role \in Role
    BY <1>17 DEF Sorts, UpdateUserRole, At, Command, Pair
  <2>2. changed' \in [Home -> Nat] /\ role' \in [Home -> Role]
    BY <1>17, <2>1 DEF Sorts, UpdateUserRole
  <2> QED BY <1>17, <2>2 DEF Sorts, Pending, UpdateUserRole, End, NoCmd
<1> QED BY <1>1, <1>2, <1>3, <1>4, <1>5, <1>6, <1>7, <1>8, <1>9, <1>10, <1>11, <1>12, <1>13,
      <1>14, <1>15, <1>16, <1>17, Steps

-----------------------------------------------------------------------------
(* Roles.                                                                     *)

\* An administrator's access token was issued to one, no longer ago than it lives.
RoleKnown(pair, h) ==
    pair.role = "admin" =>
        /\ pair.exp <= now + AccessLife
        /\ role[h] = "admin" \/ pair.exp <= changed[h] + AccessLife

RolesKnown ==
    /\ \A p \in Proc : Pending(p) => RoleKnown(cmd[p].pair, HomeOf[p])
    /\ \A h \in Home : file[h] # None => RoleKnown(file[h], h)

\* No token outlives a role it does not carry by more than its own life.
LEMMA RolesStep == ASSUME Sorts, RolesKnown, [Next]_vars PROVE RolesKnown'
<1> USE Lives, IdleCommand
<1>1. CASE UNCHANGED vars
  BY <1>1 DEF Sorts, RolesKnown, RoleKnown, Pending, Command, Pair, Role, vars
<1>2. CASE Tick
  BY <1>2 DEF Sorts, RolesKnown, RoleKnown, Pending, Command, Pair, Role, Tick
<1>3. CASE KillServer
  BY <1>3 DEF Sorts, RolesKnown, RoleKnown, Pending, Command, Pair, Role, KillServer, NoCmd
<1>4. ASSUME NEW p \in Proc, AuthFlow(p) PROVE RolesKnown'
  BY <1>4 DEF Sorts, RolesKnown, RoleKnown, Pending, Command, Pair, Role, AuthFlow, Run,
      NoCmd, Torn
<1>5. ASSUME NEW p \in Proc, RefreshFlow(p) PROVE RolesKnown'
  BY <1>5 DEF Sorts, RolesKnown, RoleKnown, Pending, Command, Pair, Role, RefreshFlow, Run,
      NoCmd, Torn
<1>6. ASSUME NEW p \in Proc, FillSession(p) PROVE RolesKnown'
  BY <1>6 DEF Sorts, RolesKnown, RoleKnown, Pending, Command, Pair, Role, FillSession, End,
      NoCmd, At, Torn
<1>7. ASSUME NEW p \in Proc, NEW k \in Home, NEW r \in Role, UsersRole(p, k, r) PROVE RolesKnown'
  BY <1>7 DEF Sorts, RolesKnown, RoleKnown, Pending, Command, Pair, Role, UsersRole, Run,
      NoCmd, Torn
<1>8. ASSUME NEW p \in Proc, Lose(p) PROVE RolesKnown'
  BY <1>8 DEF Sorts, RolesKnown, RoleKnown, Pending, Command, Pair, Role, Lose, End, NoCmd
<1>9. ASSUME NEW p \in Proc, TruncateSession(p) PROVE RolesKnown'
  BY <1>9 DEF Sorts, RolesKnown, RoleKnown, Pending, Command, Pair, Role, TruncateSession, At,
      Torn
<1>10. ASSUME NEW p \in Proc, InsertNew(p) PROVE RolesKnown'
  BY <1>10 DEF Sorts, RolesKnown, RoleKnown, Pending, Command, Pair, Role, InsertNew, Goto,
      At, Row
<1>11. ASSUME NEW p \in Proc, FindSession(p), ~Locked PROVE RolesKnown'
  <2>1. /\ UNCHANGED <<now, role, changed, file>>
        /\ \A q \in Proc \ {p} : cmd'[q] = cmd[q]
        /\ ~Pending(p)'
    BY <1>11, Finds DEF FindSession, Pending
  <2> QED BY <2>1 DEF RolesKnown, RoleKnown, Pending
<1>12. ASSUME NEW p \in Proc, DeleteExpired(p) PROVE RolesKnown'
  BY <1>12 DEF Sorts, RolesKnown, RoleKnown, Pending, Command, Pair, Role, DeleteExpired,
      End, NoCmd, At, Found
<1>13. ASSUME NEW p \in Proc, IssuePair(p) PROVE RolesKnown'
  BY <1>13 DEF Sorts, RolesKnown, RoleKnown, Pending, Command, Pair, Role, IssuePair,
      NextToken, RoleNow, At
<1>14. ASSUME NEW p \in Proc, Register(p) PROVE RolesKnown'
  BY <1>14 DEF Sorts, RolesKnown, RoleKnown, Pending, Command, Pair, Role, Register, Goto,
      At, Row
<1>15. ASSUME NEW p \in Proc, DeleteOld(p) PROVE RolesKnown'
  BY <1>15 DEF Sorts, RolesKnown, RoleKnown, Pending, Command, Pair, Role, DeleteOld, Goto,
      At, Closed, Found
<1>16. ASSUME NEW p \in Proc, OverlaySession(p) PROVE RolesKnown'
  BY <1>16 DEF Sorts, RolesKnown, RoleKnown, Pending, Command, Pair, Role, OverlaySession,
      End, NoCmd, At, Torn
<1>17. ASSUME NEW p \in Proc, UpdateUserRole(p) PROVE RolesKnown'
  BY <1>17 DEF Sorts, RolesKnown, RoleKnown, Pending, Command, Pair, Role, UpdateUserRole,
      End, NoCmd, At, Torn
<1> QED BY <1>1, <1>2, <1>3, <1>4, <1>5, <1>6, <1>7, <1>8, <1>9, <1>10, <1>11, <1>12, <1>13,
      <1>14, <1>15, <1>16, <1>17, Steps


\* A changed role takes hold within the life of an access token and the leeway: the
\* role in a token is compared with nothing, so this rests on who issued it and when.
THEOREM RoleChangesTakeHold == Spec => RoleTakesHold
<1>1. Init => Sorts /\ RolesKnown
  BY Lives, IdleCommand DEF Init, Sorts, RolesKnown, Pending, NoCmd, Role
<1>2. Sorts /\ RolesKnown /\ [Next]_vars => Sorts' /\ RolesKnown'
  BY SortsStep, RolesStep
<1> DEFINE Asked == \A k \in Home : role'[k] # role[k] =>
             \E p \in Proc : At(p, "grant") /\ cmd[p].pair.sub = k /\ cmd[p].pair.role = role'[k]
           LetIn == \A p \in Proc : ~At(p, "grant") /\ cmd'[p].at = "grant" =>
             LET by == HomeOf[p] IN
             /\ file[by] # None /\ file[by].role = "admin"
             /\ role[by] = "admin" \/ now <= changed[by] + AccessLife + Leeway
<1>3. Sorts /\ RolesKnown /\ [Next]_vars => [Asked /\ LetIn]_vars
  <2> SUFFICES ASSUME Sorts, RolesKnown, [Next]_vars PROVE Asked /\ LetIn
    OBVIOUS
  <2>1. Asked
    <3>1. ASSUME NEW p \in Proc, UpdateUserRole(p) PROVE Asked
      BY <3>1 DEF UpdateUserRole, Sorts
    <3>2. UNCHANGED role \/ \E p \in Proc : UpdateUserRole(p)
      BY Steps DEF vars, Tick, KillServer, AuthFlow, RefreshFlow, TruncateSession, FillSession,
                   OverlaySession, UsersRole, Lose, InsertNew, FindSession, DeleteExpired,
                   IssuePair, Register, DeleteOld
    <3> QED BY <3>1, <3>2
  <2>2. LetIn
    <3>1. ASSUME NEW p \in Proc, NEW k \in Home, NEW r \in Role, UsersRole(p, k, r) PROVE LetIn
      <4> DEFINE by == HomeOf[p]
      <4>1. by \in Home /\ file[by] # None /\ file[by].role = "admin"
            /\ now <= file[by].exp + Leeway
        BY <3>1, Lives DEF UsersRole, Accepted
      <4>2. file[by].exp \in Nat /\ now \in Nat /\ changed[by] \in Nat
        BY <4>1, Lives DEF Sorts, Pair
      <4>3. role[by] = "admin" \/ file[by].exp <= changed[by] + AccessLife
        BY <4>1 DEF RolesKnown, RoleKnown
      <4>4. role[by] = "admin" \/ now <= changed[by] + AccessLife + Leeway
        BY <4>1, <4>2, <4>3, Lives
      <4>5. \A q \in Proc \ {p} : cmd'[q] = cmd[q]
        BY <3>1 DEF UsersRole, Sorts
      <4> QED BY <4>1, <4>4, <4>5 DEF At
    <3>2. \/ \A q \in Proc : cmd'[q].at = "grant" => At(q, "grant")
          \/ \E p \in Proc : \E k \in Home : \E r \in Role : UsersRole(p, k, r)
      <4> DEFINE Quiet == \A q \in Proc : cmd'[q].at = "grant" => At(q, "grant")
      <4>1. CASE UNCHANGED vars \/ Tick \/ KillServer
        BY <4>1 DEF vars, Tick, KillServer, At, NoCmd, Sorts
      <4>2. ASSUME NEW p \in Proc, AuthFlow(p) \/ RefreshFlow(p) PROVE Quiet
        BY <4>2 DEF AuthFlow, RefreshFlow, NoCmd, At, Sorts
      <4>3. ASSUME NEW p \in Proc, TruncateSession(p) PROVE Quiet
        BY <4>3 DEF TruncateSession, At, Sorts, Command
      <4>6. ASSUME NEW p \in Proc, IssuePair(p) PROVE Quiet
        <5>1. cmd'[p].at \in {"register", "rotate"} /\ \A q \in Proc \ {p} : cmd'[q] = cmd[q]
          BY <4>6 DEF IssuePair, Sorts, Command
        <5> QED BY <5>1 DEF At
      <4>4. ASSUME NEW p \in Proc, FillSession(p) \/ OverlaySession(p) \/ Lose(p) \/ FindSession(p)
                                  \/ DeleteExpired(p) \/ UpdateUserRole(p) PROVE Quiet
        BY <4>4 DEF FillSession, OverlaySession, Lose, FindSession, DeleteExpired, UpdateUserRole,
                    End, Goto, NoCmd, At, Sorts, Command
      <4>5. ASSUME NEW p \in Proc, InsertNew(p) \/ Register(p) \/ DeleteOld(p) PROVE Quiet
        BY <4>5 DEF InsertNew, Register, DeleteOld, Goto, At, Sorts, Command
      <4> QED BY <4>1, <4>2, <4>3, <4>4, <4>5, <4>6, Steps
    <3> QED BY <3>1, <3>2 DEF At
  <2> QED BY <2>1, <2>2
<1> QED BY <1>1, <1>2, <1>3, PTL DEF Spec, RoleTakesHold

-----------------------------------------------------------------------------
(* Tokens.                                                                    *)

\* Tokens are numbered as they are issued, and no two sessions have the same.
Issued ==
    /\ \A s \in active : s.id \in 1..issued
    /\ \A s, t \in active : s.id = t.id => s = t
    /\ \A h \in Home : file[h] # None => file[h].refresh <= issued
    /\ \A p \in Proc : cmd[p].old <= issued

\* The token of a pair that is not in its file yet is nobody else's, and nobody has
\* presented it.
Fresh ==
    \A p \in Proc : Pending(p) =>
        /\ cmd[p].pair.refresh \in 1..issued
        /\ cmd[p].at \notin {"write", "fill"} => \A s \in active : s.id # cmd[p].pair.refresh
        /\ \A q \in Proc : cmd[q].old # cmd[p].pair.refresh
        /\ \A q \in Proc \ {p} : Pending(q) => cmd[q].pair.refresh # cmd[p].pair.refresh
        /\ \A h \in Home : file[h] # None => file[h].refresh # cmd[p].pair.refresh

\* The session of a pair that is about to be written is in the table.
Registered ==
    \A p \in Proc : cmd[p].at \in {"write", "fill"} => Row(cmd[p].pair) \in active

\* A token is in one file only, and only commands of that home present it.
Owned ==
    \A h \in Home : file[h] # None /\ file[h].refresh # 0 =>
        /\ \A g \in Home \ {h} : file[g] # None => file[g].refresh # file[h].refresh
        /\ \A p \in Proc : cmd[p].old = file[h].refresh => HomeOf[p] = h

\* A session that was found expired is expired, and file and table agree on when.
Expiring ==
    /\ \A p \in Proc : cmd[p].at = "expired" => \A s \in active : s.id = cmd[p].old => now >= s.exp
    /\ \A h \in Home : file[h] # None =>
           \A s \in active : s.id = file[h].refresh => s.exp = file[h].exp + Left

\* p has exchanged the token of its file, or emptied the file, and has yet to write.
Owing(p) == cmd[p].at \in {"insert", "fill"} \/ (cmd[p].at = "write" /\ cmd[p].op = "refresh")

\* The token in a file lives until it expires, or a command that has replaced it is
\* about to write the new one.
Alive ==
    \A h \in Home : file[h] # None /\ h \notin hurt =>
        \/ \E s \in active : s.id = file[h].refresh
        \/ now >= file[h].exp + Left
        \/ \E p \in Proc : HomeOf[p] = h /\ Owing(p)

\* Every step keeps the numbers of the tokens unique.
LEMMA IssuedStep == ASSUME Sorts, Issued, Fresh, [Next]_vars PROVE Issued'
<1> USE Lives, IdleCommand
<1>1. CASE UNCHANGED vars
  BY <1>1 DEF Sorts, Issued, Fresh, Pending, Command, Pair, vars
<1>2. CASE Tick
  BY <1>2 DEF Sorts, Issued, Fresh, Pending, Command, Pair, Tick
<1>3. CASE KillServer
  BY <1>3 DEF Sorts, Issued, Fresh, Pending, Command, Pair, KillServer, NoCmd
<1>4. ASSUME NEW p \in Proc, AuthFlow(p) PROVE Issued'
  BY <1>4 DEF Sorts, Issued, Fresh, Pending, Command, Pair, AuthFlow, Run, NoCmd, Torn
<1>5. ASSUME NEW p \in Proc, RefreshFlow(p) PROVE Issued'
  BY <1>5 DEF Sorts, Issued, Fresh, Pending, Command, Pair, RefreshFlow, Run, NoCmd, Torn
<1>6. ASSUME NEW p \in Proc, FillSession(p) PROVE Issued'
  BY <1>6 DEF Sorts, Issued, Fresh, Pending, Command, Pair, FillSession, End, NoCmd, At, Torn
<1>7. ASSUME NEW p \in Proc, NEW k \in Home, NEW r \in Role, UsersRole(p, k, r) PROVE Issued'
  BY <1>7 DEF Sorts, Issued, Fresh, Pending, Command, Pair, UsersRole, Run, NoCmd, Torn
<1>8. ASSUME NEW p \in Proc, Lose(p) PROVE Issued'
  BY <1>8 DEF Sorts, Issued, Fresh, Pending, Command, Pair, Lose, End, NoCmd
<1>9. ASSUME NEW p \in Proc, TruncateSession(p) PROVE Issued'
  BY <1>9 DEF Sorts, Issued, Fresh, Pending, Command, Pair, TruncateSession, At, Torn
<1>10. ASSUME NEW p \in Proc, InsertNew(p) PROVE Issued'
  BY <1>10 DEF Sorts, Issued, Fresh, Pending, Command, Pair, InsertNew, Goto, At, Row
<1>11. ASSUME NEW p \in Proc, FindSession(p), ~Locked PROVE Issued'
  <2>1. /\ UNCHANGED <<now, active, file, issued>>
        /\ \A q \in Proc \ {p} : cmd'[q] = cmd[q]
        /\ cmd[p].at = "find" /\ cmd'[p].at \in {"idle", "expired", "issue"}
        /\ cmd'[p].old \in {0, cmd[p].old}
    BY <1>11, Finds
  <2> QED BY <2>1 DEF Sorts, Issued
<1>12. ASSUME NEW p \in Proc, DeleteExpired(p) PROVE Issued'
  BY <1>12 DEF Sorts, Issued, Fresh, Pending, Command, Pair, DeleteExpired, End, NoCmd, At,
      Found
<1>13. ASSUME NEW p \in Proc, IssuePair(p) PROVE Issued'
  BY <1>13 DEF Sorts, Issued, Fresh, Pending, Command, Pair, IssuePair, NextToken, RoleNow, At
<1>14. ASSUME NEW p \in Proc, Register(p) PROVE Issued'
  BY <1>14 DEF Sorts, Issued, Fresh, Pending, Command, Pair, Register, Goto, At, Row
<1>15. ASSUME NEW p \in Proc, DeleteOld(p) PROVE Issued'
  BY <1>15 DEF Sorts, Issued, Fresh, Pending, Command, Pair, DeleteOld, Goto, At, Closed, Found
<1>16. ASSUME NEW p \in Proc, OverlaySession(p) PROVE Issued'
  BY <1>16 DEF Sorts, Issued, Fresh, Pending, Command, Pair, OverlaySession, End, NoCmd, At,
      Torn
<1>17. ASSUME NEW p \in Proc, UpdateUserRole(p) PROVE Issued'
  BY <1>17 DEF Sorts, Issued, Fresh, Pending, Command, Pair, UpdateUserRole, End, NoCmd, At,
      Torn
<1> QED BY <1>1, <1>2, <1>3, <1>4, <1>5, <1>6, <1>7, <1>8, <1>9, <1>10, <1>11, <1>12, <1>13,
      <1>14, <1>15, <1>16, <1>17, Steps


\* A token that is not yet in a file stays its owner's alone.
LEMMA FreshStep == ASSUME Sorts, Issued, Fresh, [Next]_vars PROVE Fresh'
<1> USE Lives, IdleCommand
<1>1. CASE UNCHANGED vars
  BY <1>1 DEF Sorts, Issued, Fresh, Pending, Command, Pair, vars
<1>2. CASE Tick
  BY <1>2 DEF Sorts, Issued, Fresh, Pending, Command, Pair, Tick
<1>3. CASE KillServer
  BY <1>3 DEF Sorts, Issued, Fresh, Pending, Command, Pair, KillServer, NoCmd
<1>4. ASSUME NEW p \in Proc, AuthFlow(p) PROVE Fresh'
  BY <1>4 DEF Sorts, Issued, Fresh, Pending, Command, Pair, AuthFlow, Run, NoCmd, Torn
<1>5. ASSUME NEW p \in Proc, RefreshFlow(p) PROVE Fresh'
  BY <1>5 DEF Sorts, Issued, Fresh, Pending, Command, Pair, RefreshFlow, Run, NoCmd, Torn
<1>6. ASSUME NEW p \in Proc, FillSession(p) PROVE Fresh'
  BY <1>6 DEF Sorts, Issued, Fresh, Pending, Command, Pair, FillSession, End, NoCmd, At, Torn
<1>7. ASSUME NEW p \in Proc, NEW k \in Home, NEW r \in Role, UsersRole(p, k, r) PROVE Fresh'
  BY <1>7 DEF Sorts, Issued, Fresh, Pending, Command, Pair, UsersRole, Run, NoCmd, Torn
<1>8. ASSUME NEW p \in Proc, Lose(p) PROVE Fresh'
  BY <1>8 DEF Sorts, Issued, Fresh, Pending, Command, Pair, Lose, End, NoCmd
<1>9. ASSUME NEW p \in Proc, TruncateSession(p) PROVE Fresh'
  BY <1>9 DEF Sorts, Issued, Fresh, Pending, Command, Pair, TruncateSession, At, Torn
<1>10. ASSUME NEW p \in Proc, InsertNew(p) PROVE Fresh'
  BY <1>10 DEF Sorts, Issued, Fresh, Pending, Command, Pair, InsertNew, Goto, At, Row
<1>11. ASSUME NEW p \in Proc, FindSession(p), ~Locked PROVE Fresh'
  <2>1. /\ UNCHANGED <<now, active, file, issued>>
        /\ \A q \in Proc \ {p} : cmd'[q] = cmd[q]
        /\ cmd[p].at = "find" /\ cmd'[p].at \in {"idle", "expired", "issue"}
        /\ cmd'[p].old \in {0, cmd[p].old}
        /\ cmd'[p].at = "expired" => /\ cmd'[p].old = cmd[p].old
                                    /\ \E s \in active : s.id = cmd[p].old /\ now >= s.exp
    BY <1>11, Finds
  <2> QED BY <2>1 DEF Sorts, Issued, Fresh, Pending
<1>12. ASSUME NEW p \in Proc, DeleteExpired(p) PROVE Fresh'
  BY <1>12 DEF Sorts, Issued, Fresh, Pending, Command, Pair, DeleteExpired, End, NoCmd, At,
      Found
<1>13. ASSUME NEW p \in Proc, IssuePair(p) PROVE Fresh'
  BY <1>13 DEF Sorts, Issued, Fresh, Pending, Command, Pair, IssuePair, NextToken, RoleNow, At
<1>14. ASSUME NEW p \in Proc, Register(p) PROVE Fresh'
  BY <1>14 DEF Sorts, Issued, Fresh, Pending, Command, Pair, Register, Goto, At, Row
<1>15. ASSUME NEW p \in Proc, DeleteOld(p) PROVE Fresh'
  BY <1>15 DEF Sorts, Issued, Fresh, Pending, Command, Pair, DeleteOld, Goto, At, Closed, Found
<1>16. ASSUME NEW p \in Proc, OverlaySession(p) PROVE Fresh'
  BY <1>16 DEF Sorts, Issued, Fresh, Pending, Command, Pair, OverlaySession, End, NoCmd, At,
      Torn
<1>17. ASSUME NEW p \in Proc, UpdateUserRole(p) PROVE Fresh'
  BY <1>17 DEF Sorts, Issued, Fresh, Pending, Command, Pair, UpdateUserRole, End, NoCmd, At,
      Torn
<1> QED BY <1>1, <1>2, <1>3, <1>4, <1>5, <1>6, <1>7, <1>8, <1>9, <1>10, <1>11, <1>12, <1>13,
      <1>14, <1>15, <1>16, <1>17, Steps


\* A session that is about to be written stays in the table.
LEMMA RegisteredStep == ASSUME Sorts, Issued, Fresh, Registered, [Next]_vars PROVE Registered'
<1> USE Lives, IdleCommand
<1>1. CASE UNCHANGED vars
  BY <1>1 DEF Sorts, Issued, Fresh, Registered, Left, Row, Pending, Command, Pair, vars
<1>2. CASE Tick
  BY <1>2 DEF Sorts, Issued, Fresh, Registered, Left, Row, Pending, Command, Pair, Tick
<1>3. CASE KillServer
  BY <1>3 DEF Sorts, Issued, Fresh, Registered, Left, Row, Pending, Command, Pair,
      KillServer, NoCmd
<1>4. ASSUME NEW p \in Proc, AuthFlow(p) PROVE Registered'
  BY <1>4 DEF Sorts, Issued, Fresh, Registered, Left, Row, Pending, Command, Pair, AuthFlow,
      Run, NoCmd, Torn
<1>5. ASSUME NEW p \in Proc, RefreshFlow(p) PROVE Registered'
  BY <1>5 DEF Sorts, Issued, Fresh, Registered, Left, Row, Pending, Command, Pair,
      RefreshFlow, Run, NoCmd, Torn
<1>6. ASSUME NEW p \in Proc, FillSession(p) PROVE Registered'
  BY <1>6 DEF Sorts, Issued, Fresh, Registered, Left, Row, Pending, Command, Pair,
      FillSession, End, NoCmd, At, Torn
<1>7. ASSUME NEW p \in Proc, NEW k \in Home, NEW r \in Role, UsersRole(p, k, r) PROVE Registered'
  BY <1>7 DEF Sorts, Issued, Fresh, Registered, Left, Row, Pending, Command, Pair, UsersRole,
      Run, NoCmd, Torn
<1>8. ASSUME NEW p \in Proc, Lose(p) PROVE Registered'
  BY <1>8 DEF Sorts, Issued, Fresh, Registered, Left, Row, Pending, Command, Pair, Lose, End,
      NoCmd
<1>9. ASSUME NEW p \in Proc, TruncateSession(p) PROVE Registered'
  BY <1>9 DEF Sorts, Issued, Fresh, Registered, Left, Row, Pending, Command, Pair,
      TruncateSession, At, Torn
<1>10. ASSUME NEW p \in Proc, InsertNew(p) PROVE Registered'
  BY <1>10 DEF Sorts, Issued, Fresh, Registered, Left, Row, Pending, Command, Pair,
      InsertNew, Goto, At, Row
<1>11. ASSUME NEW p \in Proc, FindSession(p), ~Locked PROVE Registered'
  <2>1. /\ UNCHANGED <<now, active, file, issued>>
        /\ \A q \in Proc \ {p} : cmd'[q] = cmd[q]
        /\ cmd[p].at = "find" /\ cmd'[p].at \in {"idle", "expired", "issue"}
        /\ cmd'[p].old \in {0, cmd[p].old}
    BY <1>11, Finds
  <2> QED BY <2>1 DEF Sorts, Registered
<1>12. ASSUME NEW p \in Proc, DeleteExpired(p) PROVE Registered'
  BY <1>12 DEF Sorts, Issued, Fresh, Registered, Left, Row, Pending, Command, Pair,
      DeleteExpired, End, NoCmd, At, Found
<1>13. ASSUME NEW p \in Proc, IssuePair(p) PROVE Registered'
  BY <1>13 DEF Sorts, Issued, Fresh, Registered, Left, Row, Pending, Command, Pair,
      IssuePair, NextToken, RoleNow, At
<1>14. ASSUME NEW p \in Proc, Register(p) PROVE Registered'
  BY <1>14 DEF Sorts, Issued, Fresh, Registered, Left, Row, Pending, Command, Pair, Register,
      Goto, At, Row
<1>15. ASSUME NEW p \in Proc, DeleteOld(p) PROVE Registered'
  BY <1>15 DEF Sorts, Issued, Fresh, Registered, Left, Row, Pending, Command, Pair,
      DeleteOld, Goto, At, Closed, Found
<1>16. ASSUME NEW p \in Proc, OverlaySession(p) PROVE Registered'
  BY <1>16 DEF Sorts, Issued, Fresh, Registered, Left, Row, Pending, Command, Pair,
      OverlaySession, End, NoCmd, At, Torn
<1>17. ASSUME NEW p \in Proc, UpdateUserRole(p) PROVE Registered'
  BY <1>17 DEF Sorts, Issued, Fresh, Registered, Left, Row, Pending, Command, Pair,
      UpdateUserRole, End, NoCmd, At, Torn
<1> QED BY <1>1, <1>2, <1>3, <1>4, <1>5, <1>6, <1>7, <1>8, <1>9, <1>10, <1>11, <1>12, <1>13,
      <1>14, <1>15, <1>16, <1>17, Steps


\* A token stays in one file.
LEMMA OwnedStep == ASSUME Sorts, Issued, Fresh, Owned, [Next]_vars PROVE Owned'
<1> USE Lives, IdleCommand
<1>1. CASE UNCHANGED vars
  BY <1>1 DEF Sorts, Issued, Fresh, Owned, Pending, Command, Pair, vars
<1>2. CASE Tick
  BY <1>2 DEF Sorts, Issued, Fresh, Owned, Pending, Command, Pair, Tick
<1>3. CASE KillServer
  BY <1>3 DEF Sorts, Issued, Fresh, Owned, Pending, Command, Pair, KillServer, NoCmd
<1>4. ASSUME NEW p \in Proc, AuthFlow(p) PROVE Owned'
  BY <1>4 DEF Sorts, Issued, Fresh, Owned, Pending, Command, Pair, AuthFlow, Run, NoCmd, Torn
<1>5. ASSUME NEW p \in Proc, RefreshFlow(p) PROVE Owned'
  BY <1>5 DEF Sorts, Issued, Fresh, Owned, Pending, Command, Pair, RefreshFlow, Run, NoCmd, Torn
<1>6. ASSUME NEW p \in Proc, FillSession(p) PROVE Owned'
  BY <1>6 DEF Sorts, Issued, Fresh, Owned, Pending, Command, Pair, FillSession, End, NoCmd,
      At, Torn
<1>7. ASSUME NEW p \in Proc, NEW k \in Home, NEW r \in Role, UsersRole(p, k, r) PROVE Owned'
  BY <1>7 DEF Sorts, Issued, Fresh, Owned, Pending, Command, Pair, UsersRole, Run, NoCmd, Torn
<1>8. ASSUME NEW p \in Proc, Lose(p) PROVE Owned'
  BY <1>8 DEF Sorts, Issued, Fresh, Owned, Pending, Command, Pair, Lose, End, NoCmd
<1>9. ASSUME NEW p \in Proc, TruncateSession(p) PROVE Owned'
  BY <1>9 DEF Sorts, Issued, Fresh, Owned, Pending, Command, Pair, TruncateSession, At, Torn
<1>10. ASSUME NEW p \in Proc, InsertNew(p) PROVE Owned'
  BY <1>10 DEF Sorts, Issued, Fresh, Owned, Pending, Command, Pair, InsertNew, Goto, At, Row
<1>11. ASSUME NEW p \in Proc, FindSession(p), ~Locked PROVE Owned'
  <2>1. /\ UNCHANGED <<now, active, file, issued>>
        /\ \A q \in Proc \ {p} : cmd'[q] = cmd[q]
        /\ cmd[p].at = "find" /\ cmd'[p].at \in {"idle", "expired", "issue"}
        /\ cmd'[p].old \in {0, cmd[p].old}
        /\ cmd'[p].at = "expired" => /\ cmd'[p].old = cmd[p].old
                                    /\ \E s \in active : s.id = cmd[p].old /\ now >= s.exp
    BY <1>11, Finds
  <2> QED BY <2>1 DEF Sorts, Owned, Issued
<1>12. ASSUME NEW p \in Proc, DeleteExpired(p) PROVE Owned'
  BY <1>12 DEF Sorts, Issued, Fresh, Owned, Pending, Command, Pair, DeleteExpired, End,
      NoCmd, At, Found
<1>13. ASSUME NEW p \in Proc, IssuePair(p) PROVE Owned'
  BY <1>13 DEF Sorts, Issued, Fresh, Owned, Pending, Command, Pair, IssuePair, NextToken,
      RoleNow, At
<1>14. ASSUME NEW p \in Proc, Register(p) PROVE Owned'
  BY <1>14 DEF Sorts, Issued, Fresh, Owned, Pending, Command, Pair, Register, Goto, At, Row
<1>15. ASSUME NEW p \in Proc, DeleteOld(p) PROVE Owned'
  BY <1>15 DEF Sorts, Issued, Fresh, Owned, Pending, Command, Pair, DeleteOld, Goto, At,
      Closed, Found
<1>16. ASSUME NEW p \in Proc, OverlaySession(p) PROVE Owned'
  BY <1>16 DEF Sorts, Issued, Fresh, Owned, Pending, Command, Pair, OverlaySession, End,
      NoCmd, At, Torn
<1>17. ASSUME NEW p \in Proc, UpdateUserRole(p) PROVE Owned'
  BY <1>17 DEF Sorts, Issued, Fresh, Owned, Pending, Command, Pair, UpdateUserRole, End,
      NoCmd, At, Torn
<1> QED BY <1>1, <1>2, <1>3, <1>4, <1>5, <1>6, <1>7, <1>8, <1>9, <1>10, <1>11, <1>12, <1>13,
      <1>14, <1>15, <1>16, <1>17, Steps


\* A session found expired stays expired.
LEMMA ExpiringStep == ASSUME Sorts, Issued, Fresh, Registered, Expiring,
      [Next]_vars PROVE Expiring'
<1> USE Lives, IdleCommand
<1>1. CASE UNCHANGED vars
  BY <1>1 DEF Sorts, Issued, Fresh, Registered, Row, Expiring, Left, Pending, Command, Pair,
      vars
<1>2. CASE Tick
  BY <1>2 DEF Sorts, Issued, Fresh, Registered, Row, Expiring, Left, Pending, Command, Pair,
      Tick
<1>3. CASE KillServer
  BY <1>3 DEF Sorts, Issued, Fresh, Registered, Row, Expiring, Left, Pending, Command, Pair,
      KillServer, NoCmd
<1>4. ASSUME NEW p \in Proc, AuthFlow(p) PROVE Expiring'
  BY <1>4 DEF Sorts, Issued, Fresh, Registered, Row, Expiring, Left, Pending, Command, Pair,
      AuthFlow, Run, NoCmd, Torn
<1>5. ASSUME NEW p \in Proc, RefreshFlow(p) PROVE Expiring'
  BY <1>5 DEF Sorts, Issued, Fresh, Registered, Row, Expiring, Left, Pending, Command, Pair,
      RefreshFlow, Run, NoCmd, Torn
<1>6. ASSUME NEW p \in Proc, FillSession(p) PROVE Expiring'
  <2> DEFINE h == HomeOf[p]
  <2>1. /\ h \in Home /\ UNCHANGED <<now, active>> /\ cmd[p].at = "fill"
        /\ \A q \in Proc : cmd'[q].at = "expired" => cmd'[q] = cmd[q]
        /\ file'[h] = cmd[p].pair
        /\ \A g \in Home \ {h} : file'[g] = file[g]
    BY <1>6 DEF FillSession, At, End, NoCmd, Sorts
  <2>2. file'[h].refresh = cmd[p].pair.refresh /\ file'[h].exp = cmd[p].pair.exp
    BY <2>1 DEF Sorts, Command, Pair
  <2>3. ASSUME NEW s \in active, s.id = cmd[p].pair.refresh PROVE s.exp = cmd[p].pair.exp + Left
    <3>1. Row(cmd[p].pair) \in active
      BY <2>1 DEF Registered
    <3>2. s = Row(cmd[p].pair)
      BY <2>3, <3>1 DEF Issued, Row
    <3> QED BY <3>2 DEF Row
  <2>4. ASSUME NEW q \in Proc, cmd'[q].at = "expired", NEW s \in active, s.id = cmd'[q].old
        PROVE  now >= s.exp
    BY <2>1, <2>4 DEF Expiring
  <2>5. ASSUME NEW g \in Home, file'[g] # None, NEW s \in active, s.id = file'[g].refresh
        PROVE  s.exp = file'[g].exp + Left
    <3>1. CASE g = h
      BY <2>2, <2>3, <2>5, <3>1
    <3>2. CASE g # h
      BY <2>1, <2>5, <3>2 DEF Expiring
    <3> QED BY <3>1, <3>2
  <2> QED BY <2>1, <2>4, <2>5 DEF Expiring, Left
<1>7. ASSUME NEW p \in Proc, NEW k \in Home, NEW r \in Role, UsersRole(p, k, r) PROVE Expiring'
  BY <1>7 DEF Sorts, Issued, Fresh, Registered, Row, Expiring, Left, Pending, Command, Pair,
      UsersRole, Run, NoCmd, Torn
<1>8. ASSUME NEW p \in Proc, Lose(p) PROVE Expiring'
  BY <1>8 DEF Sorts, Issued, Fresh, Registered, Row, Expiring, Left, Pending, Command, Pair,
      Lose, End, NoCmd
<1>9. ASSUME NEW p \in Proc, TruncateSession(p) PROVE Expiring'
  BY <1>9 DEF Sorts, Issued, Fresh, Registered, Row, Expiring, Left, Pending, Command, Pair,
      TruncateSession, At, Torn
<1>10. ASSUME NEW p \in Proc, InsertNew(p) PROVE Expiring'
  BY <1>10 DEF Sorts, Issued, Fresh, Registered, Row, Expiring, Left, Pending, Command, Pair,
      InsertNew, Goto, At, Row
<1>11. ASSUME NEW p \in Proc, FindSession(p), ~Locked PROVE Expiring'
  <2>1. /\ UNCHANGED <<now, active, file, issued>>
        /\ \A q \in Proc \ {p} : cmd'[q] = cmd[q]
        /\ cmd[p].at = "find" /\ cmd'[p].at \in {"idle", "expired", "issue"}
        /\ cmd'[p].old \in {0, cmd[p].old}
        /\ cmd'[p].at = "expired" => /\ cmd'[p].old = cmd[p].old
                                    /\ \E s \in active : s.id = cmd[p].old /\ now >= s.exp
    BY <1>11, Finds
  <2> QED BY <2>1 DEF Sorts, Issued, Expiring, Left
<1>12. ASSUME NEW p \in Proc, DeleteExpired(p) PROVE Expiring'
  BY <1>12 DEF Sorts, Issued, Fresh, Registered, Row, Expiring, Left, Pending, Command, Pair,
      DeleteExpired, End, NoCmd, At, Found
<1>13. ASSUME NEW p \in Proc, IssuePair(p) PROVE Expiring'
  BY <1>13 DEF Sorts, Issued, Fresh, Registered, Row, Expiring, Left, Pending, Command, Pair,
      IssuePair, NextToken, RoleNow, At
<1>14. ASSUME NEW p \in Proc, Register(p) PROVE Expiring'
  BY <1>14 DEF Sorts, Issued, Fresh, Registered, Row, Expiring, Left, Pending, Command, Pair,
      Register, Goto, At, Row
<1>15. ASSUME NEW p \in Proc, DeleteOld(p) PROVE Expiring'
  BY <1>15 DEF Sorts, Issued, Fresh, Registered, Row, Expiring, Left, Pending, Command, Pair,
      DeleteOld, Goto, At, Closed, Found
<1>16. ASSUME NEW p \in Proc, OverlaySession(p) PROVE Expiring'
  BY <1>16 DEF Sorts, Issued, Fresh, Registered, Row, Expiring, Left, Pending, Command, Pair,
      OverlaySession, End, NoCmd, At, Torn
<1>17. ASSUME NEW p \in Proc, UpdateUserRole(p) PROVE Expiring'
  BY <1>17 DEF Sorts, Issued, Fresh, Registered, Row, Expiring, Left, Pending, Command, Pair,
      UpdateUserRole, End, NoCmd, At, Torn
<1> QED BY <1>1, <1>2, <1>3, <1>4, <1>5, <1>6, <1>7, <1>8, <1>9, <1>10, <1>11, <1>12, <1>13,
      <1>14, <1>15, <1>16, <1>17, Steps


\* Alive outlives a step that leaves the files and the sessions and ends no command
\* that is about to write, unless its home is hurt.
LEMMA AliveKept ==
  ASSUME Sorts, Alive, UNCHANGED file, hurt \subseteq hurt', now' = now, active \subseteq active',
         \A p \in Proc : Owing(p) => Owing(p)' \/ HomeOf[p] \in hurt'
  PROVE  Alive'
  BY Lives DEF Alive

\* The token in a file stays alive.
LEMMA AliveStep == ASSUME Sorts, Issued, Fresh, Registered, Owned, Expiring, Alive,
      [Next]_vars PROVE Alive'
<1> USE Lives, IdleCommand
<1>1. CASE UNCHANGED vars
  BY <1>1 DEF Sorts, Issued, Fresh, Registered, Row, Owned, Expiring, Alive, Left, Pending,
      Command, Pair, Owing, vars
<1>2. CASE Tick
  BY <1>2 DEF Sorts, Issued, Fresh, Registered, Row, Owned, Expiring, Alive, Left, Pending,
      Command, Pair, Owing, Tick
<1>3. CASE KillServer
  BY <1>3, AliveKept DEF Sorts, KillServer, At, Owing
<1>4. ASSUME NEW p \in Proc, AuthFlow(p) PROVE Alive'
  BY <1>4, AliveKept DEF Sorts, AuthFlow, At, Owing
<1>5. ASSUME NEW p \in Proc, RefreshFlow(p) PROVE Alive'
  BY <1>5, AliveKept DEF Sorts, RefreshFlow, At, Owing
<1>6. ASSUME NEW p \in Proc, FillSession(p) PROVE Alive'
  <2> DEFINE h == HomeOf[p]
  <2>1. /\ h \in Home /\ UNCHANGED <<now, active, hurt>> /\ cmd[p].at = "fill"
        /\ \A q \in Proc \ {p} : cmd'[q] = cmd[q]
        /\ file'[h] = cmd[p].pair
        /\ \A g \in Home \ {h} : file'[g] = file[g]
    BY <1>6 DEF FillSession, At, End, NoCmd, Sorts
  <2>2. file'[h].refresh = cmd[p].pair.refresh
    BY <2>1 DEF Sorts, Command, Pair
  <2>3. \E s \in active : s.id = file'[h].refresh
    BY <2>1, <2>2 DEF Registered, Row
  <2>4. ASSUME NEW g \in Home \ {h}, file'[g] # None, g \notin hurt'
        PROVE  \/ \E s \in active : s.id = file[g].refresh
               \/ now >= file[g].exp + Left
               \/ \E q \in Proc \ {p} : HomeOf[q] = g /\ Owing(q)
    BY <2>1, <2>4 DEF Alive
  <2>5. ASSUME NEW g \in Home, file'[g] # None, g \notin hurt'
        PROVE  \/ \E s \in active' : s.id = file'[g].refresh
               \/ now' >= file'[g].exp + Left
               \/ \E q \in Proc : HomeOf[q] = g /\ Owing(q)'
    <3>1. CASE g = h
      BY <2>1, <2>3, <3>1
    <3>2. CASE g # h
      BY <2>1, <2>4, <2>5, <3>2 DEF Owing
    <3> QED BY <3>1, <3>2
  <2> QED BY <2>5 DEF Alive, Left
<1>7. ASSUME NEW p \in Proc, NEW k \in Home, NEW r \in Role, UsersRole(p, k, r) PROVE Alive'
  BY <1>7, AliveKept DEF Sorts, UsersRole, At, Owing
<1>8. ASSUME NEW p \in Proc, Lose(p) PROVE Alive'
  <2>1. /\ UNCHANGED <<now, file, active>> /\ \A q \in Proc \ {p} : cmd'[q] = cmd[q]
        /\ hurt \subseteq hurt' /\ (Owing(p) => HomeOf[p] \in hurt')
    BY <1>8 DEF Sorts, Lose, End, At, Owing
  <2>2. \A q \in Proc : Owing(q) => Owing(q)' \/ HomeOf[q] \in hurt'
    BY <2>1 DEF Owing
  <2> QED BY <2>1, <2>2, AliveKept
<1>9. ASSUME NEW p \in Proc, TruncateSession(p) PROVE Alive'
  <2> DEFINE h == HomeOf[p]
  <2>1. /\ h \in Home /\ UNCHANGED <<now, active, hurt>> /\ cmd'[p].at = "fill"
        /\ \A q \in Proc \ {p} : cmd'[q] = cmd[q]
        /\ \A g \in Home \ {h} : file'[g] = file[g]
    BY <1>9 DEF TruncateSession, Sorts, Command
  <2>2. ASSUME NEW g \in Home, file'[g] # None, g \notin hurt'
        PROVE  \/ \E s \in active' : s.id = file'[g].refresh
               \/ now' >= file'[g].exp + Left
               \/ \E q \in Proc : HomeOf[q] = g /\ Owing(q)'
    <3>1. CASE g = h
      BY <2>1, <3>1 DEF Owing
    <3>2. CASE g # h
      <4>1. \/ \E s \in active : s.id = file[g].refresh
            \/ now >= file[g].exp + Left
            \/ \E q \in Proc \ {p} : HomeOf[q] = g /\ Owing(q)
        BY <2>1, <2>2, <3>2 DEF Alive
      <4> QED BY <2>1, <3>2, <4>1 DEF Owing
    <3> QED BY <3>1, <3>2
  <2> QED BY <2>2 DEF Alive
<1>10. ASSUME NEW p \in Proc, InsertNew(p) PROVE Alive'
  <2>1. /\ UNCHANGED <<now, file, hurt>> /\ active \subseteq active'
        /\ \A q \in Proc \ {p} : cmd'[q] = cmd[q]
        /\ cmd'[p].at = "write" /\ cmd'[p].op = "refresh"
    BY <1>10 DEF InsertNew, Goto, At, Sorts, Command
  <2>2. \A q \in Proc : Owing(q) => Owing(q)'
    BY <2>1 DEF Owing
  <2> QED BY <2>1, <2>2, AliveKept
<1>11. ASSUME NEW p \in Proc, FindSession(p), ~Locked PROVE Alive'
  <2>1. \A q \in Proc : Owing(q) => Owing(q)'
    BY <1>11, Finds DEF Owing
  <2> QED BY <1>11, <2>1, Finds, AliveKept
<1>12. ASSUME NEW p \in Proc, DeleteExpired(p) PROVE Alive'
  BY <1>12 DEF Sorts, Issued, Fresh, Registered, Row, Owned, Expiring, Alive, Owing, Left, Pending,
      Command, Pair, DeleteExpired, End, NoCmd, At, Found
<1>13. ASSUME NEW p \in Proc, IssuePair(p) PROVE Alive'
  <2>1. /\ UNCHANGED <<now, file, hurt>> /\ active \subseteq active'
        /\ \A q \in Proc \ {p} : cmd'[q] = cmd[q]
        /\ cmd[p].at = "issue"
    BY <1>13 DEF IssuePair, Goto, At, Sorts
  <2>2. \A q \in Proc : Owing(q) => Owing(q)'
    BY <2>1 DEF Owing
  <2> QED BY <2>1, <2>2, AliveKept
<1>14. ASSUME NEW p \in Proc, Register(p) PROVE Alive'
  <2>1. /\ UNCHANGED <<now, file, hurt>> /\ active \subseteq active'
        /\ \A q \in Proc \ {p} : cmd'[q] = cmd[q]
        /\ cmd[p].at = "register"
    BY <1>14 DEF Register, Goto, At, Sorts
  <2>2. \A q \in Proc : Owing(q) => Owing(q)'
    BY <2>1 DEF Owing
  <2> QED BY <2>1, <2>2, AliveKept
<1>15. ASSUME NEW p \in Proc, DeleteOld(p) PROVE Alive'
  <2> DEFINE t == cmd[p].old
  <2>1. /\ UNCHANGED <<now, file, hurt>> /\ cmd'[p].at = "insert"
        /\ \A q \in Proc \ {p} : cmd'[q] = cmd[q]
        /\ \A s \in active : s.id # t => s \in active'
        /\ cmd[p].at = "rotate"
    BY <1>15 DEF DeleteOld, At, Goto, Closed, Found, Sorts, Command
  <2>2. ASSUME NEW h \in Home, file[h] # None, h \notin hurt
        PROVE  \/ \E s \in active' : s.id = file[h].refresh
               \/ now >= file[h].exp + Left
               \/ \E q \in Proc : HomeOf[q] = h /\ Owing(q)'
    <3>1. CASE \E s \in active : s.id = file[h].refresh /\ s.id = t
      <4>1. file[h].refresh # 0 /\ file[h].refresh = t
        BY <3>1 DEF Issued
      <4>2. HomeOf[p] = h
        BY <2>2, <4>1 DEF Owned
      <4> QED BY <2>1, <4>2 DEF Owing
    <3>2. CASE \E s \in active : s.id = file[h].refresh /\ s.id # t
      BY <2>1, <3>2
    <3>3. CASE now >= file[h].exp + Left
      BY <3>3
    <3>4. CASE \E q \in Proc : HomeOf[q] = h /\ Owing(q)
      BY <2>1, <3>4 DEF Owing
    <3> QED BY <2>2, <3>1, <3>2, <3>3, <3>4 DEF Alive
  <2> QED BY <2>1, <2>2 DEF Alive, Left
<1>16. ASSUME NEW p \in Proc, OverlaySession(p) PROVE Alive'
  <2>1. /\ UNCHANGED <<now, active>> /\ hurt' = hurt \cup {HomeOf[p]}
        /\ \A q \in Proc \ {p} : cmd'[q] = cmd[q]
        /\ \A g \in Home \ {HomeOf[p]} : file'[g] = file[g]
    BY <1>16 DEF OverlaySession, End, Sorts
  <2> QED BY <2>1 DEF Alive, Owing
<1>17. ASSUME NEW p \in Proc, UpdateUserRole(p) PROVE Alive'
  BY <1>17, AliveKept DEF Sorts, UpdateUserRole, End, At, Owing
<1> QED BY <1>1, <1>2, <1>3, <1>4, <1>5, <1>6, <1>7, <1>8, <1>9, <1>10, <1>11, <1>12, <1>13,
      <1>14, <1>15, <1>16, <1>17, Steps

-----------------------------------------------------------------------------
(* Rotation.                                                                  *)

\* p has found the session of token t and not exchanged it yet.
Holds(p, t) == cmd[p].old = t /\ cmd[p].at \in {"issue", "rotate", "insert"}

\* Only one command holds a token, unless two found it, and once it has been exchanged
\* the session is gone and cannot be found again.
Rotation ==
    \A t \in TokenId :
        /\ given[t] # {} => t <= issued
        /\ \A p \in Proc : Pending(p) /\ cmd[p].pair.refresh = t => given[t] = {}
        /\ t \notin shared =>
            /\ \A p, q \in Proc : Holds(p, t) /\ Holds(q, t) => p = q
            /\ \A p \in Proc : Holds(p, t) => given[t] = {}
            /\ \A p \in Proc : Holds(p, t) /\ cmd[p].at = "insert" => \A s \in active : s.id # t
            /\ given[t] # {} => \A s \in active : s.id # t
            /\ \A x, y \in given[t] : x = y

\* Rotation outlives a step that exchanges no token and finds none.
LEMMA RotationKept ==
  ASSUME Rotation, UNCHANGED <<given, shared>>, issued \in Nat, issued' \in Nat, issued <= issued',
         \A q \in Proc : \A t \in TokenId : Holds(q, t)' => Holds(q, t),
         \A q \in Proc : \A t \in TokenId : Pending(q)' /\ cmd'[q].pair.refresh = t => given[t] = {},
         \A q \in Proc : cmd'[q].at = "insert" =>
             cmd[q].at = "insert" \/ \A s \in active' : s.id # cmd'[q].old,
         \A s \in active' : s \in active \/
             (s.id \in TokenId => given[s.id] = {} /\ \A q \in Proc : ~Holds(q, s.id))
  PROVE  Rotation'
<1> SUFFICES ASSUME NEW t \in TokenId
             PROVE  /\ given[t] # {} => t <= issued'
                    /\ t \notin shared =>
                         /\ \A p, q \in Proc : Holds(p, t) /\ Holds(q, t) => p = q
                         /\ \A p \in Proc : Holds(p, t) => given[t] = {}
                         /\ \A p \in Proc : Holds(p, t)' /\ cmd'[p].at = "insert" =>
                                \A s \in active' : s.id # t
                         /\ given[t] # {} => \A s \in active' : s.id # t
                         /\ \A x, y \in given[t] : x = y
  BY DEF Rotation
<1>1. given[t] # {} => t <= issued'
  BY DEF Rotation, TokenId
<1>2. ASSUME t \notin shared, NEW p \in Proc, Holds(p, t)', cmd'[p].at = "insert", NEW s \in active'
      PROVE  s.id # t
  <2>1. Holds(p, t) /\ cmd'[p].old = t
    BY <1>2 DEF Holds
  <2>2. CASE cmd[p].at = "insert"
    BY <1>2, <2>1, <2>2 DEF Rotation
  <2> QED BY <1>2, <2>1, <2>2
<1>3. ASSUME t \notin shared, given[t] # {}, NEW s \in active' PROVE s.id # t
  BY <1>3 DEF Rotation
<1> QED BY <1>1, <1>2, <1>3 DEF Rotation

\* So does it a step that takes commands no further towards an exchange.
LEMMA RotationQuiet ==
  ASSUME Sorts, Rotation, UNCHANGED <<given, shared, issued>>, active' \subseteq active,
         \A q \in Proc : \/ cmd'[q] = cmd[q]
                         \/ cmd'[q].at # "issue" /\ ~Pending(q)'
                         \/ cmd'[q].at = "issue" /\ cmd'[q].old = 0
  PROVE  Rotation'
<1>1. \A q \in Proc : \A t \in TokenId : Holds(q, t)' => Holds(q, t)
  BY DEF Holds, Pending, TokenId
<1>2. \A q \in Proc : Pending(q)' => Pending(q) /\ cmd'[q] = cmd[q]
  BY DEF Pending
<1>3. \A q \in Proc : \A t \in TokenId : Pending(q)' /\ cmd'[q].pair.refresh = t => given[t] = {}
  BY <1>2 DEF Rotation
<1>4. \A q \in Proc : cmd'[q].at = "insert" => cmd[q].at = "insert"
  BY <1>2 DEF Pending
<1>5. issued \in Nat /\ issued' \in Nat /\ issued <= issued'
  BY DEF Sorts
<1>6. \A s \in active' : s \in active
  OBVIOUS
<1> QED BY <1>1, <1>3, <1>4, <1>5, <1>6, RotationKept

\* A token that was exchanged is gone, and was exchanged for one pair.
LEMMA RotationStep == ASSUME Sorts, Issued, Fresh, Rotation, [Next]_vars PROVE Rotation'
<1> USE Lives, IdleCommand
<1>1. CASE UNCHANGED vars
  <2>1. /\ UNCHANGED <<given, shared, issued>> /\ active' \subseteq active
        /\ \A q \in Proc : \/ cmd'[q] = cmd[q]
                           \/ cmd'[q].at # "issue" /\ ~Pending(q)'
                           \/ cmd'[q].at = "issue" /\ cmd'[q].old = 0
    BY <1>1 DEF Sorts, Command, Pending, vars
  <2> QED BY <2>1, RotationQuiet DEF Pending
<1>2. CASE Tick
  <2>1. /\ UNCHANGED <<given, shared, issued>> /\ active' \subseteq active
        /\ \A q \in Proc : \/ cmd'[q] = cmd[q]
                           \/ cmd'[q].at # "issue" /\ ~Pending(q)'
                           \/ cmd'[q].at = "issue" /\ cmd'[q].old = 0
    BY <1>2 DEF Sorts, Command, Pending, Tick
  <2> QED BY <2>1, RotationQuiet DEF Pending
<1>3. CASE KillServer
  <2>1. /\ UNCHANGED <<given, shared, issued>> /\ active' \subseteq active
        /\ \A q \in Proc : \/ cmd'[q] = cmd[q]
                           \/ cmd'[q].at # "issue" /\ ~Pending(q)'
                           \/ cmd'[q].at = "issue" /\ cmd'[q].old = 0
    BY <1>3 DEF Sorts, Command, Pending, KillServer, NoCmd
  <2> QED BY <2>1, RotationQuiet DEF Pending
<1>4. ASSUME NEW p \in Proc, AuthFlow(p) PROVE Rotation'
  <2>1. /\ UNCHANGED <<given, shared, issued>> /\ active' \subseteq active
        /\ \A q \in Proc : \/ cmd'[q] = cmd[q]
                           \/ cmd'[q].at # "issue" /\ ~Pending(q)'
                           \/ cmd'[q].at = "issue" /\ cmd'[q].old = 0
    BY <1>4 DEF Sorts, Command, Pending, AuthFlow, Run, NoCmd, Torn
  <2> QED BY <2>1, RotationQuiet DEF Pending
<1>5. ASSUME NEW p \in Proc, RefreshFlow(p) PROVE Rotation'
  <2>1. /\ UNCHANGED <<given, shared, issued>> /\ active' \subseteq active
        /\ \A q \in Proc : \/ cmd'[q] = cmd[q]
                           \/ cmd'[q].at # "issue" /\ ~Pending(q)'
                           \/ cmd'[q].at = "issue" /\ cmd'[q].old = 0
    BY <1>5 DEF Sorts, Command, Pending, RefreshFlow, Run, NoCmd, Torn
  <2> QED BY <2>1, RotationQuiet DEF Pending
<1>6. ASSUME NEW p \in Proc, FillSession(p) PROVE Rotation'
  <2>1. /\ UNCHANGED <<given, shared, issued>> /\ active' \subseteq active
        /\ \A q \in Proc : \/ cmd'[q] = cmd[q]
                           \/ cmd'[q].at # "issue" /\ ~Pending(q)'
                           \/ cmd'[q].at = "issue" /\ cmd'[q].old = 0
    BY <1>6 DEF Sorts, Command, Pending, FillSession, End, NoCmd, At, Torn
  <2> QED BY <2>1, RotationQuiet DEF Pending
<1>7. ASSUME NEW p \in Proc, NEW k \in Home, NEW r \in Role, UsersRole(p, k, r) PROVE Rotation'
  <2>1. /\ UNCHANGED <<given, shared, issued>> /\ active' \subseteq active
        /\ \A q \in Proc : \/ cmd'[q] = cmd[q]
                           \/ cmd'[q].at # "issue" /\ ~Pending(q)'
                           \/ cmd'[q].at = "issue" /\ cmd'[q].old = 0
    BY <1>7 DEF Sorts, Command, Pending, UsersRole, Run, NoCmd, Torn
  <2> QED BY <2>1, RotationQuiet DEF Pending
<1>8. ASSUME NEW p \in Proc, Lose(p) PROVE Rotation'
  <2>1. /\ UNCHANGED <<given, shared, issued>> /\ active' \subseteq active
        /\ \A q \in Proc : \/ cmd'[q] = cmd[q]
                           \/ cmd'[q].at # "issue" /\ ~Pending(q)'
                           \/ cmd'[q].at = "issue" /\ cmd'[q].old = 0
    BY <1>8 DEF Sorts, Command, Pending, Lose, End, NoCmd
  <2> QED BY <2>1, RotationQuiet DEF Pending
<1>9. ASSUME NEW p \in Proc, TruncateSession(p) PROVE Rotation'
  <2>1. /\ UNCHANGED <<active, given, shared, issued>> /\ issued \in Nat
        /\ cmd[p].at = "write" /\ cmd'[p].at = "fill"
        /\ cmd'[p].pair.refresh = cmd[p].pair.refresh
        /\ \A q \in Proc \ {p} : cmd'[q] = cmd[q]
    BY <1>9 DEF TruncateSession, At, Sorts, Command, Pair
  <2>2. \A q \in Proc : \A t \in TokenId : Holds(q, t)' => Holds(q, t)
    BY <2>1 DEF Holds
  <2>3. \A q \in Proc : \A t \in TokenId : Pending(q)' /\ cmd'[q].pair.refresh = t => given[t] = {}
    BY <2>1 DEF Rotation, Pending
  <2> QED BY <2>1, <2>2, <2>3, RotationKept
<1>10. ASSUME NEW p \in Proc, InsertNew(p) PROVE Rotation'
  <2> DEFINE old == cmd[p].old
             new == cmd[p].pair.refresh
  <2>1. /\ UNCHANGED <<issued, shared>> /\ issued \in Nat /\ active' = active \cup {Row(cmd[p].pair)}
        /\ cmd[p].at = "insert" /\ cmd'[p].at = "write"
        /\ cmd'[p].old = old /\ cmd'[p].pair = cmd[p].pair
        /\ \A q \in Proc \ {p} : cmd'[q] = cmd[q]
        /\ given' = [given EXCEPT ![old] = @ \cup {new}] /\ new # old
    BY <1>10 DEF InsertNew, At, Goto, Sorts, Command, Fresh, Pending
  <2>2. \A q \in Proc : \A t \in TokenId : Holds(q, t)' => Holds(q, t) /\ q # p
    BY <2>1 DEF Holds
  <2>3. ASSUME NEW t \in TokenId PROVE given'[t] = IF t = old THEN given[t] \cup {new} ELSE given[t]
    BY <2>1 DEF Sorts
  <2>4. ASSUME NEW q \in Proc, Pending(q)', cmd'[q].pair.refresh \in TokenId
        PROVE  given'[cmd'[q].pair.refresh] = {}
    <3>1. Pending(q) /\ cmd'[q].pair = cmd[q].pair
      BY <2>1, <2>4 DEF Pending
    <3>2. cmd'[q].pair.refresh # old
      BY <3>1 DEF Fresh
    <3> QED BY <2>3, <2>4, <3>1, <3>2 DEF Rotation
  <2>5. ASSUME NEW t \in TokenId, t \notin shared, NEW s \in active', s.id = t, given'[t] # {}
        PROVE  FALSE
    <3>1. CASE s \in active
      <4>1. given[t] = {}
        BY <2>5, <3>1 DEF Rotation
      <4>2. t = old
        BY <2>3, <2>5, <4>1
      <4> QED BY <2>1, <2>5, <3>1, <4>2 DEF Rotation, Holds
    <3>2. CASE s = Row(cmd[p].pair)
      <4>1. t = new /\ Pending(p)
        BY <2>1, <2>5, <3>2 DEF Row, Pending
      <4> QED BY <2>1, <2>3, <2>5, <4>1 DEF Rotation
    <3> QED BY <2>1, <2>5, <3>1, <3>2
  <2>6. ASSUME NEW t \in TokenId, t \notin shared, NEW q \in Proc, Holds(q, t)'
        PROVE  /\ given'[t] = {} /\ \A r \in Proc : Holds(r, t)' => r = q
               /\ cmd'[q].at = "insert" => \A s \in active' : s.id # t
    <3>1. Holds(q, t) /\ q # p /\ given[t] = {} /\ \A r \in Proc : Holds(r, t) => r = q
      BY <2>2, <2>6 DEF Rotation
    <3>2. t # old
      BY <2>1, <3>1 DEF Holds
    <3>3. ASSUME cmd'[q].at = "insert", NEW s \in active' PROVE s.id # t
      <4>1. cmd[q].at = "insert" /\ cmd[q].old = t
        BY <2>1, <3>1, <3>3 DEF Holds
      <4>2. CASE s \in active
        BY <2>6, <3>1, <4>1, <4>2 DEF Rotation
      <4>3. CASE s = Row(cmd[p].pair)
        BY <2>1, <4>1, <4>3 DEF Row, Fresh, Pending
      <4> QED BY <2>1, <4>2, <4>3
    <3> QED BY <2>2, <2>3, <3>1, <3>2, <3>3
  <2>7. ASSUME NEW t \in TokenId, t \notin shared, NEW x \in given'[t], NEW y \in given'[t] PROVE x = y
    <3>1. CASE t = old
      <4>1. Holds(p, t)
        BY <2>1, <3>1 DEF Holds
      <4>2. given[t] = {}
        BY <2>7, <4>1 DEF Rotation
      <4>3. given'[t] = {new}
        BY <2>3, <3>1, <4>2
      <4> QED BY <2>7, <4>3
    <3>2. CASE t # old
      BY <2>3, <2>7, <3>2 DEF Rotation
    <3> QED BY <3>1, <3>2
  <2>8. ASSUME NEW t \in TokenId, given'[t] # {} PROVE t <= issued
    <3>1. CASE t = old
      BY <3>1 DEF Issued
    <3>2. CASE t # old
      BY <2>3, <2>8, <3>2 DEF Rotation
    <3> QED BY <3>1, <3>2
  <2> SUFFICES ASSUME NEW t \in TokenId
               PROVE  /\ given'[t] # {} => t <= issued'
                      /\ \A q \in Proc : Pending(q)' /\ cmd'[q].pair.refresh = t => given'[t] = {}
                      /\ t \notin shared =>
                           /\ \A q, r \in Proc : Holds(q, t)' /\ Holds(r, t)' => q = r
                           /\ \A q \in Proc : Holds(q, t)' => given'[t] = {}
                           /\ \A q \in Proc : Holds(q, t)' /\ cmd'[q].at = "insert" =>
                                  \A s \in active' : s.id # t
                           /\ given'[t] # {} => \A s \in active' : s.id # t
                           /\ \A x, y \in given'[t] : x = y
    BY <2>1 DEF Rotation
  <2>9. given'[t] # {} => t <= issued'
    BY <2>1, <2>8
  <2>10. \A q \in Proc : Pending(q)' /\ cmd'[q].pair.refresh = t => given'[t] = {}
    BY <2>4
  <2>11. t \notin shared => /\ \A q, r \in Proc : Holds(q, t)' /\ Holds(r, t)' => q = r
                            /\ \A q \in Proc : Holds(q, t)' => given'[t] = {}
                            /\ \A q \in Proc : Holds(q, t)' /\ cmd'[q].at = "insert" =>
                                   \A s \in active' : s.id # t
    BY <2>6
  <2>12. t \notin shared => /\ given'[t] # {} => \A s \in active' : s.id # t
                            /\ \A x, y \in given'[t] : x = y
    BY <2>5, <2>7
  <2> QED BY <2>9, <2>10, <2>11, <2>12
<1>11. ASSUME NEW p \in Proc, FindSession(p), ~Locked PROVE Rotation'
  <2>1. /\ UNCHANGED <<active, issued, given>> /\ \A q \in Proc \ {p} : cmd'[q] = cmd[q]
        /\ cmd[p].at = "find" /\ cmd'[p].at \in {"idle", "expired", "issue"}
        /\ cmd'[p].at = "issue" => \E s \in active : s.id = cmd[p].old
        /\ cmd'[p].old \in {0, cmd[p].old}
    BY <1>11, Finds
  <2>2. shared \subseteq shared'
        /\ \A q \in Proc \ {p} : Holds(q, cmd[p].old) => cmd[p].old \in shared'
    BY <1>11 DEF FindSession, Holds, Locked, At
  <2>3. ASSUME NEW t \in TokenId, t \notin shared', Holds(p, t)'
        PROVE  given[t] = {} /\ \A q \in Proc \ {p} : ~Holds(q, t)
    <3>1. t = cmd[p].old /\ \E s \in active : s.id = t
      BY <2>1, <2>3 DEF Holds, TokenId
    <3> QED BY <2>2, <2>3, <3>1 DEF Rotation
  <2>4. \A q \in Proc \ {p} : \A t \in TokenId : Holds(q, t)' <=> Holds(q, t)
    BY <2>1 DEF Holds
  <2>5. \A q \in Proc : Pending(q)' => Pending(q) /\ cmd'[q] = cmd[q]
    BY <2>1 DEF Pending
  <2> QED BY <2>1, <2>2, <2>3, <2>4, <2>5 DEF Rotation
<1>12. ASSUME NEW p \in Proc, DeleteExpired(p) PROVE Rotation'
  <2>1. /\ UNCHANGED <<given, shared, issued>> /\ active' \subseteq active
        /\ \A q \in Proc : \/ cmd'[q] = cmd[q]
                           \/ cmd'[q].at # "issue" /\ ~Pending(q)'
                           \/ cmd'[q].at = "issue" /\ cmd'[q].old = 0
    BY <1>12 DEF Sorts, Command, Pending, DeleteExpired, End, NoCmd, At, Found
  <2> QED BY <2>1, RotationQuiet DEF Pending
<1>13. ASSUME NEW p \in Proc, IssuePair(p) PROVE Rotation'
  <2>1. /\ UNCHANGED <<active, given, shared>> /\ issued' = issued + 1 /\ issued \in Nat
        /\ cmd[p].at = "issue" /\ cmd'[p].at \in {"register", "rotate"}
        /\ cmd'[p].old = cmd[p].old /\ cmd'[p].pair.refresh = issued + 1
        /\ \A q \in Proc \ {p} : cmd'[q] = cmd[q]
    BY <1>13 DEF IssuePair, At, NextToken, Sorts, Command
  <2>2. \A q \in Proc : \A t \in TokenId : Holds(q, t)' => Holds(q, t)
    BY <2>1 DEF Holds
  <2>3. \A t \in TokenId : t = issued + 1 => given[t] = {}
    BY <2>1 DEF Rotation, TokenId
  <2>4. \A q \in Proc : \A t \in TokenId : Pending(q)' /\ cmd'[q].pair.refresh = t => given[t] = {}
    BY <2>1, <2>3 DEF Rotation, Pending
  <2> QED BY <2>1, <2>2, <2>4, RotationKept
<1>14. ASSUME NEW p \in Proc, Register(p) PROVE Rotation'
  <2>1. /\ UNCHANGED <<issued, given, shared>> /\ issued \in Nat /\ active' = active \cup {Row(cmd[p].pair)}
        /\ cmd[p].at = "register" /\ cmd'[p].at = "write"
        /\ cmd'[p].old = cmd[p].old /\ cmd'[p].pair = cmd[p].pair
        /\ \A q \in Proc \ {p} : cmd'[q] = cmd[q]
    BY <1>14 DEF Register, At, Goto, Sorts, Command
  <2>2. \A q \in Proc : \A t \in TokenId : Holds(q, t)' => Holds(q, t)
    BY <2>1 DEF Holds
  <2>3. \A q \in Proc : \A t \in TokenId : Pending(q)' /\ cmd'[q].pair.refresh = t => given[t] = {}
    BY <2>1 DEF Rotation, Pending
  <2>4. ASSUME NEW s \in active', s \notin active, s.id \in TokenId
        PROVE  given[s.id] = {} /\ \A q \in Proc : ~Holds(q, s.id)
    <3>1. s.id = cmd[p].pair.refresh /\ Pending(p)
      BY <2>1, <2>4 DEF Row, Pending
    <3> QED BY <2>4, <3>1 DEF Fresh, Rotation, Holds
  <2> QED BY <2>1, <2>2, <2>3, <2>4, RotationKept
<1>15. ASSUME NEW p \in Proc, DeleteOld(p) PROVE Rotation'
  <2>1. /\ UNCHANGED <<issued, given, shared>> /\ issued \in Nat
        /\ active' = {s \in active : s.id # cmd[p].old}
        /\ cmd[p].at = "rotate" /\ cmd'[p].at = "insert"
        /\ cmd'[p].old = cmd[p].old /\ cmd'[p].pair = cmd[p].pair
        /\ \A q \in Proc \ {p} : cmd'[q] = cmd[q]
    BY <1>15 DEF DeleteOld, Closed, Found, At, Goto, Sorts, Command
  <2>2. \A q \in Proc : \A t \in TokenId : Holds(q, t)' => Holds(q, t)
    BY <2>1 DEF Holds
  <2>3. \A q \in Proc : \A t \in TokenId : Pending(q)' /\ cmd'[q].pair.refresh = t => given[t] = {}
    BY <2>1 DEF Rotation, Pending
  <2> QED BY <2>1, <2>2, <2>3, RotationKept
<1>16. ASSUME NEW p \in Proc, OverlaySession(p) PROVE Rotation'
  <2>1. /\ UNCHANGED <<given, shared, issued>> /\ active' \subseteq active
        /\ \A q \in Proc : \/ cmd'[q] = cmd[q]
                           \/ cmd'[q].at # "issue" /\ ~Pending(q)'
                           \/ cmd'[q].at = "issue" /\ cmd'[q].old = 0
    BY <1>16 DEF Sorts, Command, Pending, OverlaySession, End, NoCmd, At, Torn
  <2> QED BY <2>1, RotationQuiet DEF Pending
<1>17. ASSUME NEW p \in Proc, UpdateUserRole(p) PROVE Rotation'
  <2>1. /\ UNCHANGED <<given, shared, issued>> /\ active' \subseteq active
        /\ \A q \in Proc : \/ cmd'[q] = cmd[q]
                           \/ cmd'[q].at # "issue" /\ ~Pending(q)'
                           \/ cmd'[q].at = "issue" /\ cmd'[q].old = 0
    BY <1>17 DEF Sorts, Command, Pending, UpdateUserRole, End, NoCmd, At, Torn
  <2> QED BY <2>1, RotationQuiet DEF Pending
<1> QED BY <1>1, <1>2, <1>3, <1>4, <1>5, <1>6, <1>7, <1>8, <1>9, <1>10, <1>11, <1>12, <1>13,
      <1>14, <1>15, <1>16, <1>17, Steps


-----------------------------------------------------------------------------
(* The theorems.                                                              *)

SessionInv == Sorts /\ Issued /\ Fresh /\ Registered /\ Owned /\ Expiring /\ Alive /\ Rotation

\* All parts of the invariant together.
LEMMA SessionInvariant == Spec => []SessionInv
<1>1. Init => SessionInv
  <2> SUFFICES ASSUME Init PROVE SessionInv
    OBVIOUS
  <2>1. Sorts
    BY Lives, IdleCommand DEF Init, Sorts, Pending, NoCmd, Role
  <2>2. Issued /\ Fresh /\ Registered
    BY Lives DEF Init, Issued, Fresh, Registered, Pending, NoCmd
  <2>3. Owned /\ Expiring /\ Alive
    BY DEF Init, Owned, Expiring, Alive, NoCmd
  <2>4. Rotation
    BY DEF Init, Rotation, Holds, Pending, NoCmd
  <2> QED BY <2>1, <2>2, <2>3, <2>4 DEF SessionInv
<1>2. SessionInv /\ [Next]_vars => SessionInv'
  BY SortsStep, IssuedStep, FreshStep, RegisteredStep, OwnedStep, ExpiringStep, AliveStep,
     RotationStep DEF SessionInv
<1> QED BY <1>1, <1>2, PTL DEF Spec

\* Every variable keeps its type, and no two sessions in the table have one token.
THEOREM SessionTypeCorrect == Spec => []TypeOK
<1>1. SessionInv => TypeOK
  BY Lives DEF SessionInv, Sorts, Issued, TypeOK, Command, Pair, Torn
<1> QED BY <1>1, SessionInvariant, PTL

\* The refresh token in session.json is one the server knows, whatever commands of
\* the home ran beside each other, unless one of them was cut short.
THEOREM SessionsStayAlive == Spec => []SessionAlive
<1>1. SessionInv => SessionAlive
  BY Lives DEF SessionInv, Sorts, Alive, Owing, SessionAlive, Left, Found, At, Pair
<1> QED BY <1>1, SessionInvariant, PTL

\* A refresh token is exchanged once, unless two requests had found it.
THEOREM TokensRotateOnce == Spec => []RotatesOnce
<1>1. SessionInv => RotatesOnce
  <2> SUFFICES ASSUME SessionInv, NEW t \in TokenId, t \notin shared PROVE Cardinality(given[t]) <= 1
    BY DEF RotatesOnce
  <2>1. CASE given[t] = {}
    <3>1. Cardinality({}) = 0
      BY FS_EmptySet, Zenon
    <3> QED BY <2>1, <3>1
  <2>2. CASE given[t] # {}
    <3>1. PICK x : x \in given[t]
      BY <2>2
    <3>2. \A y \in given[t] : y = x
      BY <3>1 DEF SessionInv, Rotation
    <3>3. given[t] = {x}
      BY <3>1, <3>2
    <3>4. Cardinality({x}) = 1
      BY FS_Singleton, Zenon
    <3> QED BY <3>3, <3>4
  <2> QED BY <2>1, <2>2
<1> QED BY <1>1, SessionInvariant, PTL

=============================================================================
