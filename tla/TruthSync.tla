------------------------------- MODULE TruthSync -------------------------------
(***************************************************************************)
(* Replication of the row tables truth_events, statements and impact        *)
(* between nodes: the local operations of core/src/storage.rs, the          *)
(* snapshots that Node::start and truthctl send, and reconcile of           *)
(* src/p2p/sync.rs, which applies one snapshot row by row.                  *)
(*                                                                          *)
(* SQLite runs in autocommit mode, so every statement of reconcile commits  *)
(* on its own.  The server process does its work on a node under one mutex  *)
(* (the DbPool); truthctl is a second process on the same database file and *)
(* takes no part in that mutex.                                             *)
(***************************************************************************)
EXTENDS Naturals, FiniteSets

CONSTANTS
    Node,          \* the nodes
    CliNode,       \* the nodes whose database truthctl opens as well
    MaxEvent,      \* bound on the ids of truth_events
    MaxStatement,  \* bound on the ids of statements
    ImpactId,      \* the uuids impacts may get
    MaxTime,       \* bound on every timestamp and on the clocks
    Skew,          \* bound on the difference between two nodes' clocks
    Verdict,       \* the values /detect may set, a subset of {"true", "false"}
    Score,         \* truth scores of statements
    MaxInFlight,   \* bound on the snapshots under way from a node to a node
    MaxFaults,     \* bound on lost requests and killed processes
    DistinctStamps,\* TRUE: nobody stamps two versions of one row alike
    NoRow          \* the row does not exist

ASSUME ConstAssump ==
    /\ MaxEvent \in Nat /\ MaxStatement \in Nat /\ MaxTime \in Nat
    /\ Skew \in Nat /\ Skew < MaxTime /\ MaxInFlight \in Nat /\ MaxFaults \in Nat
    /\ CliNode \subseteq Node
    /\ Verdict \subseteq {"true", "false"}
    /\ DistinctStamps \in BOOLEAN

Process     == {"server", "cli"}
EventId     == 1..MaxEvent
StatementId == 1..MaxStatement
Time        == 1..MaxTime

\* A row of truth_events.  by stands for what was written (description, context,
\* vector, code): two nodes never write the same event.
EventRow == [by : Node, ts : Time, detected : Verdict \cup {"null"}]

\* A row of statements; ts is updated_at, ev the foreign key event_id.
StatementRow == [by : Node, ev : EventId, ts : Time, score : Score]

ASSUME NoRowAssump ==
    NoRow \notin EventRow \cup StatementRow \cup EventId \cup StatementId

EventTable     == [EventId -> EventRow \cup {NoRow}]
StatementTable == [StatementId -> StatementRow \cup {NoRow}]
ImpactTable    == [ImpactId -> EventId \cup {NoRow}]   \* an impact is its event_id

\* The part of SyncData that carries rows.
Batch == [truth_events : EventTable, statements : StatementTable, impact : ImpactTable]

\* What a row of truth_events says, without the verdict on it.
VersionOf(row) == IF row = NoRow THEN NoRow ELSE [by |-> row.by, ts |-> row.ts]

\* A record of sync_log; the version of an event tells apart the records of one id.
LogEntry(table, k, row) ==
    <<table, k, IF table = "truth_events" THEN VersionOf(row) ELSE NoRow>>

\* The rows of a table that exist.
Present(table) == {k \in DOMAIN table : table[k] # NoRow}

-----------------------------------------------------------------------------
(* The job of a process on a database: it reads the tables for a snapshot, or *)
(* runs one call of reconcile.                                                *)

Table == {"truth_events", "statements", "impact"}   \* in the order of the loops

\* step: what the process does next.  In a reconcile, todo: the rows of the batch
\* not yet taken; table, key, seen: the row being applied and the local row that
\* was read for it.  In a "gather", key: the node that wants the snapshot, seen:
\* the table truth_events as it was read.
IdleJob == [step |-> "idle", batch |-> NoRow, todo |-> NoRow,
            table |-> NoRow, key |-> NoRow, seen |-> NoRow]

\* Slip: the loops run over the ids, not over the rows.
StartJobOverIds(batch) == [IdleJob EXCEPT !.step = "read", !.batch = batch,
                           !.todo = [t \in Table |-> DOMAIN batch[t]]]

StartJob(batch) == [IdleJob EXCEPT !.step = "read", !.batch = batch,
                    !.todo = [t \in Table |-> Present(batch[t])]]

VARIABLES
    clock,       \* clock[n]: the node's idea of the time, in seconds
    events,      \* events[n]: table truth_events
    statements,  \* statements[n]: table statements
    impacts,     \* impacts[n]: table impact
    minted,      \* history: every <<id, version>> that AddEvent created
    synclog,     \* synclog[n]: table sync_log, the audit record of applied rows
    cutShort,    \* cutShort[n]: a foreign key ended a reconcile in its row loops
    net,         \* net[n][m]: snapshots under way from n to m
    draft,       \* draft[n]: a snapshot truthctl on n has read half of
    job,         \* job[n][p]: what process p does on n's database
    faults       \* requests lost and processes killed so far

tables == <<events, statements, impacts>>
logs   == <<synclog, cutShort>>
vars   == <<clock, tables, minted, logs, net, draft, job, faults>>

Init ==
    /\ clock \in [Node -> 1..(1 + Skew)] /\ \E n \in Node : clock[n] = 1
    /\ events = [n \in Node |-> [k \in EventId |-> NoRow]]
    /\ statements = [n \in Node |-> [k \in StatementId |-> NoRow]]
    /\ impacts = [n \in Node |-> [i \in ImpactId |-> NoRow]]
    /\ minted = {}
    /\ synclog = [n \in Node |-> {}]
    /\ cutShort = [n \in Node |-> FALSE]
    /\ net = [n \in Node |-> [m \in Node |-> {}]]
    /\ draft = [n \in Node |-> NoRow]
    /\ job = [n \in Node |-> [p \in Process |-> IdleJob]]
    /\ faults = 0

-----------------------------------------------------------------------------
(* Time and local operations.                                                 *)

Tick ==
    /\ \A n \in Node : clock[n] < MaxTime
    /\ clock' = [n \in Node |-> clock[n] + 1]
    /\ UNCHANGED <<tables, minted, logs, net, draft, job, faults>>

\* Slip: a connection per handler, and no mutex.
UnlockedAlways(n) == TRUE

\* web::block(|| pool.blocking_lock()): a handler of the server waits for the
\* mutex that a running reconcile of the server holds; truthctl and the app's
\* command line do not.
Unlocked(n) == job[n]["server"].step = "idle" \/ n \in CliNode

\* AUTOINCREMENT: the next id is one more than the largest id the table has had,
\* and no row is ever deleted.
NextId(table, k) ==
    /\ \A j \in Present(table) : j < k
    /\ k - 1 \in Present(table) \cup {0}

\* POST /events stamps the event with the clock, `add-event --start` with
\* anything.
AddEvent(n, k, ts) ==
    LET row == [by |-> n, ts |-> ts, detected |-> "null"] IN
    /\ Unlocked(n)
    /\ NextId(events[n], k)
    /\ DistinctStamps => \A v \in minted : v[1] = k => v[2].ts # ts
    /\ events' = [events EXCEPT ![n][k] = row]
    /\ minted' = minted \cup {<<k, [by |-> n, ts |-> ts]>>}
    /\ UNCHANGED <<clock, statements, impacts, logs, net, draft, job, faults>>

\* POST /detect, `detect`: the timestamp_start of the row stays as it is.
SetEventDetected(n, k, verdict) ==
    /\ Unlocked(n)
    /\ events[n][k] # NoRow
    /\ events' = [events EXCEPT ![n][k].detected = verdict]
    /\ UNCHANGED <<clock, statements, impacts, minted, logs, net, draft, job, faults>>

\* The foreign key on event_id: SQLite refuses an event that does not exist.
AddStatement(n, k, ev, score) ==
    LET row == [by |-> n, ev |-> ev, ts |-> clock[n], score |-> score] IN
    /\ Unlocked(n)
    /\ NextId(statements[n], k)
    /\ events[n][ev] # NoRow
    /\ DistinctStamps =>
         \A m \in Node : statements[m][k] # NoRow => statements[m][k].ts # clock[n]
    /\ statements' = [statements EXCEPT ![n][k] = row]
    /\ UNCHANGED <<clock, events, impacts, minted, logs, net, draft, job, faults>>

\* update_statement_score sets updated_at to the clock, later or not.
UpdateStatementScore(n, k, score) ==
    /\ Unlocked(n)
    /\ statements[n][k] # NoRow
    /\ DistinctStamps =>
         \A m \in Node : statements[m][k] # NoRow => statements[m][k].ts # clock[n]
    /\ statements' = [statements EXCEPT ![n][k] = [@ EXCEPT !.score = score, !.ts = clock[n]]]
    /\ UNCHANGED <<clock, events, impacts, minted, logs, net, draft, job, faults>>

\* The id is a fresh uuid: no node has it.
AddImpact(n, i, ev) ==
    /\ Unlocked(n)
    /\ \A m \in Node : impacts[m][i] = NoRow
    /\ events[n][ev] # NoRow
    /\ impacts' = [impacts EXCEPT ![n][i] = ev]
    /\ UNCHANGED <<clock, events, statements, minted, logs, net, draft, job, faults>>

-----------------------------------------------------------------------------
(* Snapshots and their transport.                                             *)

\* A snapshot takes one SELECT per table, truth_events first; nothing relates
\* statements and impact to each other, and one step reads both.
Snapshot(n, p) == [truth_events |-> job[n][p].seen, statements |-> statements[n],
                   impact |-> impacts[n]]

\* Process p of n begins to read the tables for node m: Node::start, every 30
\* seconds in a task per peer, and GET /get_data under the mutex; `truthctl sync`
\* without it.
Gather(n, p, m) ==
    /\ n # m
    /\ p = "cli" => n \in CliNode
    /\ job[n][p].step = "idle"
    /\ Cardinality(net[n][m]) < MaxInFlight
    /\ job' = [job EXCEPT ![n][p] = [IdleJob EXCEPT !.step = "gather", !.key = m,
                                                   !.seen = events[n]]]
    /\ UNCHANGED <<clock, tables, minted, logs, net, draft, faults>>

\* The snapshot is posted to the /sync of m.  The reader has given back the mutex,
\* so snapshots of several rounds can be under way.
Push(n, p, m) ==
    /\ job[n][p].step = "gather" /\ job[n][p].key = m
    /\ net' = [net EXCEPT ![n][m] = @ \cup {Snapshot(n, p)}]
    /\ job' = [job EXCEPT ![n][p] = IdleJob]
    /\ UNCHANGED <<clock, tables, minted, logs, draft, faults>>

\* The request does not arrive.
Lose(n, m, batch) ==
    /\ faults < MaxFaults
    /\ net' = [net EXCEPT ![n][m] = @ \ {batch}]
    /\ faults' = faults + 1
    /\ UNCHANGED <<clock, tables, minted, logs, draft, job>>

\* POST /sync at m: the handler takes the mutex and calls reconcile.
Deliver(n, m, batch) ==
    /\ job[m]["server"].step = "idle"
    /\ net' = [net EXCEPT ![n][m] = @ \ {batch}]
    /\ job' = [job EXCEPT ![m]["server"] = StartJob(batch)]
    /\ UNCHANGED <<clock, tables, minted, logs, draft, faults>>

\* pull_remote_data on n: GET /get_data of m answers with its events and impacts,
\* and a second request, GET /statements, with its statements.
PullData(n, m) ==
    /\ n \in CliNode
    /\ job[n]["cli"].step = "idle" /\ draft[n] = NoRow
    /\ job[m]["server"].step = "gather" /\ job[m]["server"].key = n
    /\ draft' = [draft EXCEPT ![n] = [peer |-> m, events |-> job[m]["server"].seen,
                                      impacts |-> impacts[m]]]
    /\ job' = [job EXCEPT ![m]["server"] = IdleJob]
    /\ UNCHANGED <<clock, tables, minted, logs, net, faults>>

PullStatements(n) ==
    /\ draft[n] # NoRow
    /\ job[n]["cli"].step = "idle"
    /\ job[draft[n].peer]["server"].step = "idle"
    /\ draft' = [draft EXCEPT ![n] = NoRow]
    /\ job' = [job EXCEPT ![n]["cli"] =
                 StartJob([truth_events |-> draft[n].events,
                           statements |-> statements[draft[n].peer],
                           impact |-> draft[n].impacts])]
    /\ UNCHANGED <<clock, tables, minted, logs, net, faults>>

\* The second request fails, or truthctl is killed before it.
PullFails(n) ==
    /\ faults < MaxFaults
    /\ draft[n] # NoRow
    /\ draft' = [draft EXCEPT ![n] = NoRow]
    /\ faults' = faults + 1
    /\ UNCHANGED <<clock, tables, minted, logs, net, job>>

-----------------------------------------------------------------------------
(* reconcile.                                                                 *)

\* Slips: ties count, any difference counts.
WinsTies(row, seen) == seen = NoRow \/ row.ts >= seen.ts
WinsIfDifferent(row, seen) == seen = NoRow \/ row.ts # seen.ts

\* A row of the batch is applied when the row read for it is absent or older.
Wins(row, seen) == seen = NoRow \/ row.ts > seen.ts

\* Slip: the events come last.
BeforeEventsLast(table) == CASE table = "truth_events" -> {"statements", "impact"}
                             [] table = "statements" -> {}
                             [] table = "impact" -> {"statements"}

\* The row loops that run before the loop of a table.
Before(table) == CASE table = "truth_events" -> {}
                   [] table = "statements" -> {"truth_events"}
                   [] table = "impact" -> {"truth_events", "statements"}

\* UPDATE ... WHERE id=? when a row was read, INSERT OR IGNORE when none was.
Put(table, k, seen, row) ==
    IF seen # NoRow \/ table[k] = NoRow THEN [table EXCEPT ![k] = row] ELSE table

\* A row loop takes the next row of the batch, once the loops before it are done,
\* reads the local row, and skips the row of the batch unless it is in applied.
Take(n, p, table, rows, applied) ==
    LET j == job[n][p] IN
    /\ j.step = "read"
    /\ \A t \in Before(table) : j.todo[t] = {}
    /\ \E k \in j.todo[table] :
         LET rest == [j EXCEPT !.todo[table] = @ \ {k}] IN
         job' = [job EXCEPT ![n][p] =
                   IF k \in applied
                   THEN [rest EXCEPT !.step = "write", !.table = table, !.key = k,
                                     !.seen = rows[k]]
                   ELSE rest]
    /\ UNCHANGED <<clock, tables, minted, logs, net, draft, faults>>

TakeEvent(n, p) ==
    Take(n, p, "truth_events", events[n],
         {k \in job[n][p].todo["truth_events"] :
            Wins(job[n][p].batch.truth_events[k], events[n][k])})

TakeStatement(n, p) ==
    Take(n, p, "statements", statements[n],
         {k \in job[n][p].todo["statements"] :
            Wins(job[n][p].batch.statements[k], statements[n][k])})

TakeImpact(n, p) ==
    Take(n, p, "impact", impacts[n], {i \in ImpactId : impacts[n][i] = NoRow})

Writing(n, p, table) == job[n][p].step = "write" /\ job[n][p].table = table

\* The row of the batch that job j is applying.
Incoming(j) == j.batch[j.table][j.key]

Written(n, p) == job' = [job EXCEPT ![n][p].step = "log"]

\* Slip: the UPDATE leaves timestamp_start out.
WriteEventOldStamp(n, p) ==
    LET j == job[n][p]
        row == IF j.seen = NoRow THEN Incoming(j)
               ELSE [Incoming(j) EXCEPT !.ts = j.seen.ts] IN
    /\ Writing(n, p, "truth_events")
    /\ events' = [events EXCEPT ![n] = Put(@, j.key, j.seen, row)]
    /\ Written(n, p)
    /\ UNCHANGED <<clock, statements, impacts, minted, logs, net, draft, faults>>

WriteEvent(n, p) ==
    LET j == job[n][p] IN
    /\ Writing(n, p, "truth_events")
    /\ events' = [events EXCEPT ![n] = Put(@, j.key, j.seen, Incoming(j))]
    /\ Written(n, p)
    /\ UNCHANGED <<clock, statements, impacts, minted, logs, net, draft, faults>>

\* Slip: the foreign key is not enforced.
WriteStatementUnchecked(n, p) ==
    LET j == job[n][p] IN
    /\ Writing(n, p, "statements")
    /\ statements' = [statements EXCEPT ![n] = Put(@, j.key, j.seen, Incoming(j))]
    /\ Written(n, p)
    /\ UNCHANGED <<clock, events, impacts, minted, logs, net, draft, faults>>

WriteStatement(n, p) ==
    LET j == job[n][p] IN
    /\ Writing(n, p, "statements")
    /\ events[n][Incoming(j).ev] # NoRow
    /\ statements' = [statements EXCEPT ![n] = Put(@, j.key, j.seen, Incoming(j))]
    /\ Written(n, p)
    /\ UNCHANGED <<clock, events, impacts, minted, logs, net, draft, faults>>

WriteImpact(n, p) ==
    LET j == job[n][p] IN
    /\ Writing(n, p, "impact")
    /\ events[n][Incoming(j)] # NoRow
    /\ impacts' = [impacts EXCEPT ![n] = Put(@, j.key, j.seen, Incoming(j))]
    /\ Written(n, p)
    /\ UNCHANGED <<clock, events, statements, minted, logs, net, draft, faults>>

\* The foreign key fails: OR IGNORE does not cover it, the ? returns the error
\* to the caller, what was applied stays applied.
ForeignKeyFailure(n, p) ==
    LET j == job[n][p] IN
    /\ \/ Writing(n, p, "statements") /\ events[n][Incoming(j).ev] = NoRow
       \/ Writing(n, p, "impact") /\ events[n][Incoming(j)] = NoRow
    /\ job' = [job EXCEPT ![n][p] = IdleJob]
    /\ cutShort' = [cutShort EXCEPT ![n] = TRUE]
    /\ UNCHANGED <<clock, tables, minted, synclog, net, draft, faults>>

\* Slip: only the branch that inserts logs.
LogSyncInserts(n, p) ==
    LET j == job[n][p] IN
    /\ j.step = "log"
    /\ synclog' = IF j.seen # NoRow THEN synclog
                  ELSE [synclog EXCEPT ![n] = @ \cup {LogEntry(j.table, j.key, Incoming(j))}]
    /\ job' = [job EXCEPT ![n][p] = [StartJob(j.batch) EXCEPT !.todo = j.todo]]
    /\ UNCHANGED <<clock, tables, minted, cutShort, net, draft, faults>>

\* log_sync: the record of the row that has just been applied.
LogSync(n, p) ==
    LET j == job[n][p] IN
    /\ j.step = "log"
    /\ synclog' = [synclog EXCEPT ![n] = @ \cup {LogEntry(j.table, j.key, Incoming(j))}]
    /\ job' = [job EXCEPT ![n][p] = [StartJob(j.batch) EXCEPT !.todo = j.todo]]
    /\ UNCHANGED <<clock, tables, minted, cutShort, net, draft, faults>>

\* The row loops are done.  What follows (merge_ratings, recalc_ratings, the metrics,
\* log_sync_event) writes tables this module does not hold and may fail: TrustLedger
\* models it.  The call returns either way, and the rows stay.
Finish(n, p) ==
    /\ job[n][p].step = "read"
    /\ \A t \in Table : job[n][p].todo[t] = {}
    /\ job' = [job EXCEPT ![n][p] = IdleJob]
    /\ UNCHANGED <<clock, tables, minted, logs, net, draft, faults>>

\* Slip: the mutex stays locked for ever.
CrashPoisons(n, p) ==
    /\ faults < MaxFaults
    /\ job[n][p].step # "idle"
    /\ job' = [job EXCEPT ![n][p].step = "poisoned"]
    /\ faults' = faults + 1
    /\ UNCHANGED <<clock, tables, minted, logs, net, draft>>

\* The process is killed in the middle of a job; the server is started again.
Crash(n, p) ==
    /\ faults < MaxFaults
    /\ job[n][p].step # "idle"
    /\ job' = [job EXCEPT ![n][p] = IdleJob]
    /\ faults' = faults + 1
    /\ UNCHANGED <<clock, tables, minted, logs, net, draft>>

Reconcile(n, p) ==
    \/ TakeEvent(n, p) \/ TakeStatement(n, p) \/ TakeImpact(n, p)
    \/ WriteEvent(n, p) \/ WriteStatement(n, p) \/ WriteImpact(n, p)
    \/ ForeignKeyFailure(n, p)
    \/ LogSync(n, p) \/ Finish(n, p)

Edit(n) ==
    \/ \E k \in EventId, ts \in Time : AddEvent(n, k, ts)
    \/ \E k \in EventId, v \in Verdict : SetEventDetected(n, k, v)
    \/ \E k \in StatementId, ev \in EventId, s \in Score : AddStatement(n, k, ev, s)
    \/ \E k \in StatementId, s \in Score : UpdateStatementScore(n, k, s)
    \/ \E i \in ImpactId, ev \in EventId : AddImpact(n, i, ev)

Next ==
    \/ Tick
    \/ \E n \in Node : Edit(n) \/ PullStatements(n) \/ PullFails(n)
    \/ \E n, m \in Node : PullData(n, m)
    \/ \E n, m \in Node, p \in Process : Gather(n, p, m) \/ Push(n, p, m)
    \/ \E n, m \in Node : \E batch \in net[n][m] : Lose(n, m, batch) \/ Deliver(n, m, batch)
    \/ \E n \in Node, p \in Process : Reconcile(n, p) \/ Crash(n, p)

Spec == Init /\ [][Next]_vars

-----------------------------------------------------------------------------
(* Properties.                                                                *)

\* A running reconcile works on rows of its own batch, and takes up a table when it
\* is done with the tables before it.
JobOK(j) ==
    /\ DOMAIN j = DOMAIN IdleJob
    /\ \/ j = IdleJob
       \/ /\ j.step = "gather"
          /\ j.key \in Node
          /\ j.seen \in EventTable
       \/ /\ j.step \in {"read", "write", "log"}
          /\ j.batch \in Batch
          /\ DOMAIN j.todo = Table
          /\ \A t \in Table : j.todo[t] \subseteq Present(j.batch[t])
          /\ j.step # "read" =>
               /\ j.table \in Table
               /\ j.key \in Present(j.batch[j.table])
               /\ \A t \in Before(j.table) : j.todo[t] = {}

\* Every variable holds a value of its kind.
TypeOK ==
    /\ clock \in [Node -> Time]
    /\ events \in [Node -> EventTable]
    /\ statements \in [Node -> StatementTable]
    /\ impacts \in [Node -> ImpactTable]
    /\ minted \subseteq EventId \X [by : Node, ts : Time]
    /\ cutShort \in [Node -> BOOLEAN]
    /\ net \in [Node -> [Node -> SUBSET Batch]]
    /\ draft \in [Node -> {NoRow} \cup
                   [peer : Node, events : EventTable, impacts : ImpactTable]]
    /\ DOMAIN job = Node
    /\ \A n \in Node : DOMAIN job[n] = Process /\ \A p \in Process : JobOK(job[n][p])
    /\ faults \in Nat

\* No statement and no impact is left without its event, on any node, in any
\* order in which snapshots arrive and are applied row by row, whichever process
\* is killed between two rows (reconcile has no transaction).
NoOrphans ==
    \A n \in Node :
        /\ \A k \in Present(statements[n]) : events[n][statements[n][k].ev] # NoRow
        /\ \A i \in Present(impacts[n]) : events[n][impacts[n][i]] # NoRow

\* A snapshot under way refers to no event it does not carry, so that the peer can
\* apply all of it: the tables are read under one hold of the mutex, and no
\* reconcile of the server leaves the tables in between.
SnapshotsClosed ==
    \A n, m \in Node : \A b \in net[n][m] :
        /\ \A k \in Present(b.statements) : b.truth_events[b.statements[k].ev] # NoRow
        /\ \A i \in Present(b.impact) : b.truth_events[b.impact[i]] # NoRow

\* When only servers work on the databases no reconcile fails on a foreign key:
\* events are applied before the rows that refer to them.
SyncNeverFails == \A n \in Node : ~cutShort[n]

\* Nothing is made up or mixed: whatever a node stores, has under way or is about
\* to apply as row k is a version that AddEvent created as row k somewhere.
Provenance ==
    LET Known(table) == \A k \in Present(table) : <<k, VersionOf(table[k])>> \in minted IN
    /\ \A n \in Node : Known(events[n])
    /\ \A n, m \in Node : \A b \in net[n][m] : Known(b.truth_events)
    /\ \A n \in Node, p \in Process :
         job[n][p].step \in {"read", "write", "log"} => Known(job[n][p].batch.truth_events)

\* An applied event is missing from sync_log only if a process was killed between
\* the two statements that apply and record it: at most one event per kill.
Unlogged(n) ==
    {k \in Present(events[n]) :
        /\ events[n][k].by # n
        /\ LogEntry("truth_events", k, events[n][k]) \notin synclog[n]
        /\ ~\E p \in Process : job[n][p].step = "log" /\ job[n][p].key = k
                               /\ job[n][p].table = "truth_events"}
AuditTrail == Cardinality({v \in Node \X EventId : v[2] \in Unlogged(v[1])}) <= faults

\* A snapshot that arrives late or again takes no verdict back: /detect leaves
\* timestamp_start alone, so an event that is applied over its own version would
\* bring the verdict the sender had.
VerdictKept ==
    [][\A n \in Node, k \in EventId :
         /\ events[n][k] # NoRow /\ events[n][k].detected # "null"
         /\ VersionOf(events'[n][k]) = VersionOf(events[n][k])
         => events'[n][k].detected # "null"]_vars

\* A statement never goes back to an older updated_at, whatever is delivered late,
\* out of order or again, local rescoring included: the row that reconcile compared
\* is still the row it overwrites.  It needs nodes whose clocks agree.
NewestStatementWins ==
    [][\A n \in Node, k \in StatementId :
         statements[n][k] # NoRow =>
           statements'[n][k] # NoRow /\ statements'[n][k].ts >= statements[n][k].ts]_vars

\* The event tables implement the abstract last-writer-wins store: an event is only
\* ever replaced by a version that some node wrote with a later timestamp.
Abstract == INSTANCE LastWriter WITH
    Replica <- Node, Key <- EventId, Version <- [by : Node, ts : Time],
    Absent <- NoRow,
    store <- [n \in Node |-> [k \in EventId |-> VersionOf(events[n][k])]],
    written <- minted
ImplementsLastWriter == Abstract!LWSpec

\* Node::start ticks for ever and a request that is not lost arrives.  Both wait for
\* the mutex, and tokio's mutex serves its waiters in their order: strong fairness.
\* A handler that holds the mutex goes on.  Nobody is obliged to edit anything.
Fairness ==
    /\ \A n \in Node : WF_vars(Reconcile(n, "server"))
    /\ \A n \in Node : \A m \in Node \ {n} :
        /\ SF_vars(Gather(n, "server", m))
        /\ WF_vars(Push(n, "server", m))
        /\ SF_vars(\E batch \in net[n][m] : Deliver(n, m, batch))

FairSpec == Spec /\ Fairness

Agreement ==
    \A n, m \in Node :
        /\ \A k \in EventId : VersionOf(events[n][k]) = VersionOf(events[m][k])
        /\ statements[n] = statements[m]
        /\ impacts[n] = impacts[m]

\* Nodes that keep pushing to each other come to hold the same rows for good once
\* the edits stop, in spite of lost requests and restarts, provided no two versions
\* of a row carry the same second.
Converges == <>[]Agreement

-----------------------------------------------------------------------------
(* What the documents say and the code does not do; the runs that check these  *)
(* end in a counterexample.                                                    *)

\* spec/08-p2p-sync.md: the latest timestamp wins for conflicting data.  No event gives
\* way to a version with an earlier timestamp.
LatestTimestampWins ==
    [][\A n \in Node, k \in EventId :
         events[n][k] # NoRow => events'[n][k] # NoRow /\ events'[n][k].ts >= events[n][k].ts]_vars

===============================================================================
