# Verification of Truth Training

TLA+ models of the state that Truth Training keeps and moves between nodes, TLC
runs that check them on small instances, and TLAPS proofs of the results that
should hold for any number of nodes and rows. Paths are relative to the root of the
repository (`core/`, `src/`, `app/`, `ui/`, ...).

## 1. Inventory

| Component | State | Operations | Interacts with | Hard behaviour | Correct when | Model |
|---|---|---|---|---|---|---|
| Row replication: `src/p2p/sync.rs`, `src/p2p/node.rs`, `src/api.rs` (`/sync`, `/get_data`, `/statements`), `core/src/storage.rs` | tables `truth_events`, `statements`, `impact`, `sync_log` | add event, detect, add statement, add impact; snapshot and push every 30 s; pull; `reconcile` | one task per peer, HTTP handlers behind one mutex, `truthctl` on the same file | snapshots late, lost, repeated; a `reconcile` of many autocommitted statements; a second process; kills | references intact, no version invented, newest version wins, replicas converge, audit trail complete | `TruthSync`, `LastWriter` |
| Ratings and trust: `storage.rs` (`recalc_ratings`, `merge_ratings`), `core/src/trust_propagation.rs`, end of `reconcile` | `node_ratings`, `group_ratings`, `node_metrics`, `users`, `progress_metrics` | recount, merge a peer's values, delegate, change a role | `/recalc`, `/trust_delegate`, `/detect`, `truthctl` | blends and recounts in one call, DELETE and INSERT without a transaction, NULL sums | scores in range, roles survive, success means agreement | `TrustLedger` |
| Sessions and roles: `src/api.rs`, `core/src/auth.rs`, `truthctl.rs` | `active_tokens`, `users.role`, `session.json` | login, refresh, role change | handlers that take the mutex anew for each step; several commands on one file | two refreshes of one token, lost answers, kills | the file keeps a live token, a token is exchanged once, roles take hold | `Sessions` |
| Peer history and relay metrics: `storage.rs`, `sync.rs` | `peer_history`, `sync_logs`, `node_metrics.relay_success_rate`, the static `RELAY_METRICS` | record an attempt, flush, log, summarise | every synchronisation of `truthctl` | read then write, several processes, kills | counters equal answered attempts | `PeerSync` |
| Broadcast and incremental sync: `src/p2p/node.rs`, `sync.rs`, `truthctl.rs` | none of its own | send ratings to every peer; the sync commands in their modes | reads the ratings, gives the mutex back, waits, sends | one failing peer ends the round; recounts meanwhile | the answer says who was reached; one snapshot per broadcast | `PeerSync` |
| Files of a node: `truthctl.rs`, `app/src/diagnostics.rs`, `config_utils.rs` | `keys.json`, `config.json`, `peers.json`, the database file | keys, config, init-node, peers add, reset | commands in other terminals | read, truncate, fill; torn files; kills | nothing saved is lost, the files name the same key | `NodeHome` |
| Opening, migrating, seeding: `storage.rs`, `src/main.rs`, `app/src/main.rs` | schema, reference tables | `open_db`, `run_migrations`, `seed_knowledge_base` | server and application on one file | two migrations at a time, kills, two languages | opening succeeds, one language | `KnowledgeBase` |
| Local events, assessment, export and import: `storage.rs`, `core/src/expert_simple.rs`, `app/src/main.rs` | events, impacts, a JSON file | add, detect, assess; export and import, which only the library offers (nothing in the repository calls them) | server on the same file | an export of two reads, an import that fails half way | exports closed, imports whole | `KnowledgeBase` |
| Graph queries: `storage.rs`, `src/api.rs` | none | `load_graph`, `load_graph_filtered` | handlers | limits, breadth first search, ties | links closed, distance and limits kept | `TrustGraph`, `KnowledgeBase` |
| Collective intelligence: `storage.rs` `ci_*`, `core/src/collective_intelligence/` | participants, judgments, consensus | add a judgment, calculate, read | HTTP handlers | its tables are created by no migration | see section 11 | `KnowledgeBase` (`JudgmentsPost`) |
| Desktop offline queue: `ui/desktop/src/services/offline.ts`, `sync.ts` | queue in memory and in `localStorage` | add, remove, clear, process with retries | window events, an interval, awaits | operations added, removed or cleared during an await; reload | nothing lost, nothing sent twice | `OfflineQueue` |
| Desktop stores, UDP discovery, encryption, Android bridge and client, Tauri shell, themes | little or none | I/O, rendering, primitives | | | | none, see section 11 |

## 2. Plan

Done, in this order, the most important behaviour first:

1. `LastWriter`, `TruthSync`, `TruthSyncProofs`: row replication, with a per-row last-writer-wins store as its abstract specification.
2. `OfflineQueue`, `OfflineQueueProofs`: the desktop client's queue.
3. `TrustLedger`, `TrustLedgerProofs`: ratings, trust and users of one database.
4. `PeerSync`, `PeerSyncProofs`: a node as a client of its peers, and its broadcasts.
5. `Sessions`, `SessionsProofs`: logins, refreshes and roles.
6. `NodeHome`, `NodeHomeProofs`: the files of `~/.truthctl`.
7. `TrustGraph`, `KnowledgeBase`, `KnowledgeBaseProofs`: opening, seeding, export and import of a database,
   and the graph queries.

Each `MC*` module holds the instance of one of them for TLC; `SequenceFacts` the facts
about sequences, recursive functions and sums that the proofs about peers, files and the
knowledge base use.

Left, for when the code has it: consensus and reputation, once a migration creates their
tables; the store of `ui/desktop/src/stores/sync.ts`, once something fills its queue;
the composition of `TrustLedger` with `TruthSync` at the end of a `reconcile`, where
the two share nothing but the order of calls.

Every safety and action property that a passing run checks is also a theorem; each section below
names its theorems, their hypotheses and the invariant they rest on. The two liveness
properties, `Converges` and `Delivered`, are model-checked only: liveness under
fairness is out of the prover's reach.

How the modules share the tables: `TruthSync` has the replicated rows of many nodes,
`TrustLedger` the derived rows of one, and a `reconcile` is the rows part in the first and
the ratings part in the second. `KnowledgeBase` starts one step earlier, at the empty file,
and has the local rows as its inputs. `PeerSync` and `Sessions` are what a client of
these servers does, and `NodeHome` the files that the client reads its peers and keys from.

## 3. The core: TruthSync

### State and actions

| TLA+ | Code |
|---|---|
| `events[n]`, `statements[n]`, `impacts[n]` | tables of node `n` (`storage.rs:95-130`). A row keeps what the properties tell apart: `by` (the content, named by the node that wrote it), the timestamp, the verdict, the foreign key, the score |
| `synclog[n]`, `cutShort[n]` | rows of `sync_log`; whether some `reconcile` returned without its row in `sync_logs` |
| `minted` | history variable: every version `AddEvent` created |
| `net[n][m]` | snapshots on their way from `n` to `m` |
| `draft[n]` | what `pull_remote_data` has after the first of its two requests |
| `job[n][p]` | what process `p` (`"server"` or `"cli"`) does on `n`'s database: nothing, reading a snapshot, or one `reconcile` with the rows left, the row being applied and the local row it was compared with |
| `AddEvent` ... `AddImpact` | `add_truth_event`, `set_event_detected`, `add_statement`, `update_statement_score`, `add_impact`, with AUTOINCREMENT ids and foreign keys |
| `Gather`, `Push`, `Lose`, `Deliver` | a round of `Node::start`, or `truthctl sync` without a pull: read `truth_events`, read the other tables, send; the handler `/sync` starts a `reconcile` |
| `PullData`, `PullStatements`, `PullFails` | `pull_remote_data`: `/get_data`, then `/statements` |
| `TakeEvent/Statement/Impact`, `WriteEvent/Statement/Impact`, `LogSync` | one row of `reconcile`: `SELECT` and comparison; `UPDATE` or `INSERT OR IGNORE`; `log_sync` |
| `ForeignKeyFailure`, `Finish`, `Crash` | the three ways a `reconcile` ends |

The step size is the SQLite statement: the connections are in autocommit mode, so
every statement commits alone, and `Crash` may come between any two. A server's
handlers share one `tokio::Mutex` around the connection (`Unlocked`); `truthctl` opens
the file itself and does not take it, on the nodes of the constant `CliNode`.
rusqlite's bundled SQLite enforces foreign keys, and `SCHEMA_SQL` asks for it.

`update_statement_score` is an operation of the library that nothing in the
repository calls; the model has it because the library exports it, and because it
changes the timestamp that `reconcile` compares.

### Properties and runs

| Run | Instance | Shows |
|---|---|---|
| `SyncEvents` | 2 servers, 2 event ids, times 1..2, one lost request or kill | `TypeOK`; `Provenance`: every stored or travelling event was created under that id; `AuditTrail`: at most one applied event per kill lacks its record; `ImplementsLastWriter` |
| `SyncRows` | 2 servers, an event, a verdict, a statement, an impact, no faults: 3.66 million states | `SnapshotsClosed`; `SyncNeverFails`; `NewestStatementWins`, with equal clocks; `VerdictKept`: a late or repeated snapshot takes no verdict back |
| `SyncCli` | 2 nodes, `truthctl` on one, a fault | `NoOrphans` holds even when a pull is not closed and two processes write one file |
| `SyncLostUpdate` | 3 nodes, `truthctl` on one, no fault | a counterexample to "Latest timestamp wins for conflicting data" (`spec/08-p2p-sync.md:104`): `truthctl` compares with a row the server then replaces by a newer one, and overwrites the newer one |
| `SyncFaults` | 2 servers, an event and a statement id, times 1..2, distinct stamps, a lost request or kill | `Converges`: <>[] of equal tables, with the fault or without it: the next round repeats what was lost |

Bounds. Two nodes make every interleaving of a writer and a replica; the id bound
makes clashes of ids (one id suffices) and NextId's order (two); times 1..2
give older, equal and newer versions; a snapshot in flight per direction next to the
snapshot being read and the one being applied gives three generations of one table.
Larger instances are what the proofs are for.

`Tick` moves all clocks together, so `Skew` is a fixed difference between them;
the runs have `Skew = 0`, except that events may be stamped with any time in every
run (`add-event --start`). `DistinctStamps` is an assumption on the users, that nobody
stamps two versions of one row alike. It is needed only for convergence: without it
(`DistinctStamps = FALSE` in `SyncFaults.cfg`) two nodes that create an event with the
same id in the same second each reject the other's for ever, as `Wins` is strict.

Fairness. `Node::start` loops for ever and a request that is not lost arrives; both
wait for the mutex, and tokio's mutex is first in first out, so a waiter that is
infinitely often able to get it does: strong fairness of `Gather` and `Deliver`. The
holder of the mutex goes on: weak fairness of `Push` and `Reconcile`. Edits, clocks,
faults and `truthctl` are not fair. Lost requests and kills are finitely many
(`MaxFaults`), as convergence needs.

### Proofs about TruthSync

All theorems hold for any finite or infinite set of nodes and any bounds; they assume
`ConstAssump` and `NoRowAssump` (the sorts of the constants; `NoRow` is no row).

`TruthSyncProofs`:
- `TypeCorrect`: `TypeOK` is inductive. Its part `JobOK` is needed: what a
  `reconcile` applies is a row of its own batch.
- `ReferencesHold`: `NoOrphans`, from `TypeOK` and the lemma `EventsStay`, no step
  removes an event. This holds with `truthctl` too, because the foreign key is
  checked at the write.
- `ProvenanceHolds`: the invariant `ProvenanceInv` adds the batches of running jobs,
  half-read snapshots and drafts to `Provenance`; each action copies known rows only.

With `CliNode = {}`, that is when only servers open the databases:
- The invariant `ServerInv` says that the mutex works: while the server gathers, the
  table it read is still the table; while it applies a row, the row it compared with
  is still the stored row; every batch under way or being applied is closed, and the
  events of a batch whose events loop is done are stored. Neither `SyncNeverFails` nor
  `SnapshotsClosed` is inductive without the other.
- `ServersNeverFail`, `SnapshotsAreClosed` follow from it.
- `EventsImplementLastWriter`: `WriteEvent` maps to `Adopt`, because the row read is
  still the row stored, `Wins` compared it, and `ProvenanceInv` says the new one was
  written; `AddEvent` maps to `Write`; every other step stutters.
- `VerdictsAreKept`: a step that keeps the version of an event keeps its verdict. The only
  writer that could take it back is `WriteEvent`, and it writes only over an older
  version than its own, as the row it compared is the row it overwrites.
- `NewestStatementsWin` (also with `Skew = 0`): no statement goes back to an older
  `updated_at`. The invariant `TimesInv` says that the clocks agree, that
  every stored, travelling or half-applied statement is stamped by now, so that an
  edit never stamps an older time, and that the statement compared is the one stored.

Both hypotheses are needed: `SyncLostUpdate` is the counterexample with `truthctl`, and a
node whose clock is behind the author's stamps an edit with an older time.

`AuditHolds` has no hypothesis: at most one applied event per kill is missing from
`sync_log`. `AuditTrail` is not inductive, as it excuses a missing record whenever some job
is about to log that row, of whatever version. The proof counts the records that are `Owed`: foreign
events whose version is not recorded and that no job is about to record in this
version. No step but a kill owes one more (a write that replaces a version brings its own
record, with or without a second process), and a kill owes one.

The corresponding runs check the same formulas on small instances. Only `Converges` and the
counterexample are TLC's alone.

## 4. The offline queue: OfflineQueue

`queue`, `retryCount` and `stored` are `this.queue.operations`, the field of each
operation object and the JSON in `localStorage`; `run` is the one call of `processQueue`
that `isProcessing` admits, at the await it is at: the API call (`"call"`, or
`"answer"` once the server has carried the operation out) or the pause before a retry
(`"sleep"`), with the operations of the snapshot still to do and those that failed. One
action is one JavaScript turn, from an await to the next: `Succeed` and `GiveUp` include
the start of the next call, or the end of the run with its save (`Advance`, `EndRun`);
`GoOnline` includes the `sync()` of `setOnlineStatus`. The queue is a set: ids are unique,
and the order matters to `sort` alone, which puts higher priorities first (`Foremost`); the
order within a priority is left open.

`executed`, `added`, `withdrawn` and `late` are history: what the server did, what the
user did, and which operations were added while a run was under way. `Rejected` are
operations that fail whatever happens, with a 4xx answer, or of a type
`executeOperation` does not know.

The two services are exported singletons; no component of the user interface imports
them yet (the store of `stores/sync.ts` has its own queue), so the model covers what
their interface admits.

| Run | Instance | Shows |
|---|---|---|
| `Queue` | 2 operations and a refused one in front, 1 retry per run, `maxRetries` 1, 4 faults | `TypeOK`, `Kept`, `ResentOnlyAfterFault`; `Delivered`: refused operations do not keep the others from being sent |

`processQueue` also goes on with its snapshot when the queue is cleared or an operation is
removed during a run: what then fails is put back (`EndRun`). `Kept` and `Delivered`
speak of operations that were not withdrawn.

Bounds. With `maxRetries` 1 a retry that succeeds is enough for an operation to be
dropped later; that takes a failed attempt, a save during the run, a reload and two more
failures, hence four faults. Two operations make a run that is half done.

Fairness. A call ends, because axios gives up after 10 s: weak fairness of the
disjunction of its outcomes, not of any one. Faults are finitely many, so in the end the
server answers. A `setTimeout` fires (`Wake`), the 30 s interval fires while online
(`Sync`), and the connection comes back (`GoOnline`). Nothing is assumed of the user.

### Proofs about OfflineQueue

`OfflineQueueProofs`, for any set of operations, priorities and bounds (`QueueAssump`;
`MaxRetries` at least 1, as the services configure it):
- `QueueTypeCorrect`.
- `QueueKeeps`: `Kept` needs four more facts (`KeptInv`): memory and `localStorage` hold
  the same operations at every await; a positive `retryCount`, in memory or saved,
  belongs to an executed operation, as only successes set it; at `"answer"` the
  operation was executed; what is queued but not part of the running snapshot is
  executed or late. Then the end of a run, which replaces the queue by its failed
  part, drops executed and late operations only.
- `QueueResendsOnlyAfterFaults`: in `ResentInv` an operation that will be sent again was
  executed at most once per fault; an answer is under way while offline only after
  the fault that cut the connection.

`Delivered` is left to TLC.

## 5. Ratings and trust: TrustLedger

One database. `ratings`, `group`, `metrics`, `users` and `progress` are the tables
`node_ratings`, `group_ratings` (its row `global`), `node_metrics`, `users` and the newest
row of `progress_metrics`; `author`, `score` and `votes` what a recount reads. `job[p]` is
the call that the server or `truthctl` runs: a list of statements (`Recount`, `Reconcile`),
one of which is one step (`Statement`) because each commits alone. `Kill` comes between
any two. The server runs a call under the mutex, `truthctl` beside it.

| Actions | Code |
|---|---|
| `DetectEvent`, `RecalcRatings`, `RecalcMetrics`, `GetNodeRatings`, `GetGroupRatings`, `RunRatings` | the handlers and commands that start `recalc_ratings` or `recalc_progress_metrics` |
| `ReconcileRatings` | the end of `reconcile`: `merge_ratings`, the blends of quality and priority, the recount |
| the statements of `Statement` | the DELETE, INSERT and UPDATE statements of these functions, with the formulas of `trust_propagation.rs` |
| `UsersRole`, `TrustDelegate`, `AddEvent`, `ScoreEvent`, `AddImpact` | calls of one statement |

Scores are integers, `Unit` for 1.0, and divisions round down: real numbers are outside
of TLC, and the properties are bounds and equalities of the same expression.

| Run `Ledger` | What it says |
|---|---|
| `ScoresInRange` | trust in [-1, 1], quality and priority in [0, 1], except for a rating between its insertion and its clamping; with the types |
| `RolesSurvive` | no statement of a recount or a merge loses a user or changes a role, although `users` is mirrored from a table that is thrown away |
| `DelegationBounded` | a delegation moves a trust by at most 0.2; any larger move is a rating mirrored |
| `SuccessIsConsistent` | an answer of success, of a call that was alone: the group sums up the ratings, `users` has their trust, there was a vote to count |
| `PrioritiesAgree` | a call that was alone, whether it succeeded or failed half way, leaves every rated node the same priority in `node_ratings` and in `node_metrics`; `spec/08-p2p-sync.md:159` has the second as a duplicate of the first, a merge writes the second only, and a kill may have parted them before |

| Run `LedgerMerge` | What it shows |
|---|---|
| `TrustMerged` | a counterexample to "Later synchronized via trust-weighted merge" (`spec/17-offline-reliability.md:34`): `reconcile` blends the peer's trust into `node_ratings`, then recounts that table from this node's own rows, and so a node that the peer trusts less has its own count back. Only in `users` does a node that no own row speaks of keep the blended trust. With the recount in front of the merge the same instance satisfies it |

Bounds: two nodes, one event, one vote, two calls of several statements and one edit,
tenths, a peer that sends the worst values over and over: 1.44 million states. One
event with an author and a voter reaches every branch of a recount; two calls are what it
takes to overlap, or to repair what a kill left. `Batch` is a set of what a peer *may*
send, so the constant, not the action, is small. `CHECK_DEADLOCK FALSE`: when the calls
and edits are used up nothing is left to do; the same holds for the runs of sections 6 to 9.

A loop over rows (the upserts of `users`, the two UPDATEs for each row that refresh the priorities, the
merge and the blend) is one step of the model, although each of its statements commits
alone: a kill, or `truthctl`, between two rows is left out. The properties speak of
calls that nothing disturbed, or of single rows.

`TrustLedgerProofs`, from `LedgerAssump`, `NoRowAssump`, `VotesFinite` and `BatchAssump` (the
sorts of the constants): `ScoresStayInRange` for any numbers of nodes, votes, calls and any
batches. The invariant needs, of every job, that its list is a plan: the statement after
an insertion clamps, which is why the exception in `ScoresInRange` is only ever for a call
under way, and that what a merge applies is a batch of numbers. The bounds of
the formulas (`SmoothedBounds`, `QualityIndexBounds`, `PriorityBounds`, `BlendShareBounds`)
are lemmas of their own. `UsersKeepRoles` and `DelegationsAreSmall` follow from the same
sorts.

Two more theorems follow a call from statement to statement. What is left of a call is the end of
the plan of its kind (`OnPlan`), so its position says which statements are done:
- `SuccessAgrees`, that is `SuccessIsConsistent`, without further hypotheses. `Agreement` says
  what the tables have in common at each position of a call that has the database to
  itself: none left after the DELETE, those of the rows after the INSERT, in range after
  the clamp, summed up after the group, mirrored at the end. Whatever a killed call left
  is gone with the DELETE.
- `PrioritiesStayAlike`, that is `PrioritiesAgree`. `PriorityAgreement` says from which position
  of each plan the two tables have the same priorities: in a recount from the refresh on, so
  that an error in the group after it does no harm, in a `reconcile` through the blend, which
  writes both. A call that answers has passed that position (`AnsweredInCall`).

`TrustMerged` is TLC's alone: it does not hold.

## 6. Peers: PeerSync

`history`, `rate` and `synclogs` are `peer_history`, the relay rates and `sync_logs` of one
database; `memory[c]` is `RELAY_METRICS`, a static and so of one process; `job[c]` what a
command of `truthctl` (or the `sync` command of `app/src/cli.rs`) does, with the peers
ahead of it; `cast[r]` a request to `POST /ratings/sync` on its way through
`broadcast_ratings`; `got[p]` what peer `p` has applied. `ended`, `raced` and `cut` are
history: answered attempts, and peers whose counters were read and written by two
processes at a time or by one that was killed.

| Actions | Code |
|---|---|
| `SyncOne`, `SyncAll`, `DryRun`, `AppSync` | `truthctl sync` and `peers sync-all` in their modes, the `sync` command of `cli.rs` |
| `Send` | one request: lost, refused, handled, and its answer lost or not (`sync.rs:182-380`, `:646-737`) |
| `RecordRelayResult`, `FlushRelayMetrics`, `ReadHistory`, `WriteHistory`, `LogSyncEvent` | what follows an attempt, statement by statement |
| `Kill` | a command is interrupted anywhere |
| `RatingsSync`, `RankPeer`, `SortPeers`, `PostRatings`, `Recount` | a broadcast: the ratings are read once, each peer's priority is looked up, the peers sorted, sent to one after another; recounts in between |

| Run `PeerSync` | What it says |
|---|---|
| `HistoryCounts` | the counters of a peer are its answered attempts, with those about to be logged, unless two processes wrote at a time or one was killed; they never exceed them |
| `RateIsOneAttempt` | the relay rate that is stored is the outcome of the last command's one attempt, all or nothing |
| `SyncAllReachesEveryone` | `sync-all` tries and records every entry but the node's own, in order, whoever fails |
| `AnswerTells` | `broadcast_ratings` returns success when every peer has applied the ratings; after an error the peers before the failing one have, the ones after it have not |
| `OneSnapshot` | a broadcast sends every peer the ratings of the moment it was asked for, in spite of delays and recounts |

The broadcasts are those of the function `broadcast_ratings`, for any list of peers. As the server is wired
no request gets to it, and its list of peers is one fixed address (section 10). The
code ignores the errors of `log_peer_sync` (`let _ =`, `sync.rs:267` and on): on a database
whose tables were never created an attempt is not counted. In the model the tables exist.

Bounds: three entries with the node itself second (so that there is one before and one
after it, and a list of two to broadcast to in either order), two commands, two requests,
two runs in all and one recount: 287,794 states.

`PeerSyncProofs`, from `PeerAssump` alone: `PeerTypeCorrect`, that `TypeOK` is inductive; no run
checks it, as the theorem says more. `RatesAreOneAttempt` from the invariant
`TriedOnce`: a peer that is ahead of a command has not been counted in its memory, and
one that was counted has one attempt. `AnswersTell` from `InProgress`: the peers still to do and
those reached are disjoint and together the list. `BroadcastIsOneSnapshot` from `Snapshots`: what
is on its way is what the request has read.

`SyncAllReaches`, that is `SyncAllReachesEveryone`, from `SyncAllInv`: a process of sync-all is
half way through its list (`Halfway`): it has recorded the first m targets, in their
order, and has the others still to do. Nothing but the end of the list ends it.

`HistoriesCount`, that is `HistoryCounts`, from `CountsInv`. With those on their way (`Waiting`), the
outcomes in the rows of a peer are no more than its answered attempts (`Counts`), and exactly
as many (`Complete`) for a peer that was neither raced for nor cut off. To be inductive this
has to hold also of the table that a process is *about to write* (`WriteFits`): a row read
before another process wrote may replace a newer one, and the counters after that are still
within the attempts, because the outcome of the overwriter was waiting when it
read. Without a race what was read is still there (`Fresh`) and a peer has one row
at most (`OneRow`), which is why the summary counts each once. The lemmas about
`SumFunctionOnSet` (that a sum exists, takes elements one by one and is bounded) are in
`SequenceFacts`, and those about recursive functions that they need.

## 7. Sessions

`active` is the table `active_tokens`, `role` that of `users`, `file[h]` the `session.json` of a
home directory, `cmd[p]` a command of `truthctl` and how far its request is. A handler
takes the mutex anew for each step, and the steps of a refresh are actions of their own:
`DeleteExpired`, `FindSession`, `IssuePair`, `DeleteOld`, `InsertNew`; a login `Register`s.
`AuthFlow`, `RefreshFlow`, `UsersRole` start a command. A change of a role is let in by `UsersRole`,
which checks the token, and made by `UpdateUserRole` any time after, as the handler waits for a
thread and for the mutex in between (`src/api.rs:967-973`). `TruncateSession` and `FillSession` end
a login or a refresh: `fs::write` opens with truncation and then writes; `OverlaySession` is a
second writer that fills the file while another does, which may leave a mixture. `Lose` is the
fault of a command (a request or an answer lost; a kill, also with the file empty), `KillServer`
that of the server. `Tick` moves the one clock: `truthctl` and the server
of a session are taken to agree on the time, up to the margins the code has.

| Run `Sessions` | What it says |
|---|---|
| `TypeOK` | types |
| `SessionAlive` | when the commands of a home are done, the refresh token in its file is one the server knows, or its day is over. Only these break the chain: the answer to a refresh is lost, `truthctl` is killed with the file empty, the server is killed between the two statements of a rotation, two processes fill the file at a time |
| `RotatesOnce` | a refresh token is exchanged once, unless two requests had found it before either deleted it |
| `RoleTakesHold` | a request to change a role is let in only if who asks is an administrator, or was one no longer ago than an access token lives (and the leeway of its check); and no role changes but by a request that was let in |

Bounds: an administrator with one process and a node with two; lifetimes 2 and 3, leeway 1,
margin 1, time up to 4, so that an access token can expire before and after a refresh token
is used; three pairs, four commands: 2.79 million states. The two processes are
symmetric.

`SessionsProofs`, from `SessionAssump`: all four (`SessionTypeCorrect`, `SessionsStayAlive`,
`TokensRotateOnce`, `RoleChangesTakeHold`). `SessionAlive` is far from inductive: the invariant follows a
token through the command that holds it. Tokens are numbered as issued and no two
sessions share one (`Issued`); the pair of a command that has not ended is nobody else's and
nobody presented it (`Fresh`); its session is in the table when the answer comes (`Registered`);
only commands of the file's home present its token (`Owned`); a request for which a rotation has deleted
the session has its new one to insert (`Owing`); and one that was found expired is
expired (`Expiring`). So a late writer, who overwrites a newer file, brings a token that
nobody can have used. `Rotation` is the same for `RotatesOnce`.

## 8. The files of a node: NodeHome

`disk[f]` is the content of `keys.json`, `config.json` or `peers.json`, `Torn` when it does not
parse; `job[p]` a command of `truthctl` as the list of its steps on files. A file is rewritten
in three steps, `Load` (read and decide what to write), `Truncate` and `Fill`, as
`fs::write` opens with truncation and then writes; `Kill` comes between any two. `KeysAdd`,
`InitNode`, `ConfigSet`, `ConfigReset`, `PeersAdd` and `Reset` start commands, `FirstKey`,
`Wipe` and `Unlink` are steps of `init-node` and `reset`, and `OpenDb` creates the database.
A key is a model value; names, dates and private keys are left out.

| Run `NodeHome` | What it says |
|---|---|
| `HomeKept` | a key or an entry that a finished command has saved stays, until a reset, unless two commands handled the file at a time, one died while it wrote `peers.json` (which is then read as empty and rewritten), or one died while it wrote `keys.json` (which loses its keys, but is refused by later commands and not rewritten with fewer) |
| `ConfigFollowsFirstKey` | commands one at a time leave no key in `config.json` but the first of `keys.json` |
| `SelfSkipped` | the node's own entries in `peers.json` carry the key by which `sync-all` skips them, unless a reset replaced the key and kept the file |

Bounds: two processes, two keys, one address, two ports, three commands: 741,826 states.
A third process adds nothing to two that overlap; three commands make a reset between two
others.

`NodeHomeProofs`, from `HomeAssump` and `MarkersAssump` (the markers for no file and for a torn
one are not contents): `HomeTypeCorrect`, and `FilesAreKept`, that is `HomeKept`, for any number
of processes and commands. The invariant `HomeInv` follows a file through a command: an
undisturbed file has one handler (`OneHandler`), who holds in memory all that was kept and
adds to it (`Carried`); a torn and undisturbed `peers.json` is being written (`PeersWhole`), so that a
command that reads it first never takes it for an empty one; and only commands that add or
reset change `keys.json` (`Commands`).

`ConfigKeyAgrees` and `OwnEntriesAreSkipped`, that is `ConfigFollowsFirstKey` and `SelfSkipped`, follow from
a second invariant, `AloneInv`, about commands one at a time. It speaks of what a file *will*
hold when the command at work has filled it (`Coming`), and of the steps that each command
may have ahead (`Ahead`): one that has passed the step `first` holds the key in use
(`Steady`), a `config.json` that does not name it has a reset ahead that will rewrite it
(`ConfigComes`, `Renewing`), and a reset that replaces the key has removed the
peers before, unless the user kept them (`OwnEntries`).

## 9. The database from its file up: KnowledgeBase and TrustGraph

`KnowledgeBase` has the server and `truth-training` on one file. `OpenDb`, `HasColumn` and
`AlterTable` are `create_tables` and `run_migrations` statement by statement; `Seed` and `SeedServer` the
seeding of the reference tables, in a transaction, by the language of the process; then
`AddEvent`, `SetEventDetected`, `AddImpact`, `Assess` (`assess --apply`, with the confidence of
`expert_simple.rs`), `ExportEvents` and `ExportImpacts` (the two reads of `export_to_json`),
`ImportFromJson` (one transaction; both are functions of the library that nothing in the repository
calls), `JudgmentsPost`, and the queries `GetGraph` and `GetGraphJson`.
`TrustGraph` has these queries as operators: links, the filter by trust and by links per
source, the breadth first search with its depth and limit, the limit and the filter by
priority of the handler. Ties that SQL and hash maps leave open are a choice from a set of
answers.

| Run `Store` | What it says |
|---|---|
| `TypeOK` | rows refer to rows; a link stands for at least one vote |
| `OpenFailsOnlyInRace` | a migration cut short is completed by the next opening; only two at a time can fail |
| `OneLocale` | the reference tables are in one language, whatever is killed and whoever comes second |
| `ImportWhole` | an import adds all of a file or nothing |
| `ExportClosed` | an export has the events of its impacts, unless rows were written between its reads |
| `AssessNeedsAnswers` | a verdict is set only after five of seven questions were answered and with no more than two thirds of the replies unknown |
| `GraphAnswers` | answers of `GET /graph/json`: links join nodes of the answer, limits are kept, nodes are within the depth of the centre, against a definition of distance by paths |

Bounds: an empty, an older and a used database, the last with a path of votes k1 - k2 - k3
(the shortest with a node at distance two); a file that can be imported and one whose ids are
taken; replies at, above and below the thresholds; queries with depth -1 to 2; three openings and
three operations: 652,201 states.

`KnowledgeBaseProofs`, from `BaseAssump` (the databases, archives and queries are well formed:
rows refer to rows, scores are integers, limits are numbers), for any number of rows, keys
and columns:
- `TypeCorrect`: `TypeOK` is inductive; its part about references is what an import and
  an export between two reads could break.
- `MigrationsFailOnlyInRace`, from `OneOpens`: without a race one process at most is opening
  the file, and the column that it is about to add is not there.
- `LocaleIsOne`, `AssessmentsAreGrounded` and `ImportsAreWhole` are of one step each, with the types;
  `AssessmentsAreGrounded` turns the threshold of the confidence into the counts of replies
  (`ConfidenceBound`).
- `ExportsAreClosed`, from `ExportInv`: until rows are written beside it, the impacts that
  the second read will find refer to the events of the first.
- `AnswersHold`, that is `GraphAnswers`. That every link has its nodes and every limit holds
  (`Sound`) is carried through the filter, the choice of the strongest links and the
  cut of the handler (`FilteredFacts`, `LimitedFacts`). That the nodes are within the depth is
  the invariant of the breadth-first search: what it has seen, and what its queue
  has to visit at depth d, is joined to the centre by a path of at most d links
  (`VisitedWithin`). The search is a recursive function of the turn, not a RECURSIVE
  operator, and so within the prover's reach; `Links` is finite because votes are.

## 10. Where the code and its documents part

Shown by a run: `SyncLostUpdate` (section 3) and `LedgerMerge` (section 5). Met while modelling, in the models as the code
has it:

- Two nodes apart give two events the same AUTOINCREMENT id, and the later replaces the other on
  both ("Loss of connectivity ≠ loss of data", `spec/17-offline-reliability.md:50`); and a
  verdict does not spread, as it does not change the timestamp ("eventual semantic
  consistency", `:52`).
- A `reconcile` that fails on a foreign key leaves no row in `sync_logs` ("All sync operations
  logged", `spec/08-p2p-sync.md:107`).
- `reconcile` undoes its own merge of trust (`TrustMerged`), against
  `spec/17-offline-reliability.md:34`, `:40`, `spec/08-p2p-sync.md:20`, `:105` and
  `spec/11-decision-log.md:52`, and still reports the changes it has undone.
- Priorities are described as an EMA over their previous value (`spec/08-p2p-sync.md:156-158`) with a class
  of peers at 0.6 and above (`:51`, `:82`). A recount inserts 0.0 (`storage.rs:1172`) before the
  EMA reads the previous value from that row (`:441`), so that it starts from 0 each
  time: no priority is above 0.3 after a recount, or 0.44 after the blend of a
  `reconcile`, if peers send at most 1, and no peer comes into that class. The
  models have the code's formula; no property is about this bound.
- `POST /ratings/sync` and its `/api/v1` twin answer 500: `src/main.rs:108` registers a `Data<Arc<Node>>` and the
  handlers ask for a `Data<Node>` (`src/api.rs:680`, `:722`). The node's peers are one fixed
  address (`src/main.rs:91`).
- The relay rate that a merge stores is validations per judged event, unclamped, and can pass 1;
  the document has 0.0 to 1.0 (`spec/08-p2p-sync.md:136`).
- `SUM` over no rows is NULL: a recount of a database without votes fails after it has rebuilt
  `node_ratings` (`Voiced` in `SuccessIsConsistent`).
- `POST /trust_delegate` takes small deltas of either sign; its comment allows positive ones only
  (`src/api.rs:990`).
- An incremental synchronisation is refused with 400, as its header is not the one the
  handler verifies (`spec/08-p2p-sync.md:41`, `spec/16-test-plan.md:26`).
- No migration creates `judgments_ci`: a judgment registers its participant and fails.
- `GET /graph/json` with `min_priority` leaves links whose nodes were dropped, and `relay_rate` in
  `/peers/priorities` is always 0.
- An operation added to the desktop queue during a run is lost when the run ends
  (`offline.ts:160`, against `specs/002-ui-desktop-integration/spec.md:74`), and a refused one is
  never given up, as only a success raises `retryCount` (`offline.ts:150-151`, `:183`).
- Replies to questions that nobody asked raise the confidence of an assessment
  (`AssessNeedsAnswers` counts them as the code does).

## 11. Not modelled

- Signatures and encryption: a request whose signature does not verify is refused
  before the handler touches state; requests in the models are the accepted ones.
  Encryption and JNI functions are stateless.
- `truth_events.context_id`: a foreign key into `context`, which is seeded alike on all
  nodes.
- The tail of collective intelligence: consensus, reputation and leaderboard read tables
  that no migration creates, so there is no behaviour after the first statement that fails.
- `recalc_collective_truth` writes a column that nothing reads to decide anything.
- `cleanup_expired_tokens` has no caller.
- `sync_with_peer` (`sync.rs:125`) has no caller. The one request of
  `bidirectional_sync_with_peer` has one outcome in `PeerSync`; what it carries is `TruthSync`'s.
- `flush_relay_metrics` writes a priority too, in the row of `node_metrics` under the address of a peer;
  no rating has that key, so `TrustLedger` leaves it out.
- A server killed in the middle of a broadcast answers nobody, and the broadcast leaves no
  state behind; `POST /init` repeats the opening of a database that is complete.
- Ids of `progress_metrics` that clash in an import fail it like the ids of events do.
- `diagnostics` without `reset`, `verify`, `status` and the listings print.
- Desktop stores: nothing calls the `addToQueue` of `stores/sync.ts`, so its second queue stays
  empty; the other stores are optimistic lists for display.
- Themes, internationalisation, rendering, the Tauri shell, the Android client and mocks: no
  state that another part depends on. UDP discovery prints what it hears.
- A full disk or `localStorage`: `saveToStorage` swallows the error; writes of the models
  succeed, or are cut short by a kill.

## 12. Running

    tlc -config SyncEvents.cfg MCTruthSync.tla      # and SyncRows, SyncCli, SyncFaults,
                                                    # SyncLostUpdate
    tlc -config Queue.cfg MCOfflineQueue.tla
    tlc -config Ledger.cfg MCTrustLedger.tla        # and LedgerMerge
    tlc -config PeerSync.cfg MCPeerSync.tla
    tlc -config Sessions.cfg MCSessions.tla
    tlc -config NodeHome.cfg MCNodeHome.tla
    tlc -config Store.cfg MCKnowledgeBase.tla
    tlapm TruthSyncProofs.tla                       # and OfflineQueueProofs, TrustLedgerProofs,
                                                    # PeerSyncProofs, SessionsProofs, NodeHomeProofs,
                                                    # KnowledgeBaseProofs, SequenceFacts

Deadlock checking is on for `TruthSync` and `OfflineQueue`: a server's rounds never end, and a
queue can always be cleared. The five other modules count calls or commands, and stop
when the count is used up; their properties are safety properties, and they state no fairness.
