------------------------------- MODULE PeerSync -------------------------------
(***************************************************************************)
(* How one node talks to its peers as a client, and what it remembers of    *)
(* it: truthctl sync, truthctl peers sync-all and the sync command of        *)
(* app/src/cli.rs, each a process with its own RELAY_METRICS; the table      *)
(* peer_history, the relay rates of node_metrics and the journal sync_logs   *)
(* that the processes share; and broadcast_ratings of the server.           *)
(*                                                                          *)
(* A process can be killed at any point. A request is lost, refused, or      *)
(* handled; the answer to one that was handled can be lost.                 *)
(*                                                                          *)
(* Broadcasts are those of broadcast_ratings for any list of peers. As the   *)
(* server is wired no request gets that far: main.rs:108 registers a         *)
(* Data<Arc<Node>>, the two handlers ask for a Data<Node> (api.rs:680, 722), *)
(* so they answer 500; and main.rs:91 lists one fixed peer. The database has *)
(* its tables: the code ignores the errors of log_peer_sync.                *)
(***************************************************************************)
EXTENDS Integers, FiniteSets, Sequences, FiniteSetsExt, SequencesExt

CONSTANTS
    Client,     \* runs of the command line tools
    Request,    \* POST /ratings/sync, handled at the same time
    Peer,       \* addresses in peers.json
    Self,       \* the entry of peers.json with the node's own key
    PeerList,   \* peers.json, in its order
    MaxRuns,    \* bound on the runs and requests together
    MaxVersion, \* bound on the recounts of the ratings
    NoRow       \* the row does not exist

Row == [peer : Peer, succ : Nat, fail : Nat]

ASSUME PeerAssump ==
    /\ Self \in Peer
    /\ PeerList \in Seq(Peer) /\ IsInjective(PeerList)
    /\ MaxRuns \in Nat /\ MaxVersion \in Nat
    /\ NoRow \notin Row

Mode == {"full", "incremental", "push", "pull", "dry-run"}
None == [relayed |-> 0, dropped |-> 0]

VARIABLES
    history,   \* table peer_history: rows in the order of their ids
    rate,      \* node_metrics.relay_success_rate, by address, as a fraction
    synclogs,  \* table sync_logs
    memory,    \* memory[c]: RELAY_METRICS of process c
    job,       \* job[c]: what c does, the peers ahead of it, its answer
    version,   \* version of the node's ratings
    prio,      \* whether the node's own propagation priority is at least 0.6
    cast,      \* cast[r]: the broadcast of request r
    got,       \* got[p]: versions peer p has applied, in order
    runs,      \* runs and requests so far, for their bound
    ended,     \* history: answers to attempts with a peer, by outcome
    raced,     \* history: peers whose row was written between a read and a write
    cut        \* history: peers being dealt with by a process that was killed

tables == <<history, rate, synclogs>>
client == <<memory, job>>
caster == <<version, prio, cast, got>>
ghosts == <<ended, raced, cut>>
vars   == <<tables, client, caster, runs, ghosts>>

NoJob  == [kind |-> "none", mode |-> "full", todo |-> <<>>, at |-> "idle", ok |-> FALSE,
           seen |-> NoRow, id |-> 0]
NoCast == [todo |-> <<>>, order |-> <<>>, late |-> <<>>, payload |-> 0, asked |-> 0,
           answer |-> "none"]

Init ==
    /\ history = <<>>
    /\ rate = [p \in Peer |-> NoRow]
    /\ synclogs = <<>>
    /\ memory = [c \in Client |-> [p \in Peer |-> None]]
    /\ job = [c \in Client |-> NoJob]
    /\ version = 0
    /\ prio \in BOOLEAN
    /\ cast = [r \in Request |-> NoCast]
    /\ got = [p \in Peer |-> <<>>]
    /\ runs = 0
    /\ ended = [p \in Peer |-> [ok |-> 0, failed |-> 0]]
    /\ raced = {}
    /\ cut = {}

-----------------------------------------------------------------------------
(* Commands.                                                                  *)

\* A process starts, with an empty RELAY_METRICS.
Start(c, kind, mode, todo, at) ==
    /\ job[c].kind = "none"
    /\ runs < MaxRuns
    /\ runs' = runs + 1
    /\ job' = [job EXCEPT ![c] = [NoJob EXCEPT !.kind = kind, !.mode = mode, !.todo = todo,
                                               !.at = IF todo = <<>> THEN "done" ELSE at]]
    /\ UNCHANGED <<tables, memory, caster, ghosts>>

\* truthctl sync --peer
SyncOne(c, p, mode) ==
    /\ mode # "dry-run"
    /\ Start(c, "one", mode, <<p>>, "send")

\* peers sync-all leaves out the entry with its own key.
Targets == RemoveFirst(PeerList, Self)

SyncAll(c, mode) ==
    /\ mode \in {"full", "incremental"}
    /\ Start(c, "all", mode, Targets, "send")

\* peers sync-all --dry-run records a row for every entry, its own included.
DryRun(c) == Start(c, "all", "dry-run", PeerList, "log")

\* The sync command of app/src/cli.rs.
AppSync(c, pullOnly) ==
    Start(c, "app", IF pullOnly THEN "pull" ELSE "push", PeerList, "send")

-----------------------------------------------------------------------------
(* One peer after the other.                                                  *)

At(c, step) == job[c].at = step
Target(c) == Head(job[c].todo)

\* The next peer, or the end.
NextPeer(j) ==
    LET rest == Tail(j.todo) IN
    [j EXCEPT !.todo = rest, !.seen = NoRow, !.id = 0, !.ok = FALSE,
              !.at = IF rest = <<>> THEN "done" ELSE IF j.mode = "dry-run" THEN "log" ELSE "send"]

\* Slip: a failure ends sync-all too.
AfterFailureEnds(j) == IF j.ok THEN NextPeer(j) ELSE [j EXCEPT !.at = "done"]

\* What a run does after a peer: sync-all goes on, the others end at a failure (?).
After(j) == IF j.kind = "all" \/ j.ok THEN NextPeer(j) ELSE [j EXCEPT !.at = "done"]

\* What POST /sync, GET /get_data and POST /incremental_sync accept.
\* incremental_sync_with_peer sends no X-Timestamp and gets 400.
Verifies(mode) == mode # "incremental"

Tried(e, good) == IF good THEN [e EXCEPT !.ok = @ + 1] ELSE [e EXCEPT !.failed = @ + 1]

\* The request and its answer. good: the client sees a success.
Send(c) ==
    /\ At(c, "send")
    /\ \E handled, good \in BOOLEAN :
        /\ good => handled
        /\ handled => Verifies(job[c].mode)
        /\ \E status \in BOOLEAN :
            \* status: the peer answered, if only with an error
            /\ good => status
            /\ job' = [job EXCEPT ![c] =
                   CASE @.mode = "pull" -> After([@ EXCEPT !.ok = good])
                     [] @.mode = "push" /\ ~status -> After([@ EXCEPT !.ok = FALSE])
                     [] OTHER -> [@ EXCEPT !.ok = good, !.at = "record"]]
            /\ ended' = IF job[c].mode \in {"full", "incremental"}
                        THEN [ended EXCEPT ![Target(c)] = Tried(@, good)]
                        ELSE ended
    /\ UNCHANGED <<tables, memory, caster, runs, raced, cut>>

\* Slip: an outcome adds to both counters.
CountedBoth(m, ok) == [relayed |-> m.relayed + 1, dropped |-> m.dropped + 1]

Counted(m, ok) == IF ok THEN [m EXCEPT !.relayed = @ + 1] ELSE [m EXCEPT !.dropped = @ + 1]

\* record_relay_result; push_local_data returns after it.
RecordRelayResult(c) ==
    /\ At(c, "record")
    /\ memory' = [memory EXCEPT ![c][Target(c)] = Counted(@, job[c].ok)]
    /\ job' = [job EXCEPT ![c] = IF @.mode = "push" THEN After(@)
                                 ELSE [@ EXCEPT !.at = IF job[c].ok THEN "flush" ELSE "read"]]
    /\ UNCHANGED <<tables, caster, runs, ghosts>>

\* flush_relay_metrics_to_db: every address this process has an outcome for.
FlushRelayMetrics(c) ==
    /\ At(c, "flush")
    /\ rate' = [p \in Peer |-> IF memory[c][p] = None THEN rate[p] ELSE memory[c][p]]
    /\ job' = [job EXCEPT ![c].at = "read"]
    /\ UNCHANGED <<history, synclogs, memory, caster, runs, ghosts>>

\* Slip: the newest row of the table is looked at, whatever its address.
RowOfNewest(p) == IF history # <<>> /\ Last(history).peer = p THEN Len(history) ELSE 0

\* The first row of the address, 0 when there is none.
RowOf(p) == SelectInSeq(history, LAMBDA row : row.peer = p)

\* log_peer_sync, the SELECT.
ReadHistory(c) ==
    LET i == RowOf(Target(c)) IN
    /\ At(c, "read")
    /\ job' = [job EXCEPT ![c] = [@ EXCEPT !.at = "write", !.id = i,
                                           !.seen = IF i = 0 THEN NoRow ELSE history[i]]]
    /\ UNCHANGED <<tables, memory, caster, runs, ghosts>>

Bumped(row, ok) == IF ok THEN [row EXCEPT !.succ = @ + 1] ELSE [row EXCEPT !.fail = @ + 1]

\* log_peer_sync, the UPDATE by id or the INSERT.
WriteHistory(c) ==
    LET j   == job[c]
        p   == Target(c)
        new == Bumped(IF j.seen = NoRow THEN [peer |-> p, succ |-> 0, fail |-> 0] ELSE j.seen, j.ok)
    IN
    /\ At(c, "write")
    /\ history' = IF j.seen = NoRow THEN Append(history, new) ELSE [history EXCEPT ![j.id] = new]
    /\ raced' = IF \E d \in Client \ {c} : At(d, "write") /\ Target(d) = p
                THEN raced \cup {p} ELSE raced
    /\ job' = [job EXCEPT ![c] = IF @.kind = "all" THEN [@ EXCEPT !.at = "log"] ELSE After(@)]
    /\ UNCHANGED <<rate, synclogs, memory, caster, runs, ended, cut>>

\* sync-all records the outcome and goes on.
LogSyncEvent(c) ==
    LET j == job[c] IN
    /\ At(c, "log")
    /\ synclogs' = Append(synclogs, [by |-> c, peer |-> Target(c), mode |-> j.mode,
                                     status |-> IF j.mode = "dry-run" THEN "dry-run"
                                                ELSE IF j.ok THEN "success" ELSE "error"])
    /\ job' = [job EXCEPT ![c] = After(@)]
    /\ UNCHANGED <<history, rate, memory, caster, runs, ghosts>>

\* The process is killed: its RELAY_METRICS go with it.
Kill(c) ==
    /\ job[c].at \notin {"idle", "done"}
    /\ cut' = cut \cup {Target(c)}
    /\ job' = [job EXCEPT ![c] = [NoJob EXCEPT !.kind = "gone", !.at = "done"]]
    /\ memory' = [memory EXCEPT ![c] = [p \in Peer |-> None]]
    /\ UNCHANGED <<tables, caster, runs, ended, raced>>

-----------------------------------------------------------------------------
(* broadcast_ratings: the ratings are read once; then the mutex is taken anew  *)
(* for the priority of each peer, which is always the node's own.             *)

Recount ==
    /\ version < MaxVersion
    /\ version' = version + 1
    /\ prio' \in BOOLEAN
    /\ UNCHANGED <<tables, client, cast, got, runs, ghosts>>

\* What ratings_sync does once it is handed the Node.
RatingsSync(r) ==
    /\ cast[r] = NoCast
    /\ runs < MaxRuns
    /\ runs' = runs + 1
    /\ cast' = [cast EXCEPT ![r] = [NoCast EXCEPT !.todo = PeerList, !.payload = version,
                                                  !.asked = version, !.answer = "rank"]]
    /\ UNCHANGED <<tables, client, version, prio, got, ghosts>>

\* A peer is ranked by the priority of this moment.
RankPeer(r) ==
    LET b == cast[r] IN
    /\ b.answer = "rank" /\ b.todo # <<>>
    /\ cast' = [cast EXCEPT ![r] = [b EXCEPT !.todo = Tail(@),
                   !.order = IF prio THEN Append(@, Head(b.todo)) ELSE @,
                   !.late  = IF prio THEN @ ELSE Append(@, Head(b.todo))]]
    /\ UNCHANGED <<tables, client, version, prio, got, runs, ghosts>>

\* A stable sort by falling priority.
SortPeers(r) ==
    LET b == cast[r] IN
    /\ b.answer = "rank" /\ b.todo = <<>>
    /\ cast' = [cast EXCEPT ![r] = [b EXCEPT !.todo = b.order \o b.late, !.order = <<>>,
                                             !.late = <<>>, !.answer = "post"]]
    /\ UNCHANGED <<tables, client, version, prio, got, runs, ghosts>>

\* Slip: the status of the answer is not looked at.
PostedAnyway(b, good) == [b EXCEPT !.todo = Tail(@),
                                   !.answer = IF Len(b.todo) = 1 THEN "ok" ELSE @]

\* The first failure is the answer.
Posted(b, good) ==
    IF ~good THEN [b EXCEPT !.answer = "error"]
    ELSE [b EXCEPT !.todo = Tail(@), !.answer = IF Len(b.todo) = 1 THEN "ok" ELSE @]

\* Slip: what is sent is read again for each peer.
PayloadNow(b) == version

Payload(b) == b.payload

PostRatings(r) ==
    LET b == cast[r] IN
    /\ b.answer = "post" /\ b.todo # <<>>
    /\ \E handled, good \in BOOLEAN :
        /\ good => handled
        /\ got' = IF handled THEN [got EXCEPT ![Head(b.todo)] = Append(@, [by |-> r, version |-> Payload(b)])]
                  ELSE got
        /\ cast' = [cast EXCEPT ![r] = Posted(b, good)]
    /\ UNCHANGED <<tables, client, version, prio, runs, ghosts>>

Next ==
    \/ \E c \in Client :
        \/ \E p \in Peer : \E mode \in Mode : SyncOne(c, p, mode)
        \/ \E mode \in Mode : SyncAll(c, mode)
        \/ DryRun(c)
        \/ \E pullOnly \in BOOLEAN : AppSync(c, pullOnly)
        \/ Send(c) \/ RecordRelayResult(c) \/ FlushRelayMetrics(c) \/ ReadHistory(c)
        \/ WriteHistory(c) \/ LogSyncEvent(c) \/ Kill(c)
    \/ Recount
    \/ \E r \in Request : RatingsSync(r) \/ RankPeer(r) \/ SortPeers(r) \/ PostRatings(r)

Spec == Init /\ [][Next]_vars

-----------------------------------------------------------------------------
(* What the views of the history show.                                        *)

\* get_peer_summary: every row is taken for a peer.
PeerSummary ==
    LET share(row) == IF row.succ + row.fail = 0 THEN 0 ELSE (100 * row.succ) \div (row.succ + row.fail)
    IN [peers |-> Len(history),
        success |-> IF history = <<>> THEN 0
                    ELSE SumFunction([i \in DOMAIN history |-> share(history[i])]) \div Len(history)]

Seen(p) == {i \in DOMAIN history : history[i].peer = p}
Successes(p) == SumFunctionOnSet([i \in DOMAIN history |-> history[i].succ], Seen(p))
Failures(p)  == SumFunctionOnSet([i \in DOMAIN history |-> history[i].fail], Seen(p))

\* Outcomes on their way into the history.
Pending(p, ok) ==
    Cardinality({c \in Client :
        /\ job[c].at \in {"record", "flush", "read", "write"}
        /\ job[c].mode \in {"full", "incremental"}
        /\ Target(c) = p /\ job[c].ok = ok})

-----------------------------------------------------------------------------
(* Properties.                                                                *)

Tally == [relayed : Nat, dropped : Nat]
Job == [kind : {"none", "one", "all", "app", "gone"}, mode : Mode, todo : Seq(Peer),
        at : {"idle", "send", "record", "flush", "read", "write", "log", "done"},
        ok : BOOLEAN, seen : Row \cup {NoRow}, id : Nat]
LogRow == [by : Client, peer : Peer, mode : Mode, status : {"success", "error", "dry-run"}]
Broadcast == [todo : Seq(Peer), order : Seq(Peer), late : Seq(Peer), payload : Nat,
              asked : Nat, answer : {"none", "rank", "post", "ok", "error"}]

\* The columns of the tables, and the shape of the processes and requests: a process
\* between its first and its last step has a peer to deal with.
TypeOK ==
    /\ history \in Seq(Row) /\ rate \in [Peer -> Tally \cup {NoRow}] /\ synclogs \in Seq(LogRow)
    /\ memory \in [Client -> [Peer -> Tally]] /\ job \in [Client -> Job]
    /\ \A c \in Client : job[c].at \notin {"idle", "done"} => job[c].todo # <<>>
    /\ version \in Nat /\ prio \in BOOLEAN /\ cast \in [Request -> Broadcast]
    /\ got \in [Peer -> Seq([by : Request, version : Nat])]
    /\ runs \in Nat /\ ended \in [Peer -> [ok : Nat, failed : Nat]]
    /\ raced \subseteq Peer /\ cut \subseteq Peer

\* log_peer_sync reads the counters in one statement and writes them in another:
\* the history never counts an attempt that was not made or one twice, and it
\* misses one only if two processes were in between those statements for the same
\* peer, or one was killed on the way. peer_history has no UNIQUE(peer_url): without
\* such a race the summary still counts each peer once.
HistoryCounts ==
    /\ raced = {} => /\ PeerSummary.peers = Cardinality({p \in Peer : Seen(p) # {}})
                     /\ PeerSummary.success \in 0..100
    /\ \A p \in Peer :
        /\ Successes(p) + Pending(p, TRUE) <= ended[p].ok
        /\ Failures(p) + Pending(p, FALSE) <= ended[p].failed
        /\ p \notin raced \cup cut =>
            /\ Successes(p) + Pending(p, TRUE) = ended[p].ok
            /\ Failures(p) + Pending(p, FALSE) = ended[p].failed

\* RELAY_METRICS lives as long as one command, which tries each peer once: the
\* relay rate that reaches node_metrics is the outcome of one attempt, all or
\* nothing, whatever the peer did before.
RateIsOneAttempt ==
    \A p \in Peer : rate[p] # NoRow => rate[p].relayed + rate[p].dropped = 1

\* The records of process c, and the order of peers.json.
RecordsOf(c)  == {i \in DOMAIN synclogs : synclogs[i].by = c}
Earlier(p, q) == \E i, k \in DOMAIN PeerList : i < k /\ PeerList[i] = p /\ PeerList[k] = q

\* sync-all that is not killed tries every entry but the node's own, in order and
\* none of them twice, and records each outcome, however many peers fail on the way.
SyncAllReachesEveryone ==
    \A c \in Client :
        job[c].kind = "all" /\ job[c].mode # "dry-run" /\ At(c, "done") =>
            /\ {synclogs[i].peer : i \in RecordsOf(c)} = ToSet(PeerList) \ {Self}
            /\ \A i, k \in RecordsOf(c) : i < k => Earlier(synclogs[i].peer, synclogs[k].peer)

\* The peers that have applied what request r sends.
Reached(r) == {p \in Peer : \E i \in DOMAIN got[p] : got[p][i].by = r}

\* broadcast_ratings returns Ok, and POST /ratings/sync would answer "broadcasted",
\* when every peer has applied the ratings; after an error the peers before the
\* failing one have, the ones after it have not.
AnswerTells ==
    \A r \in Request :
        /\ cast[r].answer = "ok" => Reached(r) = ToSet(PeerList)
        /\ cast[r].answer \in {"post", "error"} =>
            /\ ToSet(PeerList) \ ToSet(cast[r].todo) \subseteq Reached(r)
            /\ Reached(r) \cap ToSet(Tail(cast[r].todo)) = {}

\* A broadcast sends one snapshot: however long the delays of peers of low priority
\* are and whatever is recounted meanwhile, every peer gets the same ratings, those
\* of the moment it was asked for.
OneSnapshot ==
    \A p \in Peer : \A i \in DOMAIN got[p] : got[p][i].version = cast[got[p][i].by].asked

=============================================================================
