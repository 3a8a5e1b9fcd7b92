------------------------------ MODULE TrustLedger ------------------------------
(***************************************************************************)
(* The ratings of one node's database: node_ratings, group_ratings,         *)
(* node_metrics and users, the recount of storage.rs (recalc_ratings), the  *)
(* merge of a peer's ratings (merge_ratings, trust_propagation.rs and the    *)
(* end of reconcile), and the handlers that start them or change users.     *)
(*                                                                          *)
(* A call is a sequence of statements that SQLite commits one by one.  The  *)
(* server runs a call under the mutex of the DbPool; truthctl is a second   *)
(* process on the same file.  Either can be killed between two statements.  *)
(* A loop over rows is one step here, although each of its statements is a  *)
(* transaction of its own: a kill, or a step of the other process, between  *)
(* two rows of insert, refresh, mirror, propagate, metrics or blend is left *)
(* out.  The properties speak of calls that were neither cut short nor      *)
(* beside another one, or of single rows.                                   *)
(*                                                                          *)
(* A score is an integer number of 1/Unit; divisions round down.            *)
(***************************************************************************)
EXTENDS Integers, FiniteSets, Sequences, FiniteSetsExt

CONSTANTS
    Key,        \* public keys: node_id, pubkey
    EventId,    \* ids of truth_events
    Average,    \* averages of the truth scores of an event's statements
    MaxVotes,   \* bound on the rows of impact
    Unit,       \* the score 1.0
    Batch,      \* the ratings a peer may send
    Role,       \* roles of users
    Delta,      \* the steps of trust that may be delegated
    MaxCalls,   \* bound on the calls of several statements
    MaxEdits,   \* bound on the calls of one statement
    Process,    \* the processes that open the database
    Unsigned,   \* public_key is NULL
    NoRow       \* the row does not exist

ASSUME LedgerAssump ==
    /\ Unit \in Nat \ {0} /\ Unit % 10 = 0
    /\ Average \subseteq -Unit..Unit /\ IsFiniteSet(EventId)
    /\ MaxVotes \in Nat /\ MaxCalls \in Nat /\ MaxEdits \in Nat
    /\ Process \subseteq {"server", "cli"}
    /\ "observer" \in Role
    /\ Delta \subseteq Int
    /\ Unsigned \notin Key /\ NoRow \notin Key \cup Average

Vote == [by : Key \cup {Unsigned}, ev : EventId, value : BOOLEAN]

\* NULL is no score and no row.
ASSUME NoRowAssump ==
    /\ NoRow \notin Int /\ NoRow \notin [role : Role, trust : Int]
    /\ NoRow \notin [et : Nat, ef : Nat, val : Nat, reused : Nat, trust : Int, prio : Int]
    /\ NoRow \notin [relay : Nat, quality : Int, prio : Int]

ASSUME VotesFinite == IsFiniteSet(Vote)

\* A batch has ratings and metrics for some keys, and a row of the global group. Scores
\* of a peer may have any value.
\* Row types, last_updated and last_seen left out where nothing compares them.
ASSUME BatchAssump ==
    \A b \in Batch :
        /\ \A k \in DOMAIN b.ratings :
              b.ratings[k] \in [et : Nat, ef : Nat, val : Nat, reused : Nat, trust : Int, prio : Int]
        /\ b.group # NoRow => b.group.row.members \subseteq Key /\ b.group.ts \in Nat
        /\ \A k \in DOMAIN b.metrics : b.metrics[k] \in [quality : Int, prio : Int]

-----------------------------------------------------------------------------
(* The statements of a call, in their order. A loop over rows is one step.    *)

\* Slip: the users are mirrored before the scores are clamped.
RecountMirrorsEarly == <<"delete", "insert", "mirror", "clamp", "refresh", "group">>

\* Slip: the group is summed up before the priorities are refreshed.
RecountGroupsFirst == <<"delete", "insert", "clamp", "group", "refresh", "mirror">>

Recount   == <<"delete", "insert", "clamp", "refresh", "group", "mirror">>
Merge     == <<"propagate", "refresh", "newerGroup", "mirror", "metrics">>

Reconcile == Merge \o Recount \o <<"blend">>

VARIABLES
    author,    \* author[e]: public_key of an event
    score,     \* score[e]: AVG(truth_score) of its statements, NoRow when none
    votes,     \* table impact
    ratings,   \* table node_ratings
    group,     \* row 'global' of group_ratings
    metrics,   \* table node_metrics
    users,     \* table users
    progress,  \* the newest row of progress_metrics
    job,       \* job[p]: the call process p runs, and the answer of its last one
    spent,     \* calls and edits so far, for their bounds
    alone,     \* history: nothing else ran since the calls in flight began
    faulty     \* history: a call was killed, or was not alone

rows   == <<author, score, votes>>
tables == <<ratings, group, metrics, users, progress>>
vars   == <<rows, tables, job, spent, alone, faulty>>

IdleJob == [kind |-> "none", todo |-> <<>>, batch |-> NoRow, answer |-> "none"]

\* A database with rows and nothing counted yet.
Init ==
    /\ author \in [EventId -> Key \cup {Unsigned, NoRow}]
    /\ score \in [EventId -> Average \cup {NoRow}]
    /\ votes \in {s \in SUBSET Vote : Cardinality(s) <= MaxVotes}
    /\ \A e \in EventId : score[e] # NoRow => author[e] # NoRow
    /\ \A v \in votes : author[v.ev] # NoRow
    /\ ratings = [k \in Key |-> NoRow]
    /\ group = NoRow
    /\ metrics = [k \in Key |-> NoRow]
    /\ users = [k \in Key |-> NoRow]
    /\ progress = NoRow
    /\ job = [p \in Process |-> IdleJob]
    /\ spent = [calls |-> 0, edits |-> 0]
    /\ alone = TRUE
    /\ faulty = FALSE

\* Every call begins in a second of its own.
Now == spent.calls

Idle(p) == job[p].todo = <<>>

\* web::block(|| pool.blocking_lock()): a handler waits for the mutex.
Unlocked == "server" \in Process => Idle("server")

Rows(table) == {k \in Key : table[k] # NoRow}

-----------------------------------------------------------------------------
(* The formulas of trust_propagation.rs.                                      *)

Clamp(x, low, high) == IF x < low THEN low ELSE IF x > high THEN high ELSE x

BlendTrust(local, remote) == Clamp((8 * local + 2 * remote) \div 10, -Unit, Unit)

BlendQuality(local, remote) == Clamp((8 * local + 2 * remote) \div 10, 0, Unit)

BlendPriority(local, remote) == Clamp((8 * local + 2 * remote) \div 10, 0, Unit)

\* 0.3 of the new value and 0.7 of the previous one, if there is one.
Smoothed(raw, prev) ==
    IF prev = NoRow THEN raw ELSE Clamp((3 * raw + 7 * prev) \div 10, 0, Unit)

QualityIndex(relay, conflictFree, stability, prev) ==
    Smoothed(Clamp((5 * relay + 3 * conflictFree + 2 * stability) \div 10, 0, Unit), prev)

PropagationPriority(trust, quality, relay, prev) ==
    LET norm == Clamp((trust + Unit) \div 2, 0, Unit) IN
    Smoothed(Clamp((4 * norm + 3 * Clamp(quality, 0, Unit) + 3 * Clamp(relay, 0, Unit))
                     \div 10, 0, Unit), prev)

-----------------------------------------------------------------------------
(* What a recount counts.                                                     *)

Rated == ({author[e] : e \in EventId} \cup {v.by : v \in votes}) \cap Key

EventsTrue(k) ==
    Cardinality({e \in EventId : author[e] = k /\ score[e] # NoRow /\ 2 * score[e] >= Unit})

EventsFalse(k) ==
    Cardinality({e \in EventId : author[e] = k /\ score[e] # NoRow /\ 2 * score[e] <= -Unit})

Validations(k) == Cardinality({v \in votes : v.by = k})

\* The events of k that another key has confirmed.
Reused(k) ==
    Cardinality({e \in EventId :
        /\ author[e] = k
        /\ \E v \in votes : v.ev = e /\ v.value /\ v.by \in Key \ {k}})

RawTrust(k) ==
    LET n == EventsTrue(k) + EventsFalse(k) IN
    IF n = 0 THEN 0
    ELSE (Unit * (EventsTrue(k) - EventsFalse(k)) + (Unit \div 5) * Reused(k)) \div n

Counted(k) == [et |-> EventsTrue(k), ef |-> EventsFalse(k), val |-> Validations(k),
               reused |-> Reused(k), trust |-> RawTrust(k), prio |-> 0]

\* The trust column, and its mean over the rated nodes.
TrustColumn(table) == [k \in Rows(table) |-> table[k].trust]

MeanOf(f) ==
    IF DOMAIN f = {} THEN 0
    ELSE MapThenSumSet(LAMBDA k : f[k], DOMAIN f) \div Cardinality(DOMAIN f)

MeanTrust(table) == MeanOf(TrustColumn(table))

\* The votes that coherence is computed over, and those that agree with the scores.
Voiced  == {v \in votes : v.by # Unsigned /\ score[v.ev] # NoRow}
Agreeing == {v \in Voiced : v.value = (score[v.ev] >= 0)}

-----------------------------------------------------------------------------
(* Calls.                                                                     *)

At(p, step) == ~Idle(p) /\ Head(job[p].todo) = step

\* The statement is done; after the last one the caller is told so.
Advance(p) ==
    job' = [job EXCEPT ![p] = IF Len(@.todo) = 1 THEN [IdleJob EXCEPT !.answer = "ok"]
                              ELSE [job[p] EXCEPT !.todo = Tail(@)]]

\* A statement fails and ? takes the error to the caller.
Abort(p) == job' = [job EXCEPT ![p] = [IdleJob EXCEPT !.answer = "error"]]

\* A call begins: beside another one or not.
Overlap(busy) == alone' = ~busy /\ faulty' = (faulty \/ busy)

Begin(p, kind, steps, batch) ==
    /\ Idle(p)
    /\ job' = [job EXCEPT ![p] = [kind |-> kind, todo |-> steps, batch |-> batch,
                                  answer |-> "none"]]
    /\ spent.calls < MaxCalls /\ spent' = [spent EXCEPT !.calls = @ + 1]
    /\ Overlap(\E q \in Process : ~Idle(q))
    /\ UNCHANGED <<rows, tables>>

\* POST /detect: set_event_detected, which is no row of this module, and a recount.
DetectEvent == "server" \in Process /\ Begin("server", "recount", Recount, NoRow)

\* POST /recalc_ratings and the recount ahead of GET /graph/json.
RecalcRatings == "server" \in Process /\ Begin("server", "recount", Recount, NoRow)

\* POST /recalc and POST /api/v1/recalc.
RecalcMetrics ==
    "server" \in Process /\ Begin("server", "metrics", <<"progress">> \o Recount, NoRow)

\* GET /ratings/nodes and GET /ratings/groups count when the table is empty.
GetNodeRatings ==
    "server" \in Process /\ Rows(ratings) = {} /\ Begin("server", "recount", Recount, NoRow)

GetGroupRatings ==
    "server" \in Process /\ group = NoRow /\ Begin("server", "recount", Recount, NoRow)

\* truthctl ratings --recalc.
RunRatings == "cli" \in Process /\ Begin("cli", "recount", Recount, NoRow)

\* reconcile once its row loops are done: POST /sync, POST /incremental_sync,
\* and truthctl sync --mode pull.
ReconcileRatings(p, batch) == Begin(p, "reconcile", Reconcile, batch)

-----------------------------------------------------------------------------
(* recalc_ratings.                                                            *)

Delete(p) ==
    /\ At(p, "delete")
    /\ ratings' = [k \in Key |-> NoRow]
    /\ Advance(p)
    /\ UNCHANGED <<group, metrics, users, progress>>

\* A plain INSERT: a row that another process has put there fails it.
Insert(p) ==
    /\ At(p, "insert")
    /\ IF Rows(ratings) \cap Rated = {}
       THEN /\ ratings' = [k \in Key |-> IF k \in Rated THEN Counted(k) ELSE ratings[k]]
            /\ Advance(p)
       ELSE /\ Abort(p)
            /\ UNCHANGED ratings
    /\ UNCHANGED <<group, metrics, users, progress>>

ClampScores(p) ==
    /\ At(p, "clamp")
    /\ ratings' = [k \in Key |-> IF ratings[k] = NoRow THEN NoRow
                                 ELSE [ratings[k] EXCEPT !.trust = Clamp(@, -Unit, Unit)]]
    /\ Advance(p)
    /\ UNCHANGED <<group, metrics, users, progress>>

Metric(k) == IF metrics[k] = NoRow THEN [relay |-> 0, quality |-> 0, prio |-> 0] ELSE metrics[k]

\* The previous priority is the one of node_ratings, 0 after an insert.
NextPriority(k) ==
    PropagationPriority(ratings[k].trust, Metric(k).quality, Metric(k).relay, ratings[k].prio)

RefreshPriority(p) ==
    /\ At(p, "refresh")
    /\ ratings' = [k \in Key |-> IF ratings[k] = NoRow THEN NoRow
                                 ELSE [ratings[k] EXCEPT !.prio = NextPriority(k)]]
    /\ metrics' = [k \in Key |-> IF ratings[k] = NoRow THEN metrics[k]
                                 ELSE [Metric(k) EXCEPT !.prio = NextPriority(k)]]
    /\ Advance(p)
    /\ UNCHANGED <<group, users, progress>>

Coherence == (Unit * Cardinality(Agreeing)) \div Cardinality(Voiced)

Summary == [members |-> Rows(ratings), avg |-> MeanTrust(ratings), coherence |-> Coherence]

\* Slip: without votes the group is left as it is.
UpdateGroupOfVoted(p) ==
    /\ At(p, "group")
    /\ group' = IF Voiced = {} THEN group ELSE [row |-> Summary, ts |-> Now]
    /\ Advance(p)
    /\ UNCHANGED <<ratings, metrics, users, progress>>

\* SUM over no rows is NULL and is read as an integer: the call fails when no
\* signed vote is about an event with a scored statement.
UpdateGroup(p) ==
    /\ At(p, "group")
    /\ IF Voiced = {}
       THEN Abort(p) /\ UNCHANGED group
       ELSE group' = [row |-> Summary, ts |-> Now] /\ Advance(p)
    /\ UNCHANGED <<ratings, metrics, users, progress>>

\* Slip: the role is written too.
MirroredAsObserver(k) == [role |-> "observer", trust |-> ratings[k].trust]

Mirrored(k) == [role |-> IF users[k] = NoRow THEN "observer" ELSE users[k].role,
                trust |-> ratings[k].trust]

\* sync_users_with_node_ratings
MirrorUsers(p) ==
    /\ At(p, "mirror")
    /\ users' = [k \in Key |-> IF ratings[k] = NoRow THEN users[k] ELSE Mirrored(k)]
    /\ Advance(p)
    /\ UNCHANGED <<ratings, group, metrics, progress>>

-----------------------------------------------------------------------------
(* merge_ratings and the end of reconcile.                                    *)

\* propagate_from_remote, for a key with a row and for one without.
Blended(k, remote) ==
    IF ratings[k] = NoRow
    THEN [et |-> remote.et, ef |-> remote.ef, val |-> remote.val, reused |-> remote.reused,
          trust |-> BlendTrust(0, remote.trust), prio |-> 0]
    ELSE [et     |-> Max({ratings[k].et, remote.et}),
          ef     |-> Max({ratings[k].ef, remote.ef}),
          val    |-> Max({ratings[k].val, remote.val}),
          reused |-> Max({ratings[k].reused, remote.reused}),
          trust  |-> BlendTrust(ratings[k].trust, remote.trust),
          prio   |-> ratings[k].prio]

Propagate(p) ==
    LET remote == job[p].batch.ratings IN
    /\ At(p, "propagate")
    /\ ratings' = [k \in Key |-> IF k \in DOMAIN remote THEN Blended(k, remote[k]) ELSE ratings[k]]
    /\ Advance(p)
    /\ UNCHANGED <<group, metrics, users, progress>>

NewerGroup(p) ==
    LET remote == job[p].batch.group IN
    /\ At(p, "newerGroup")
    /\ group' = IF remote # NoRow /\ (group = NoRow \/ remote.ts > group.ts) THEN remote ELSE group
    /\ Advance(p)
    /\ UNCHANGED <<ratings, metrics, users, progress>>

\* The relay rate is validations per judged event and is stored unclamped.
MergedMetric(k, r) ==
    LET judged   == r.et + r.ef
        relay    == IF r.val > 0 THEN (Unit * r.val) \div Max({judged, 1}) ELSE 0
        peaceful == IF judged > 0 THEN (Unit * r.et) \div judged ELSE Unit
        before   == metrics[k]
        quality  == QualityIndex(Clamp(relay, 0, Unit), peaceful, Unit,
                                 IF before = NoRow THEN NoRow ELSE before.quality)
    IN [relay   |-> relay,
        quality |-> quality,
        prio    |-> PropagationPriority(r.trust, quality, relay,
                                        IF before = NoRow THEN NoRow ELSE before.prio)]

MergeMetrics(p) ==
    LET remote == job[p].batch.ratings IN
    /\ At(p, "metrics")
    /\ metrics' = [k \in Key |-> IF k \in DOMAIN remote THEN MergedMetric(k, remote[k]) ELSE metrics[k]]
    /\ Advance(p)
    /\ UNCHANGED <<ratings, group, users, progress>>

\* update_node_quality and update_node_priority for each metric received.
BlendMetrics(p) ==
    LET remote == job[p].batch.metrics
        prio(k) == BlendPriority(Metric(k).prio, remote[k].prio)
    IN
    /\ At(p, "blend")
    /\ metrics' = [k \in Key |->
           IF k \notin DOMAIN remote THEN metrics[k]
           ELSE [relay |-> Metric(k).relay, prio |-> prio(k),
                 quality |-> BlendQuality(Metric(k).quality, remote[k].quality)]]
    /\ ratings' = [k \in Key |->
           IF k \notin DOMAIN remote \/ ratings[k] = NoRow THEN ratings[k]
           ELSE [ratings[k] EXCEPT !.prio = prio(k)]]
    /\ Advance(p)
    /\ UNCHANGED <<group, users, progress>>

\* recalc_progress_metrics
ProgressRow(p) ==
    LET yes == Cardinality({v \in votes : v.value})
        no  == Cardinality({v \in votes : ~v.value})
        all == Cardinality({e \in EventId : author[e] # NoRow})
    IN
    /\ At(p, "progress")
    /\ progress' = [events |-> all, yes |-> yes, no |-> no, trend |-> (Unit * (yes - no)) \div Max({all, 1})]
    /\ Advance(p)
    /\ UNCHANGED <<ratings, group, metrics, users>>

Statement(p) ==
    /\ \/ Delete(p) \/ Insert(p) \/ ClampScores(p) \/ RefreshPriority(p) \/ UpdateGroup(p)
       \/ MirrorUsers(p) \/ Propagate(p) \/ NewerGroup(p) \/ MergeMetrics(p) \/ BlendMetrics(p)
       \/ ProgressRow(p)
    /\ UNCHANGED <<rows, spent, alone, faulty>>

-----------------------------------------------------------------------------
(* Handlers of one statement each, and the rows the recount reads.            *)

Busy == \E p \in Process : ~Idle(p)

\* A handler of the server, while truthctl may be in a call.
Handler ==
    /\ Unlocked
    /\ alone' = (alone /\ ~Busy)
    /\ faulty' = (faulty \/ Busy)
    /\ spent.edits < MaxEdits /\ spent' = [spent EXCEPT !.edits = @ + 1]
    /\ UNCHANGED job

\* POST /api/v1/users/role
UsersRole(k, role) ==
    /\ Handler
    /\ users' = [users EXCEPT ![k] = [role |-> role, trust |-> IF @ = NoRow THEN 0 ELSE @.trust]]
    /\ UNCHANGED <<rows, ratings, group, metrics, progress>>

\* adjust_trust_score inserts the user when there is none.
AdjustedTrust(k, d) ==
    LET old == IF users[k] = NoRow THEN [role |-> "observer", trust |-> 0] ELSE users[k]
    IN [old EXCEPT !.trust = Clamp(@ + d, -Unit, Unit)]

\* Slip: a step down is not limited.
AllowedDown(by, k, d) == by # k /\ 5 * d <= Unit

Allowed(by, k, d) == by # k /\ 5 * d \in -Unit..Unit

\* POST /api/v1/trust/delegate
TrustDelegate(by, k, d) ==
    /\ Handler
    /\ Allowed(by, k, d)
    /\ users' = [users EXCEPT ![k] = AdjustedTrust(k, d)]
    /\ UNCHANGED <<rows, ratings, group, metrics, progress>>

AddEvent(e, k) ==
    /\ Handler
    /\ author[e] = NoRow
    /\ author' = [author EXCEPT ![e] = k]
    /\ UNCHANGED <<score, votes, tables>>

\* A statement is added or its score set: the average of the event moves.
ScoreEvent(e, avg) ==
    /\ Handler
    /\ author[e] # NoRow
    /\ score' = [score EXCEPT ![e] = avg]
    /\ UNCHANGED <<author, votes, tables>>

AddImpact(v) ==
    /\ Handler
    /\ author[v.ev] # NoRow
    /\ Cardinality(votes) < MaxVotes
    /\ votes' = votes \cup {v}
    /\ UNCHANGED <<author, score, tables>>

\* The process ends between two statements and starts again.
Kill(p) ==
    /\ ~Idle(p)
    /\ job' = [job EXCEPT ![p] = IdleJob]
    /\ faulty' = TRUE
    /\ UNCHANGED <<rows, tables, spent, alone>>

Next ==
    \/ DetectEvent \/ RecalcRatings \/ RecalcMetrics \/ GetNodeRatings \/ GetGroupRatings
    \/ RunRatings
    \/ \E p \in Process :
        \/ \E b \in Batch : ReconcileRatings(p, b)
        \/ Statement(p)
        \/ Kill(p)
    \/ \E k \in Key : \E role \in Role : UsersRole(k, role)
    \/ \E by, k \in Key : \E d \in Delta : TrustDelegate(by, k, d)
    \/ \E e \in EventId : \E k \in Key \cup {Unsigned} : AddEvent(e, k)
    \/ \E e \in EventId : \E avg \in Average : ScoreEvent(e, avg)
    \/ \E v \in Vote : AddImpact(v)

Spec == Init /\ [][Next]_vars

-----------------------------------------------------------------------------
(* Properties.                                                                *)

Share == 0..Unit
Trust == -Unit..Unit

\* Every row has the columns of its table: a part of ScoresInRange.
TypeOK ==
    /\ author \in [EventId -> Key \cup {Unsigned, NoRow}]
    /\ score \in [EventId -> Average \cup {NoRow}]
    /\ votes \subseteq Vote
    /\ \A k \in Rows(ratings) : /\ {ratings[k].et, ratings[k].ef, ratings[k].reused} \subseteq Nat
                                /\ ratings[k].val \in Nat /\ ratings[k].trust \in Int
    /\ group # NoRow => group.row.members \subseteq Key /\ group.ts \in Nat
    /\ \A k \in Rows(metrics) : metrics[k].relay \in Nat
    /\ \A k \in Rows(users) : users[k].role \in Role
    /\ \A p \in Process : job[p].answer \in {"none", "ok", "error"}
    /\ alone \in BOOLEAN /\ faulty \in BOOLEAN

\* A trust stored for a user, or for a node outside a recount, is in [-1, 1], and
\* a quality or a priority in [0, 1]: the raw score of a node, which its reused
\* events can push past 1, is seen by nobody before it is clamped, unless a call
\* is killed or two calls overlap. (A relay rate is not bounded by 1.)
ScoresInRange ==
    /\ TypeOK
    /\ ~faulty =>
        /\ \A k \in Rows(users) : users[k].trust \in Trust
        /\ \A k \in Rows(metrics) : metrics[k].quality \in Share /\ metrics[k].prio \in Share
        /\ \A k \in Rows(ratings) :
            /\ ratings[k].prio \in Share
            /\ ratings[k].trust \in Trust \/ \E p \in Process : At(p, "clamp")

\* recalc_ratings throws the table of ratings away and mirrors the new one into
\* users: whatever it counts, and wherever it is cut short, no user is lost and
\* no role changes but by POST /api/v1/users/role.
RolesSurvive ==
    [][\A k \in Rows(users) :
        /\ users'[k] # NoRow
        /\ users'[k].role # users[k].role => UsersRole(k, users'[k].role)]_vars

\* Delegations move a trust by at most 0.2 each, in either direction and whatever
\* came before; any larger move is the rating of that node being mirrored, or brings
\* back a trust that a call cut short had left outside of [-1, 1].
DelegationBounded ==
    [][\A k \in Rows(users) : users[k].trust \in Trust =>
        \/ 5 * (users'[k].trust - users[k].trust) \in -Unit..Unit
        \/ ratings[k] # NoRow /\ users'[k].trust = ratings[k].trust]_vars

\* A recount or a merge that answers ok and had the database to itself leaves the
\* tables in agreement: the group sums up the ratings, a rated node has its trust
\* in users, and progress counted the votes. It repairs what a kill left behind.
SuccessIsConsistent ==
    [][\A p \in Process :
        job'[p].answer = "ok" /\ job[p].answer = "none" /\ alone =>
            /\ Voiced # {}
            /\ group'.row.members = Rows(ratings') /\ group'.row.avg = MeanTrust(ratings')
            /\ group'.row.coherence = Coherence
            /\ \A k \in Rows(ratings') : users'[k].trust = ratings'[k].trust
            /\ job[p].kind = "metrics" => progress'.yes + progress'.no = Cardinality(votes)]_vars

\* The priority of a node is stored twice, in node_ratings and in node_metrics (as a
\* duplicate, spec/08-p2p-sync.md:159), by two statements each time, and a merge sets
\* only the second. When a call that had
\* the database to itself is over, with success or with an error half way, both
\* tables have the same one, whatever a call cut short before it has left.
PrioritiesAgree ==
    [][\A p \in Process :
        job'[p].answer # "none" /\ job[p].answer = "none" /\ alone =>
            \A k \in Rows(ratings') : /\ metrics'[k] # NoRow
                                      /\ ratings'[k].prio = metrics'[k].prio]_vars

\* Documented, and not so: a reconcile blends the trust of the peer into this node's
\* ratings (spec/17-offline-reliability.md:34, spec/11-decision-log.md:52), so that a
\* node the peer trusts less than this node's own rows do ends up below their count.
\* The recount at the end of reconcile counts the ratings from those rows alone.
TrustMerged ==
    [][\A p \in Process :
        job[p].kind = "reconcile" /\ job'[p].answer = "ok" /\ alone /\ ~faulty =>
            \A k \in DOMAIN job[p].batch.ratings :
                LET own == Clamp(RawTrust(k), -Unit, Unit) IN
                job[p].batch.ratings[k].trust < own =>
                    ratings'[k] # NoRow /\ ratings'[k].trust < own]_vars

=============================================================================
