----------------------------- MODULE KnowledgeBase -----------------------------
(***************************************************************************)
(* The local database from its file up: processes open it, create and       *)
(* migrate its tables, seed the reference tables and then record, assess,    *)
(* export, import and query events. The server opens it once, seeds it in    *)
(* Russian and stays; truth-training (app/src/main.rs) opens it for each      *)
(* command. Either can be killed between two statements.                     *)
(*                                                                          *)
(* Texts, timestamps and progress_metrics are left out.                      *)
(***************************************************************************)
EXTENDS TrustGraph

CONSTANTS
    Key,       \* public keys
    MaxEvent,  \* bound on the ids of truth_events
    VoteId,    \* ids of impact
    Column,    \* the columns run_migrations adds, in its order
    Database,  \* databases there may be at first
    Archive,   \* files of other databases that may be imported
    Question,  \* the number of questions_for_context
    Reply,     \* numbers of answers: of use, unknown, and to no question
    Trust,     \* trust scores a recount may come to
    Query,     \* parameters of GET /graph/json
    MaxRuns,   \* bound on the times a process opens the database
    MaxOps,    \* bound on the operations
    NoRow      \* the row, or the file, does not exist

EventId == 1..MaxEvent
Proc    == {"server", "app"}
Locale  == {"ru", "en"}
Table   == <<"category", "cause", "develop", "effect", "forma", "impact_type", "context">>
Closed  == [at |-> "closed", col |-> NoRow]
Event   == [by : Key \cup {Unsigned}, detected : BOOLEAN \cup {NoRow}]
Vote    == [id : VoteId, by : Key \cup {Unsigned}, ev : EventId, value : BOOLEAN]

\* The rows of truth_events and impact in one place; a PRIMARY KEY is not given out twice.
Rows(table, some) ==
    /\ table \in [EventId -> Event \cup {NoRow}]
    /\ some \subseteq Vote /\ IsFiniteSet(some)
    /\ \A v, w \in some : v.id = w.id => v = w

\* The FOREIGN KEY of impact.
Refer(table, some) == \A v \in some : table[v.ev] # NoRow

ASSUME BaseAssump ==
    /\ Unsigned \notin Key /\ NoRow \notin Event /\ MaxEvent \in Nat
    /\ Column \in Seq(STRING) /\ IsInjective(Column)
    /\ \A d \in Database : /\ d.cols \subseteq ToSet(Column) /\ d.locale \in Locale \cup {NoRow}
                           /\ Rows(d.events, d.votes) /\ Refer(d.events, d.votes)
    /\ \A a \in Archive : Rows(a.events, a.votes) /\ Refer(a.events, a.votes)
    /\ Question \in Nat /\ Reply \subseteq [valid : 0..Question, unknown : Nat, other : Nat]
    /\ Trust \subseteq Int
    /\ Query \subseteq [minScore : Int, maxLinks : Nat, depth : Int, limit : Nat,
                        passing : SUBSET Key]

VARIABLES
    cols,      \* columns that are there, of those run_migrations adds
    reference, \* reference[t]: the locale of the rows of a reference table, NoRow when empty
    events,    \* table truth_events, by id: who signed it and its verdict
    last,      \* sqlite_sequence of truth_events
    votes,     \* table impact
    trust,     \* trust_score of the rows of node_ratings
    people,    \* table participants
    file,      \* the file export_to_json writes; NoRow when there is none
    job,       \* job[p]: how far p is
    reading,   \* the events export_to_json has read, NoRow outside of it
    answer,    \* the last answer of GET /graph or GET /graph/json
    runs, ops, \* counted for their bounds
    raced,     \* history: two processes were opening the database at a time
    failed,    \* history: processes that could not open it
    torn,      \* history: rows were written in the middle of an export
    hasty      \* history: the replies of the assessments that set a verdict

base  == <<cols, reference, events, last, votes, trust, people>>
ghost == <<raced, failed, torn, hasty>>
vars  == <<base, file, job, reading, answer, runs, ops, ghost>>

NoAnswer == [q |-> NoRow, g |-> NoRow]

\* A database as it may be found: none yet, an older version's, or one in use.
Init ==
    /\ \E d \in Database :
        /\ cols = d.cols
        /\ reference = [t \in ToSet(Table) |-> d.locale]
        /\ events = d.events
        /\ votes = d.votes
        /\ trust = [k \in {} |-> 0]
        /\ last = Max({0} \cup {e \in EventId : d.events[e] # NoRow})
    /\ people = {}
    /\ file = NoRow
    /\ job = [p \in Proc |-> Closed]
    /\ reading = NoRow
    /\ answer = NoAnswer
    /\ runs = 0 /\ ops = 0
    /\ raced = FALSE /\ failed = {} /\ torn = FALSE /\ hasty = {}

-----------------------------------------------------------------------------
(* init_db.                                                                   *)

At(p, step) == job[p].at = step
Goto(p, step) == job' = [job EXCEPT ![p].at = step]
Opening(p) == job[p].at \in {"migrate", "alter"}

\* SCHEMA_SQL creates what is missing, in any number of processes and times; its
\* table truth_events has collective_score from the start.
OpenDb(p) ==
    /\ At(p, "closed")
    /\ runs < MaxRuns /\ runs' = runs + 1
    /\ Goto(p, "migrate")
    /\ raced' = (raced \/ \E q \in Proc \ {p} : Opening(q))
    /\ UNCHANGED <<base, file, reading, answer, ops, failed, torn, hasty>>

Opened(p) == IF p = "server" THEN "seed" ELSE "command"

\* Slip: the columns are not looked up.
MissingAll == DOMAIN Column

\* The columns has_column does not find, by their places; one is added after the other.
Missing == {i \in DOMAIN Column : Column[i] \notin cols}

HasColumn(p) ==
    /\ At(p, "migrate")
    /\ job' = [job EXCEPT ![p] = IF Missing = {} THEN [@ EXCEPT !.at = Opened(p)]
                                 ELSE [at |-> "alter", col |-> Column[Min(Missing)]]]
    /\ UNCHANGED <<base, file, reading, answer, runs, ops, ghost>>

\* ALTER TABLE ADD COLUMN fails when the column is there by now.
AlterTable(p) ==
    /\ At(p, "alter")
    /\ cols' = cols \cup {job[p].col}
    /\ job' = [job EXCEPT ![p] = IF job[p].col \in cols THEN Closed
                                 ELSE [at |-> "migrate", col |-> NoRow]]
    /\ failed' = IF job[p].col \in cols THEN failed \cup {p} ELSE failed
    /\ UNCHANGED <<reference, events, last, votes, trust, people, file, reading, answer, runs, ops,
                   raced, torn, hasty>>

-----------------------------------------------------------------------------
(* Operations. Those of the application end its run, the server goes on.      *)

Ready(p) == job[p].at \in {"command", "serving"}

Operate(p) ==
    /\ Ready(p)
    /\ ops < MaxOps /\ ops' = ops + 1
    /\ job' = [job EXCEPT ![p] = IF p = "server" THEN @ ELSE Closed]
    /\ answer' = NoAnswer
    /\ UNCHANGED <<cols, runs, raced, failed>>

\* INSERT OR IGNORE; the rows have the same ids in both languages.
Seeded(locale) == [t \in DOMAIN reference |-> IF reference[t] = NoRow THEN locale ELSE reference[t]]

\* Slip: the tables are seeded without a transaction, and the process is killed.
SomeSeeded(locale) ==
    {[t \in DOMAIN reference |-> IF reference[t] = NoRow /\ t \in ToSet(SubSeq(Table, 1, n))
                                 THEN locale ELSE reference[t]] : n \in 0..Len(Table)}

\* seed_knowledge_base inserts in one transaction: all of it or, killed, nothing.
Outcomes(locale) == {Seeded(locale)}

SeedServer ==
    /\ At("server", "seed")
    /\ reference' \in Outcomes("ru")
    /\ Goto("server", "serving")
    /\ UNCHANGED <<cols, events, last, votes, trust, people, file, reading, answer, runs, ops, ghost>>

Seed(p, locale) ==
    /\ Operate(p)
    /\ reference' \in Outcomes(locale)
    /\ UNCHANGED <<events, last, votes, trust, people, file, reading, torn, hasty>>

InExport == reading # NoRow

\* An event needs its context.
AddEvent(p) ==
    /\ Operate(p)
    /\ reference["context"] # NoRow /\ last < MaxEvent
    /\ events' = [events EXCEPT ![last + 1] = [by |-> Unsigned, detected |-> NoRow]]
    /\ last' = last + 1
    /\ torn' = (torn \/ InExport)
    /\ UNCHANGED <<reference, votes, trust, people, file, reading, hasty>>

\* POST /detect and the command detect.
SetEventDetected(p, e, verdict) ==
    /\ Operate(p)
    /\ events[e] # NoRow
    /\ events' = [events EXCEPT ![e].detected = verdict]
    /\ torn' = (torn \/ InExport)
    /\ UNCHANGED <<reference, last, votes, trust, people, file, reading, hasty>>

AddImpact(p, id, e, value) ==
    /\ Operate(p)
    /\ events[e] # NoRow /\ id \notin {v.id : v \in votes}
    /\ votes' = votes \cup {[id |-> id, by |-> Unsigned, ev |-> e, value |-> value]}
    /\ torn' = (torn \/ InExport)
    /\ UNCHANGED <<reference, events, last, trust, people, file, reading, hasty>>

\* Slip: all replies are counted as answers.
ConfidenceOfAll(r) == [got |-> (r.valid + r.other) * (5 * (r.valid + r.other) - 3 * r.unknown),
                       asked |-> 3 * Question * (r.valid + r.other)]

\* evaluate_answers asks for answered / questions * (1 - 0.6 unknown / given) >= 0.6;
\* both sides are multiplied out here. Replies to no question count as given.
Confidence(r) == [got |-> r.valid * (5 * (r.valid + r.other) - 3 * r.unknown),
                  asked |-> 3 * Question * (r.valid + r.other)]

\* assess --apply: a hint is only ever that the event is detected. Where both sides
\* are equal the rounding of f32 decides.
Assess(p, e, r) ==
    /\ Operate(p) /\ p = "app"
    /\ events[e] # NoRow /\ reference["context"] # NoRow
    /\ Confidence(r).got >= Confidence(r).asked /\ r.valid > 0
    /\ events' = [events EXCEPT ![e].detected = TRUE]
    /\ hasty' = hasty \cup {r}
    /\ torn' = (torn \/ InExport)
    /\ UNCHANGED <<reference, last, votes, trust, people, file, reading>>

\* POST /api/v1/judgments registers the key and then fails: the schema creates no
\* table judgments_ci.
JudgmentsPost(k) ==
    /\ Operate("server") /\ At("server", "serving")
    /\ people' = people \cup {k}
    /\ UNCHANGED <<reference, events, last, votes, trust, file, reading, torn, hasty>>

-----------------------------------------------------------------------------
(* export_to_json and import_from_json.                                       *)

\* Slip: only events with a verdict are exported.
ExportedJudged == [e \in EventId |-> IF events[e] # NoRow /\ events[e].detected = NoRow THEN NoRow
                                     ELSE events[e]]

Exported == events

\* The events are read in one statement and the impacts in the next.
ExportEvents(p) ==
    /\ Operate(p)
    /\ ~InExport
    /\ reading' = Exported
    /\ torn' = FALSE
    /\ UNCHANGED <<reference, events, last, votes, trust, people, file, hasty>>

ExportImpacts ==
    /\ InExport
    /\ file' = [events |-> reading, votes |-> votes, closed |-> ~torn]
    /\ reading' = NoRow
    /\ UNCHANGED <<base, job, answer, runs, ops, ghost>>

\* A plain INSERT of each row, in the order of the file: one that exists already,
\* an event without its context or an impact without its event fails the import.
Accepted(f) ==
    /\ \A e \in EventId : f.events[e] # NoRow => events[e] = NoRow /\ reference["context"] # NoRow
    /\ \A v \in f.votes : /\ v.id \notin {w.id : w \in votes}
                          /\ f.events[v.ev] # NoRow \/ events[v.ev] # NoRow

\* Slip: the rows are written one by one, and those before a failure stay.
KeptEvents(f) == {e \in EventId : f.events[e] # NoRow /\ events[e] = NoRow}

\* One transaction.
Imported(f) == IF Accepted(f) THEN {e \in EventId : f.events[e] # NoRow} ELSE {}

\* An id of progress_metrics that is taken makes an import fail as well: not a step.
ImportFromJson(p, f) ==
    /\ Operate(p)
    /\ events' = [e \in EventId |-> IF e \in Imported(f) THEN f.events[e] ELSE events[e]]
    /\ votes' = IF Accepted(f) THEN votes \cup f.votes ELSE votes
    /\ last' = Max({last} \cup Imported(f))
    /\ torn' = (torn \/ InExport)
    /\ UNCHANGED <<reference, trust, people, file, reading, hasty>>

-----------------------------------------------------------------------------
(* Graph queries.                                                             *)

Author == [e \in EventId |-> IF events[e] = NoRow THEN NoRow ELSE events[e].by]

\* Slip: rows without a key are counted.
RatedAll == {v.by : v \in votes} \cup ({Author[e] : e \in EventId} \ {NoRow})

\* The keys a recount has a row for.
Rated == ({v.by : v \in votes} \cup {Author[e] : e \in EventId}) \cap Key

\* GET /graph, of the ratings as they are.
GetGraph ==
    /\ At("server", "serving")
    /\ ops < MaxOps /\ ops' = ops + 1
    /\ answer' = [q |-> NoRow, g |-> FullGraph(Author, votes, trust)]
    /\ UNCHANGED <<base, file, job, reading, runs, ghost>>

\* GET /graph/json recounts first, for whatever that comes to (see TrustLedger).
GetGraphJson(q) ==
    /\ At("server", "serving")
    /\ ops < MaxOps /\ ops' = ops + 1
    /\ trust' \in [Rated -> Trust]
    /\ \E g \in GraphJson(Author, votes, trust', q) : answer' = [q |-> q, g |-> g]
    /\ UNCHANGED <<cols, reference, events, last, votes, people, file, job, reading, runs, ghost>>

Kill(p) ==
    /\ ~At(p, "closed")
    /\ job' = [job EXCEPT ![p] = Closed]
    /\ UNCHANGED <<base, file, reading, answer, runs, ops, ghost>>

Next ==
    \/ \E p \in Proc :
        \/ OpenDb(p) \/ HasColumn(p) \/ AlterTable(p) \/ Kill(p)
        \/ \E l \in Locale : Seed(p, l)
        \/ AddEvent(p)
        \/ \E e \in EventId :
            \/ \E verdict \in BOOLEAN : SetEventDetected(p, e, verdict)
            \/ \E id \in VoteId : \E value \in BOOLEAN : AddImpact(p, id, e, value)
            \/ \E r \in Reply : Assess(p, e, r)
        \/ ExportEvents(p)
        \/ \E f \in Archive \cup ({file} \ {NoRow}) : ImportFromJson(p, f)
    \/ SeedServer
    \/ ExportImpacts
    \/ \E k \in Key : JudgmentsPost(k)
    \/ GetGraph
    \/ \E q \in Query : GetGraphJson(q)

Spec == Init /\ [][Next]_vars

-----------------------------------------------------------------------------
(* Properties.                                                                *)

\* Rows refer to rows, no id is above the last one given out, ratings have keys, and
\* a link stands for at least one vote.
TypeOK ==
    /\ cols \subseteq ToSet(Column)
    /\ reference \in [ToSet(Table) -> Locale \cup {NoRow}]
    /\ Rows(events, votes) /\ Refer(events, votes)
    /\ last \in 0..MaxEvent /\ \A e \in EventId : events[e] # NoRow => e <= last
    /\ DOMAIN trust \subseteq Key /\ trust \in [DOMAIN trust -> Trust]
    /\ people \subseteq Key
    /\ file # NoRow => Rows(file.events, file.votes)
    /\ job \in [Proc -> [at : {"closed", "migrate", "alter", "seed", "serving", "command"},
                         col : ToSet(Column) \cup {NoRow}]]
    /\ \A p \in Proc : At(p, "alter") => job[p].col \in ToSet(Column)
    /\ InExport => reading \in [EventId -> Event \cup {NoRow}]
    /\ answer # NoAnswer => \A l \in answer.g.links : l.total > 0 /\ l.pos <= l.total
    /\ runs \in Nat /\ ops \in Nat
    /\ raced \in BOOLEAN /\ failed \subseteq Proc /\ torn \in BOOLEAN /\ hasty \subseteq Reply

\* run_migrations fails only where two processes migrate one file at a time: a restart
\* after a migration that was cut short goes through.
OpenFailsOnlyInRace == failed # {} => raced

\* The texts of the reference tables are all in one language: the seeding of a
\* process that was killed leaves nothing, and the other language comes too late.
OneLocale == \A t, u \in ToSet(Table) : reference[t] = reference[u]

Fresh == {e \in EventId : events[e] = NoRow /\ events'[e] # NoRow}

\* import_from_json adds all the events and impacts of a file, or nothing.
ImportWhole ==
    [][(\E e \in Fresh : events'[e].by # Unsigned) =>
          \E f \in Archive \cup ({file} \ {NoRow}) :
              /\ Fresh = {e \in EventId : f.events[e] # NoRow}
              /\ votes' = votes \cup f.votes]_vars

\* A file that export_to_json wrote can be read into an empty database: it has the event
\* of each impact. Only rows written between its two statements can break that.
ExportClosed ==
    file # NoRow /\ file.closed => \A v \in file.votes : file.events[v.ev] # NoRow

\* assess --apply marks an event only after three fifths of the questions were answered
\* (five of the seven) and when no more than two thirds of the replies are "unknown".
AssessNeedsAnswers ==
    \A r \in hasty : 5 * r.valid >= 3 * Question /\ 3 * r.unknown <= 2 * (r.valid + r.other)

Asked == answer.q # NoRow

\* GET /graph/json: the links join nodes of the answer, no source has more than
\* max_links, no more than limit nodes, all of them trusted enough. A min_priority can
\* leave links without their nodes and is excluded.
GraphClosed ==
    Asked =>
        LET nodes == ToSet(answer.g.order) IN
        /\ \A k \in nodes : trust[k] >= answer.q.minScore
        /\ Cardinality(nodes) <= answer.q.limit
        /\ \A s \in Key : Cardinality({l \in answer.g.links : l.source = s}) <= answer.q.maxLinks
        /\ answer.q.passing = Key =>
               \A l \in answer.g.links : {l.source, l.target} \subseteq nodes

\* At most d links lead from key k to key j, in either direction.
Within(k, j, d, links) ==
    \E n \in 0..d : \E path \in [0..n -> Key] :
        /\ path[0] = k /\ path[n] = j
        /\ \A i \in 1..n : path[i] \in Beside(path[i - 1], links)

\* With a depth, the nodes are that close, by votes, to one of those with the highest trust.
GraphNear ==
    Asked /\ answer.q.depth >= 0 /\ ToSet(answer.g.order) # {} =>
        \E center \in DOMAIN trust :
            /\ \A k \in DOMAIN trust : trust[k] <= trust[center]
            /\ \A k \in ToSet(answer.g.order) :
                   Within(center, k, answer.q.depth, Links(Author, votes))

\* Every answer of GET /graph/json is both.
GraphAnswers == GraphClosed /\ GraphNear

=============================================================================
