-------------------------- MODULE KnowledgeBaseProofs --------------------------
(***************************************************************************)
(* Proofs about KnowledgeBase, for every database, archive, key and query.  *)
(***************************************************************************)
EXTENDS KnowledgeBase, SequenceFacts, FiniteSetTheorems

-----------------------------------------------------------------------------
(* Types.                                                                     *)

\* What every operation leaves as it should be: the columns, the counters and the jobs.
LEMMA OperateTypes ==
  ASSUME TypeOK, NEW p \in Proc, Operate(p)
  PROVE  /\ cols' \subseteq ToSet(Column) /\ runs' \in Nat /\ ops' \in Nat
         /\ job' \in [Proc -> [at : {"closed", "migrate", "alter", "seed", "serving", "command"},
                               col : ToSet(Column) \cup {NoRow}]]
         /\ \A q \in Proc : At(q, "alter")' => job[q].col' \in ToSet(Column)
         /\ answer' = NoAnswer
         /\ raced' \in BOOLEAN /\ failed' \subseteq Proc
  BY DEF TypeOK, Operate, Closed, At

\* A row that is changed or added leaves the table one of rows.
LEMMA EventRow ==
  ASSUME NEW table \in [EventId -> Event \cup {NoRow}], NEW e \in EventId, NEW row \in Event
  PROVE  /\ [table EXCEPT ![e] = row] \in [EventId -> Event \cup {NoRow}]
         /\ [table EXCEPT ![e] = row][e] # NoRow
         /\ \A d \in EventId : table[d] # NoRow => [table EXCEPT ![e] = row][d] # NoRow
         /\ \A d \in EventId \ {e} : [table EXCEPT ![e] = row][d] = table[d]
  BY BaseAssump

\* A verdict makes a row of a row.
LEMMA Judged ==
  ASSUME NEW row \in Event \cup {NoRow}, row # NoRow, NEW verdict \in BOOLEAN
  PROVE  [row EXCEPT !.detected = verdict] \in Event
  BY DEF Event

\* The column that is added next is one of those run_migrations adds, and is not there.
LEMMA FirstMissing ==
  ASSUME Missing # {}
  PROVE  Column[Min(Missing)] \in ToSet(Column) /\ Column[Min(Missing)] \notin cols
<1>1. DOMAIN Column = 1..Len(Column) /\ Len(Column) \in Nat
  BY BaseAssump
<1>2. Missing \subseteq 1..Len(Column)
  BY <1>1 DEF Missing
<1>3. Min(Missing) \in Missing
  BY <1>1, <1>2, MinOfIndices
<1> QED BY <1>3 DEF Missing, ToSet

\* Opening a database, reading its columns and adding one.
LEMMA OpeningTypeOK ==
  ASSUME TypeOK, NEW p \in Proc, OpenDb(p) \/ HasColumn(p) \/ AlterTable(p) \/ Kill(p)
  PROVE  TypeOK'
<1>1. CASE OpenDb(p)
  BY <1>1 DEF OpenDb, Goto, At, TypeOK, Rows, Refer, base, InExport, NoAnswer
<1>2. CASE HasColumn(p)
  <2>1. Missing # {} => Column[Min(Missing)] \in ToSet(Column)
    BY FirstMissing
  <2>2. /\ job' \in [Proc -> [at : {"closed", "migrate", "alter", "seed", "serving", "command"},
                              col : ToSet(Column) \cup {NoRow}]]
        /\ \A q \in Proc : At(q, "alter")' => job[q].col' \in ToSet(Column)
    BY <1>2, <2>1 DEF HasColumn, TypeOK, Opened, At
  <2> QED BY <1>2, <2>2 DEF HasColumn, TypeOK, Rows, Refer, base, ghost, InExport, NoAnswer
<1>3. CASE AlterTable(p)
  <2>1. job[p].col \in ToSet(Column)
    BY <1>3 DEF AlterTable, TypeOK
  <2> QED BY <1>3, <2>1 DEF AlterTable, TypeOK, Rows, Refer, InExport, NoAnswer, Closed, At
<1>4. CASE Kill(p)
  BY <1>4 DEF Kill, TypeOK, Rows, Refer, base, ghost, InExport, NoAnswer, Closed, At
<1> QED BY <1>1, <1>2, <1>3, <1>4

\* Seeding changes the reference tables only, and gives them rows in a language.
LEMMA SeedingTypeOK ==
  ASSUME TypeOK, SeedServer \/ \E p \in Proc, l \in Locale : Seed(p, l)
  PROVE  TypeOK'
<1>1. ASSUME NEW l \in Locale, reference' \in Outcomes(l)
      PROVE  reference' \in [ToSet(Table) -> Locale \cup {NoRow}]
  BY <1>1 DEF Outcomes, Seeded, TypeOK
<1>2. CASE SeedServer
  <2>1. reference' \in [ToSet(Table) -> Locale \cup {NoRow}]
    BY <1>1, <1>2 DEF SeedServer, Locale
  <2> QED BY <1>2, <2>1 DEF SeedServer, TypeOK, Rows, Refer, InExport, NoAnswer, Goto, At, ghost
<1>3. ASSUME NEW p \in Proc, NEW l \in Locale, Seed(p, l) PROVE TypeOK'
  <2>1. reference' \in [ToSet(Table) -> Locale \cup {NoRow}]
    BY <1>1, <1>3 DEF Seed
  <2> QED BY <1>3, <2>1, OperateTypes DEF Seed, TypeOK, Rows, Refer, InExport
<1> QED BY <1>2, <1>3

\* The operations that record an event, its verdict, an impact or a judgment.
LEMMA RecordingTypeOK ==
  ASSUME TypeOK, NEW p \in Proc,
         \/ AddEvent(p)
         \/ \E e \in EventId : \/ \E verdict \in BOOLEAN : SetEventDetected(p, e, verdict)
                               \/ \E id \in VoteId, value \in BOOLEAN : AddImpact(p, id, e, value)
                               \/ \E r \in Reply : Assess(p, e, r)
         \/ \E k \in Key : JudgmentsPost(k)
  PROVE  TypeOK'
<1>1. CASE AddEvent(p)
  <2>1. last + 1 \in EventId /\ last + 1 \in 0..MaxEvent
    BY <1>1, BaseAssump DEF AddEvent, EventId, TypeOK
  <2>2. [by |-> Unsigned, detected |-> NoRow] \in Event
    BY DEF Event
  <2>3. Rows(events', votes') /\ Refer(events', votes')
    BY <1>1, <2>1, <2>2, EventRow DEF AddEvent, TypeOK, Rows, Refer, Vote
  <2>4. last' \in 0..MaxEvent /\ \A e \in EventId : events'[e] # NoRow => e <= last'
    <3>1. ASSUME NEW e \in EventId, events'[e] # NoRow PROVE e <= last + 1
      <4>1. CASE e = last + 1
        BY <4>1, <2>1
      <4>2. CASE e # last + 1
        <5>1. events[e] # NoRow
          BY <1>1, <2>1, <2>2, <3>1, <4>2, EventRow DEF AddEvent, TypeOK, Rows
        <5> QED BY <5>1, BaseAssump DEF TypeOK, EventId
      <4> QED BY <4>1, <4>2
    <3> QED BY <1>1, <2>1, <3>1 DEF AddEvent
  <2> QED BY <1>1, <2>3, <2>4, OperateTypes DEF AddEvent, TypeOK, InExport, Rows, NoAnswer, At
<1>2. ASSUME NEW e \in EventId, NEW verdict \in BOOLEAN, events[e] # NoRow,
             events' = [events EXCEPT ![e].detected = verdict],
             UNCHANGED <<votes, last>>
      PROVE  /\ Rows(events', votes') /\ Refer(events', votes')
             /\ last' \in 0..MaxEvent /\ \A d \in EventId : events'[d] # NoRow => d <= last'
  <2>1. [events[e] EXCEPT !.detected = verdict] \in Event
    BY <1>2, Judged DEF TypeOK, Rows
  <2>2. events' = [events EXCEPT ![e] = [events[e] EXCEPT !.detected = verdict]]
    BY <1>2
  <2> HIDE <1>2
  <2>3. Rows(events', votes') /\ Refer(events', votes')
    BY <1>2, <2>1, <2>2, EventRow DEF TypeOK, Rows, Refer, Vote
  <2>4. \A d \in EventId : events'[d] # NoRow => events[d] # NoRow
    BY <1>2, <2>1, <2>2, EventRow DEF TypeOK, Rows
  <2> QED BY <1>2, <2>3, <2>4 DEF TypeOK
<1>3. ASSUME NEW e \in EventId, NEW verdict \in BOOLEAN, SetEventDetected(p, e, verdict)
      PROVE  TypeOK'
  <2>1. /\ Rows(events', votes') /\ Refer(events', votes')
        /\ last' \in 0..MaxEvent /\ \A d \in EventId : events'[d] # NoRow => d <= last'
    BY <1>2, <1>3 DEF SetEventDetected
  <2> QED BY <1>3, <2>1, OperateTypes DEF SetEventDetected, TypeOK, InExport, Rows, NoAnswer, At
<1>4. ASSUME NEW e \in EventId, NEW r \in Reply, Assess(p, e, r)
      PROVE  TypeOK'
  <2>1. /\ Rows(events', votes') /\ Refer(events', votes')
        /\ last' \in 0..MaxEvent /\ \A d \in EventId : events'[d] # NoRow => d <= last'
    BY <1>2, <1>4 DEF Assess
  <2> QED BY <1>4, <2>1, OperateTypes DEF Assess, TypeOK, InExport, Rows, NoAnswer, At
<1>5. ASSUME NEW e \in EventId, NEW id \in VoteId, NEW value \in BOOLEAN, AddImpact(p, id, e, value)
      PROVE  TypeOK'
  <2> DEFINE vote == [id |-> id, by |-> Unsigned, ev |-> e, value |-> value]
  <2>1. vote \in Vote /\ vote.ev = e /\ vote.id = id
    BY DEF Vote
  <2> HIDE DEF vote
  <2>2. votes' = votes \cup {vote} /\ IsFiniteSet(votes')
    BY <1>5, FS_AddElement DEF AddImpact, vote, TypeOK, Rows
  <2>3. Rows(events', votes') /\ Refer(events', votes')
    BY <1>5, <2>1, <2>2 DEF AddImpact, TypeOK, Rows, Refer
  <2> QED BY <1>5, <2>3, OperateTypes DEF AddImpact, TypeOK, InExport, Rows, NoAnswer, At
<1>6. ASSUME NEW k \in Key, JudgmentsPost(k) PROVE TypeOK'
  BY <1>6, OperateTypes DEF JudgmentsPost, TypeOK, InExport, Rows, Refer, NoAnswer, At, Proc
<1> QED BY <1>1, <1>3, <1>4, <1>5, <1>6

\* A row that is imported has an id that was given out, and the greatest id stays in range.
LEMMA ImportedLast ==
  ASSUME last \in 0..MaxEvent, NEW S, S \subseteq EventId
  PROVE  Max({last} \cup S) \in 0..MaxEvent /\ \A e \in {last} \cup S : e <= Max({last} \cup S)
<1>1. MaxEvent \in Nat
  BY BaseAssump
<1>2. {last} \cup S \subseteq 0..MaxEvent /\ {last} \cup S # {}
  BY ONLY <1>1, last \in 0..MaxEvent, S \subseteq EventId DEF EventId
<1> QED BY <1>1, <1>2, MaxOfNumbers

\* The export and the import of a file.
LEMMA FilesTypeOK ==
  ASSUME TypeOK, NEW p \in Proc,
         \/ ExportEvents(p) \/ ExportImpacts
         \/ \E f \in Archive \cup ({file} \ {NoRow}) : ImportFromJson(p, f)
  PROVE  TypeOK'
<1>1. CASE ExportEvents(p)
  BY <1>1, OperateTypes DEF ExportEvents, Exported, TypeOK, InExport, Rows, Refer, NoAnswer, At
<1>2. CASE ExportImpacts
  <2>1. Rows(file'.events, file'.votes)
    BY <1>2 DEF ExportImpacts, TypeOK, Rows
  <2> QED BY <1>2, <2>1 DEF ExportImpacts, TypeOK, InExport, Rows, Refer, NoAnswer, At, base, ghost
<1>3. ASSUME NEW f \in Archive \cup ({file} \ {NoRow}), ImportFromJson(p, f) PROVE TypeOK'
  <2>1. Rows(f.events, f.votes)
    BY BaseAssump DEF TypeOK
  <2>2. Imported(f) \subseteq EventId /\ \A e \in Imported(f) : f.events[e] # NoRow
    BY DEF Imported
  <2>3. last' \in 0..MaxEvent /\ \A e \in EventId : events'[e] # NoRow => e <= last'
    <3>1. ASSUME NEW e \in EventId, events'[e] # NoRow PROVE e <= last'
      <4>1. CASE e \in Imported(f)
        BY <1>3, <2>2, <4>1, ImportedLast DEF ImportFromJson, TypeOK
      <4>2. CASE e \notin Imported(f)
        <5>1. events[e] # NoRow
          BY <1>3, <3>1, <4>2 DEF ImportFromJson
        <5>2. e <= last /\ last <= last' /\ last' \in 0..MaxEvent
          BY <1>3, <2>2, <5>1, ImportedLast DEF ImportFromJson, TypeOK
        <5> QED BY <5>2, BaseAssump DEF TypeOK, EventId
      <4> QED BY <4>1, <4>2
    <3> QED BY <1>3, <2>2, <3>1, ImportedLast DEF ImportFromJson, TypeOK
  <2>4. Rows(events', votes') /\ Refer(events', votes')
    <3>1. events' \in [EventId -> Event \cup {NoRow}]
      BY <1>3, <2>1 DEF ImportFromJson, TypeOK, Rows
    <3>2. CASE Accepted(f)
      <4>1. votes' = votes \cup f.votes /\ IsFiniteSet(votes')
        BY <1>3, <2>1, <3>2, FS_Union DEF ImportFromJson, TypeOK, Rows
      <4>2. \A v, w \in votes' : v.id = w.id => v = w
        BY <2>1, <3>2, <4>1 DEF Accepted, TypeOK, Rows
      <4>3. ASSUME NEW v \in votes' PROVE events'[v.ev] # NoRow
        <5>1. v.ev \in EventId
          BY <2>1, <4>1 DEF TypeOK, Rows, Vote
        <5>2. f.events[v.ev] # NoRow \/ events[v.ev] # NoRow
          BY <3>2, <4>1 DEF Accepted, TypeOK, Refer
        <5> QED BY <1>3, <3>2, <5>1, <5>2 DEF ImportFromJson, Imported
      <4> QED BY <2>1, <3>1, <4>1, <4>2, <4>3 DEF Rows, Refer, TypeOK
    <3>3. CASE ~Accepted(f)
      <4>1. votes' = votes /\ \A e \in EventId : events'[e] = events[e]
        BY <1>3, <3>3 DEF ImportFromJson, Imported
      <4> QED BY <3>1, <4>1 DEF TypeOK, Rows, Refer, Vote
    <3> QED BY <3>2, <3>3
  <2> QED BY <1>3, <2>3, <2>4, OperateTypes DEF ImportFromJson, TypeOK, InExport, Rows, NoAnswer, At
<1> QED BY <1>1, <1>2, <1>3

-----------------------------------------------------------------------------
(* Links.                                                                     *)

\* A finite set has a finite image, with no more elements.
LEMMA ImageFinite ==
  ASSUME NEW S, IsFiniteSet(S), NEW f, DOMAIN f = S, NEW T, T = {f[x] : x \in S}
  PROVE  IsFiniteSet(T) /\ Cardinality(T) <= Cardinality(S)
<1> DEFINE g == [x \in S |-> f[x]]
<1>1. g \in Surjection(S, T)
  BY DEF Surjection
<1> HIDE DEF g
<1> QED BY <1>1, FS_Surjection

\* The keys votes are cast by, and those they are cast for, are finitely many.
LEMMA EndsFinite ==
  ASSUME NEW author, NEW rows, IsFiniteSet(rows)
  PROVE  IsFiniteSet({v.by : v \in rows}) /\ IsFiniteSet({author[v.ev] : v \in rows})
<1> DEFINE f == [v \in rows |-> v.by]
           g == [v \in rows |-> author[v.ev]]
<1>1. {v.by : v \in rows} = {f[v] : v \in rows} /\ {author[v.ev] : v \in rows} = {g[v] : v \in rows}
  OBVIOUS
<1>2. DOMAIN f = rows /\ DOMAIN g = rows
  OBVIOUS
<1> HIDE DEF f, g
<1>3. IsFiniteSet({f[v] : v \in rows})
  BY <1>2, ImageFinite
<1>4. IsFiniteSet({g[v] : v \in rows})
  BY <1>2, ImageFinite
<1> QED BY <1>1, <1>3, <1>4

\* What a link is made of; its votes are counted, those for and those in all.
LEMMA LinkFacts ==
  ASSUME NEW author, NEW rows, IsFiniteSet(rows), NEW l \in Links(author, rows)
  PROVE  /\ l.source \in {v.by : v \in rows} \ {Unsigned}
         /\ l.target \in {author[v.ev] : v \in rows} \ {Unsigned}
         /\ l.total \in Nat /\ l.pos \in Nat /\ l.total > 0 /\ l.pos <= l.total
<1>1. PICK s \in {v.by : v \in rows} \ {Unsigned}, t \in {author[v.ev] : v \in rows} \ {Unsigned} :
        l = Link(author, rows, s, t) /\ l.total > 0
  BY DEF Links
<1> DEFINE all == Cast(author, rows, s, t)
           for == {v \in all : v.value}
<1>2. l = [source |-> s, target |-> t, pos |-> Cardinality(for), total |-> Cardinality(all)]
  BY <1>1 DEF Link
<1>3. all \subseteq rows /\ for \subseteq all
  BY DEF Cast
<1> HIDE DEF all, for
<1>4. IsFiniteSet(all)
  BY <1>3, FS_Subset
<1>5. IsFiniteSet(for) /\ Cardinality(for) <= Cardinality(all)
  BY <1>3, <1>4, FS_Subset
<1>6. Cardinality(all) \in Nat /\ Cardinality(for) \in Nat
  BY <1>4, <1>5, FS_CardinalityType
<1> QED BY <1>1, <1>2, <1>5, <1>6

\* There are finitely many links.
LEMMA LinksFinite ==
  ASSUME NEW author, NEW rows, IsFiniteSet(rows)
  PROVE  IsFiniteSet(Links(author, rows))
<1> DEFINE S == {v.by : v \in rows} \ {Unsigned}
           T == {author[v.ev] : v \in rows} \ {Unsigned}
           f == [e \in S \X T |-> Link(author, rows, e[1], e[2])]
<1>1. IsFiniteSet(S \X T)
  <2>1. IsFiniteSet(S) /\ IsFiniteSet(T)
    BY EndsFinite, FS_Difference
  <2> HIDE DEF S, T
  <2> QED BY <2>1, FS_Product
<1>2. \A l \in Links(author, rows) : \E s \in S, t \in T : l = Link(author, rows, s, t)
  BY DEF Links
<1> HIDE DEF S, T
<1>3. ASSUME NEW l \in Links(author, rows) PROVE l \in {f[e] : e \in S \X T}
  <2>1. PICK s \in S, t \in T : l = Link(author, rows, s, t)
    BY <1>2
  <2>2. <<s, t>> \in S \X T /\ f[<<s, t>>] = Link(author, rows, s, t)
    OBVIOUS
  <2> HIDE DEF f
  <2> QED BY <2>1, <2>2
<1>4. DOMAIN f = S \X T
  OBVIOUS
<1> HIDE DEF f
<1>5. IsFiniteSet({f[e] : e \in S \X T})
  BY <1>1, <1>4, ImageFinite
<1> QED BY <1>3, <1>5, FS_Subset

-----------------------------------------------------------------------------
(* The filter and the breadth-first search.                                   *)

\* Kept leaves the elements that are to be kept, and no other.
LEMMA KeptElements ==
  ASSUME NEW K, NEW s \in Seq(K), NEW keep
  PROVE  Kept(s, keep) \in Seq(K) /\ ToSet(Kept(s, keep)) = ToSet(s) \cap keep
<1> DEFINE N == Len(s)
           step(f, n) == IF s[n] \in keep THEN Append(f[n - 1], s[n]) ELSE f[n - 1]
           kept == CHOOSE f : f = [n \in 0..N |-> IF n = 0 THEN <<>> ELSE step(f, n)]
           F == [e \in (1..N) \X Seq(K) |-> IF s[e[1]] \in keep THEN Append(e[2], s[e[1]]) ELSE e[2]]
           first(n) == {s[i] : i \in 1..n}
           Good == {n \in 0..N : kept[n] \in Seq(K) /\ ToSet(kept[n]) = first(n) \cap keep}
<1>1. N \in Nat /\ \A n \in 1..N : s[n] \in K
  OBVIOUS
<1> HIDE DEF N
<1>2. \E f : f = [n \in 0..N |-> IF n = 0 THEN <<>> ELSE step(f, n)]
  <2>1. Advances(F, N, Seq(K))
    <3>1. ASSUME NEW n \in 1..N, NEW t \in Seq(K)
          PROVE  (IF s[n] \in keep THEN Append(t, s[n]) ELSE t) \in Seq(K)
      BY <1>1, <3>1
    <3> QED BY <3>1 DEF Advances
  <2>2. <<>> \in Seq(K)
    OBVIOUS
  <2> HIDE DEF F
  <2>3. PICK g : Follows(g, F, N, Seq(K), <<>>)
    BY <1>1, <2>1, <2>2, Iteration
  <2>4. ASSUME NEW n \in 1..N PROVE g[n] = step(g, n)
    <3>1. n - 1 \in 0..N
      BY <1>1
    <3>2. <<n, g[n - 1]>> \in (1..N) \X Seq(K)
      BY <2>3, <3>1 DEF Follows
    <3> QED BY <2>3, <3>1, <3>2 DEF F, Follows
  <2>5. g = [n \in 0..N |-> IF n = 0 THEN <<>> ELSE step(g, n)]
    <3>1. \A n \in 0..N : g[n] = IF n = 0 THEN <<>> ELSE step(g, n)
      <4> HIDE DEF step
      <4> QED BY <1>1, <2>3, <2>4 DEF Follows
    <3> HIDE DEF step
    <3> QED BY <2>3, <3>1 DEF Follows
  <2> QED BY <2>5
<1>3. kept = [n \in 0..N |-> IF n = 0 THEN <<>> ELSE step(kept, n)]
  <2> HIDE DEF step
  <2> QED BY <1>2
<1>4. Kept(s, keep) = kept[N]
  BY DEF Kept, N
<1> HIDE DEF kept
<1>5. 0 \in Good
  <2>1. 0 \in 0..N /\ first(0) = {}
    BY <1>1
  <2>2. kept[0] = <<>>
    <3> HIDE DEF step
    <3> QED BY <1>3, <2>1
  <2>3. <<>> \in Seq(K)
    OBVIOUS
  <2> HIDE DEF first
  <2> QED BY <2>1, <2>2, <2>3, ToSetEmpty
<1>6. ASSUME NEW n \in 1..N, n - 1 \in Good PROVE n \in Good
  <2>1. kept[n] = step(kept, n) /\ n \in 0..N
    <3> HIDE DEF step
    <3> QED BY <1>1, <1>3
  <2>2. kept[n - 1] \in Seq(K) /\ ToSet(kept[n - 1]) = first(n - 1) \cap keep
    BY <1>6
  <2>3. first(n) = first(n - 1) \cup {s[n]}
    <3>1. 1..n = (1..(n - 1)) \cup {n}
      BY <1>1
    <3> QED BY <3>1
  <2>4. CASE s[n] \in keep
    <3>1. kept[n] = Append(kept[n - 1], s[n])
      BY <2>1, <2>4
    <3>2. kept[n] \in Seq(K) /\ ToSet(kept[n]) = ToSet(kept[n - 1]) \cup {s[n]}
      BY <1>1, <2>2, <3>1, ToSetAppend
    <3> HIDE DEF first
    <3> QED BY <2>1, <2>2, <2>3, <2>4, <3>2
  <2>5. CASE s[n] \notin keep
    <3>1. kept[n] = kept[n - 1]
      BY <2>1, <2>5
    <3> HIDE DEF first
    <3> QED BY <2>1, <2>2, <2>3, <2>5, <3>1
  <2> QED BY <2>4, <2>5
<1> HIDE DEF Good
<1>7. N \in Good
  <2>1. N \in 0..N
    BY <1>1
  <2> QED BY <1>1, <1>5, <1>6, <2>1, UpTo
<1>8. first(N) = ToSet(s)
  BY DEF N, ToSet
<1> QED BY <1>4, <1>7, <1>8 DEF Good

\* Finitely many keys are beside a key.
LEMMA BesideFinite ==
  ASSUME NEW links, IsFiniteSet(links), NEW k
  PROVE  IsFiniteSet(Beside(k, links))
<1> DEFINE from == {l \in links : l.source = k}
           into == {l \in links : l.target = k}
           f == [l \in from |-> l.target]
           g == [l \in into |-> l.source]
<1>1. IsFiniteSet(from) /\ IsFiniteSet(into)
  BY FS_Subset
<1>2. DOMAIN f = from /\ DOMAIN g = into
  OBVIOUS
<1>3. Beside(k, links) = {f[l] : l \in from} \cup {g[l] : l \in into}
  BY DEF Beside
<1> HIDE DEF f, g, from, into
<1>4. IsFiniteSet({f[l] : l \in from})
  BY <1>1, <1>2, ImageFinite
<1>5. IsFiniteSet({g[l] : l \in into})
  BY <1>1, <1>2, ImageFinite
<1> QED BY <1>3, <1>4, <1>5, FS_Union

\* The pairs put into the queue are pairs of a key and the depth.
LEMMA PairsOf ==
  ASSUME NEW Q, NEW keys, IsFiniteSet(keys), NEW d, \A k \in keys : <<k, d>> \in Q
  PROVE  Pairs(keys, d) \in Seq(Q)
<1> DEFINE s == SetToSeq(keys)
           n == Cardinality(keys)
<1>1. n \in Nat /\ ExistsBijection(1..n, keys)
  BY FS_CardinalityType
<1>2. s \in [1..n -> keys]
  <2>1. \E f \in [1..n -> keys] : IsInjective(f)
    BY <1>1 DEF ExistsBijection, Bijection, Injection
  <2> QED BY <2>1 DEF SetToSeq
<1>3. Pairs(keys, d) = [i \in DOMAIN s |-> <<s[i], d>>]
  BY DEF Pairs
<1> HIDE DEF s, n
<1>4. [i \in 1..n |-> <<s[i], d>>] \in [1..n -> Q]
  BY <1>2
<1> QED BY <1>1, <1>2, <1>3, <1>4

\* The search sees nothing outside of near[limit], when near[d] has the keys beside
\* those of near[d - 1].
LEMMA VisitedNear ==
  ASSUME NEW n \in Nat, NEW limit \in Nat, NEW links, IsFiniteSet(links), NEW near, NEW center,
         center \in near[0],
         \A d \in 0..limit : near[d] \subseteq near[limit],
         \A d \in 1..limit : \A k \in near[d - 1] : Beside(k, links) \subseteq near[d]
  PROVE  Visited(center, n, links, limit) \subseteq near[limit]
<1> DEFINE start == [queue |-> <<<<center, 0>>>>, seen |-> {center}]
           search == CHOOSE f : f = [i \in 0..n |-> IF i = 0 THEN start
                                                    ELSE Visit(f[i - 1], links, limit)]
           Q == {e \in near[limit] \X (0..limit) : e[1] \in near[e[2]]}
           T == [queue : Seq(Q), seen : SUBSET near[limit]]
           F == [e \in (1..n) \X T |-> Visit(e[2], links, limit)]
           Good == {i \in 0..n : search[i] \in T}
<1>1. start \in T
  <2>1. center \in near[limit] /\ 0 \in 0..limit
    OBVIOUS
  <2>2. <<center, 0>> \in near[limit] \X (0..limit) /\ <<center, 0>>[1] = center /\ <<center, 0>>[2] = 0
    BY <2>1
  <2>3. <<center, 0>> \in Q
    BY <2>2
  <2> HIDE DEF Q
  <2> QED BY <2>1, <2>3
<1>2. ASSUME NEW s \in T PROVE Visit(s, links, limit) \in T
  <2>1. CASE s.queue = <<>>
    BY <2>1 DEF Visit
  <2>2. CASE s.queue # <<>>
    <3> DEFINE k == Head(s.queue)[1]
               d == Head(s.queue)[2]
               new == IF d >= limit THEN {} ELSE Beside(k, links) \ s.seen
    <3>1. Visit(s, links, limit) =
            [queue |-> Tail(s.queue) \o Pairs(new, d + 1), seen |-> s.seen \cup new]
      BY <2>2 DEF Visit
    <3>2. Tail(s.queue) \in Seq(Q) /\ Head(s.queue) \in Q
      <4> HIDE DEF Q
      <4> QED BY <2>2
    <3>3. k \in near[d] /\ d \in 0..limit
      BY <3>2
    <3> HIDE DEF k, d
    <3>4. IsFiniteSet(new)
      <4>1. IsFiniteSet(Beside(k, links) \ s.seen)
        BY BesideFinite, FS_Difference
      <4> QED BY <4>1, FS_EmptySet
    <3>5. new \subseteq near[limit] /\ \A j \in new : <<j, d + 1>> \in Q
      <4>1. CASE d >= limit
        BY <4>1
      <4>2. CASE ~ (d >= limit)
        <5>1. d + 1 \in 1..limit /\ d + 1 \in 0..limit /\ (d + 1) - 1 = d
          BY <3>3, <4>2
        <5>2. Beside(k, links) \subseteq near[d + 1]
          BY <3>3, <5>1
        <5>3. new \subseteq near[d + 1] /\ near[d + 1] \subseteq near[limit]
          BY <5>1, <5>2
        <5> QED BY <5>1, <5>3
      <4> QED BY <4>1, <4>2
    <3> HIDE DEF Q, new
    <3>6. Pairs(new, d + 1) \in Seq(Q)
      BY <3>4, <3>5, PairsOf
    <3>7. Tail(s.queue) \o Pairs(new, d + 1) \in Seq(Q)
      BY <3>2, <3>6, ConcatElements
    <3> QED BY <3>1, <3>5, <3>7
  <2> QED BY <2>1, <2>2
<1> HIDE DEF T, start
<1>3. \E f : f = [i \in 0..n |-> IF i = 0 THEN start ELSE Visit(f[i - 1], links, limit)]
  <2>1. Advances(F, n, T)
    BY <1>2 DEF Advances
  <2> HIDE DEF F
  <2>2. PICK g : Follows(g, F, n, T, start)
    BY <1>1, <2>1, Iteration
  <2>3. ASSUME NEW i \in 1..n PROVE g[i] = Visit(g[i - 1], links, limit)
    <3>1. i - 1 \in 0..n
      OBVIOUS
    <3>2. <<i, g[i - 1]>> \in (1..n) \X T
      BY <2>2, <3>1 DEF Follows
    <3> QED BY <2>2, <3>2 DEF F, Follows
  <2> QED BY <2>2, <2>3 DEF Follows
<1>4. search = [i \in 0..n |-> IF i = 0 THEN start ELSE Visit(search[i - 1], links, limit)]
  BY <1>3
<1>5. Visited(center, n, links, limit) = search[n].seen
  BY DEF Visited, start
<1> HIDE DEF search
<1>6. 0 \in Good
  BY <1>1, <1>4
<1>7. ASSUME NEW i \in 1..n, i - 1 \in Good PROVE i \in Good
  <2>1. i \in 0..n /\ search[i - 1] \in T
    BY <1>7
  <2>2. search[i] = Visit(search[i - 1], links, limit)
    BY <1>4, <2>1
  <2> QED BY <1>2, <2>1, <2>2
<1> HIDE DEF Good
<1>8. n \in Good
  <2>1. n \in 0..n
    OBVIOUS
  <2> QED BY <1>6, <1>7, <2>1, UpTo
<1> QED BY <1>5, <1>8 DEF Good, T

-----------------------------------------------------------------------------
(* The answers.                                                               *)

\* The smaller of two numbers is not above the first.
LEMMA MinOfTwo ==
  ASSUME NEW a \in Nat, NEW b \in Nat
  PROVE  Min({a, b}) <= a
<1>1. \E x \in {a, b} : \A y \in {a, b} : x <= y
  OBVIOUS
<1> QED BY <1>1 DEF Min

\* The links of a source.
From(s, links) == {l \in links : l.source = s}

\* The links chosen are links there are, no more than max of a source.
LEMMA StrongestFacts ==
  ASSUME NEW links, IsFiniteSet(links), NEW max \in Nat, NEW some \in Strongest(links, max)
  PROVE  /\ some \subseteq links /\ IsFiniteSet(some)
         /\ \A s : Cardinality(From(s, some)) <= max
<1>1. /\ some \subseteq links
      /\ \A s \in {l.source : l \in links} :
            Cardinality(From(s, some)) = Min({max, Cardinality(From(s, links))})
  BY DEF Strongest, From
<1>2. ASSUME NEW s PROVE Cardinality(From(s, some)) <= max
  <2>1. CASE s \in {l.source : l \in links}
    <3>1. IsFiniteSet(From(s, links))
      BY FS_Subset DEF From
    <3>2. Cardinality(From(s, links)) \in Nat
      BY <3>1, FS_CardinalityType
    <3> QED BY <1>1, <2>1, <3>2, MinOfTwo
  <2>2. CASE s \notin {l.source : l \in links}
    <3>1. From(s, some) = {}
      BY <1>1, <2>2 DEF From
    <3> QED BY <3>1, FS_EmptySet
  <2> QED BY <2>1, <2>2
<1> QED BY <1>1, <1>2, FS_Subset

\* Fewer links are no more of any source.
LEMMA FewerLinks ==
  ASSUME NEW some, IsFiniteSet(some), NEW less, less \subseteq some, NEW max \in Nat,
         \A s : Cardinality(From(s, some)) <= max
  PROVE  IsFiniteSet(less) /\ \A s : Cardinality(From(s, less)) <= max
<1>1. ASSUME NEW s PROVE Cardinality(From(s, less)) <= max
  <2>1. IsFiniteSet(From(s, some)) /\ From(s, less) \subseteq From(s, some)
    BY FS_Subset DEF From
  <2>2. IsFiniteSet(From(s, less)) /\ Cardinality(From(s, less)) <= Cardinality(From(s, some))
    BY <2>1, FS_Subset
  <2>3. Cardinality(From(s, less)) \in Nat /\ Cardinality(From(s, some)) \in Nat
    BY <2>1, <2>2, FS_CardinalityType
  <2>4. Cardinality(From(s, some)) <= max
    OBVIOUS
  <2> QED BY <2>2, <2>3, <2>4
<1> QED BY <1>1, FS_Subset

\* A sequence has no more elements than places.
LEMMA FewElements ==
  ASSUME NEW K, NEW s \in Seq(K)
  PROVE  IsFiniteSet(ToSet(s)) /\ Len(s) \in Nat /\ Cardinality(ToSet(s)) <= Len(s)
<1>1. DOMAIN s = 1..Len(s) /\ Len(s) \in Nat /\ ToSet(s) = {s[i] : i \in 1..Len(s)}
  BY DEF ToSet
<1>2. IsFiniteSet(1..Len(s)) /\ Cardinality(1..Len(s)) = Len(s)
  BY <1>1, FS_Interval
<1>3. IsFiniteSet(ToSet(s)) /\ Cardinality(ToSet(s)) <= Cardinality(1..Len(s))
  BY <1>1, <1>2, ImageFinite
<1> QED BY <1>1, <1>2, <1>3

\* What load_graph_filtered keeps of a database: keys trusted enough, and links that
\* join them, no more than max of a source.
Sound(h, keys, links, max) ==
    /\ h = [order |-> h.order, links |-> h.links]
    /\ h.order \in Seq(keys)
    /\ h.links \subseteq links /\ IsFiniteSet(h.links)
    /\ \A s : Cardinality(From(s, h.links)) <= max
    /\ \A l \in h.links : {l.source, l.target} \subseteq ToSet(h.order)

\* Leaving out nodes and the links that they end keeps an answer of that kind.
LEMMA LessIsSound ==
  ASSUME NEW keys, NEW links, NEW max \in Nat, NEW h, Sound(h, keys, links, max),
         NEW order \in Seq(keys), NEW left, left \subseteq h.links,
         \A l \in left : {l.source, l.target} \subseteq ToSet(order)
  PROVE  Sound([order |-> order, links |-> left], keys, links, max)
<1>1. IsFiniteSet(left) /\ \A s : Cardinality(From(s, left)) <= max
  BY FewerLinks DEF Sound
<1> QED BY <1>1 DEF Sound

\* The search around the first node leaves an answer of that kind.
LEMMA NearSound ==
  ASSUME NEW keys, NEW links, NEW max \in Nat, NEW g, Sound(g, keys, links, max), NEW limit \in Nat
  PROVE  /\ Sound(Near(g, limit), keys, links, max)
         /\ ToSet(Near(g, limit).order) \subseteq
                Visited(Head(g.order), Len(g.order), g.links, limit)
<1> DEFINE seen == Visited(Head(g.order), Len(g.order), g.links, limit)
           left == {l \in g.links : limit > 0 /\ l.source \in seen /\ l.target \in seen}
<1>1. Near(g, limit) = [order |-> Kept(g.order, seen), links |-> left]
  BY DEF Near
<1>2. left \subseteq g.links /\ \A l \in left : l.source \in seen /\ l.target \in seen
  OBVIOUS
<1> HIDE DEF seen, left
<1>3. Kept(g.order, seen) \in Seq(keys) /\ ToSet(Kept(g.order, seen)) = ToSet(g.order) \cap seen
  BY KeptElements DEF Sound
<1>4. \A l \in left : {l.source, l.target} \subseteq ToSet(Kept(g.order, seen))
  BY <1>2, <1>3 DEF Sound
<1>5. Sound([order |-> Kept(g.order, seen), links |-> left], keys, links, max)
  BY <1>2, <1>3, <1>4, LessIsSound
<1> QED BY <1>1, <1>3, <1>5 DEF seen

\* The nodes ordered by trust are all of those trusted enough, the first one the most.
LEMMA OrderFacts ==
  ASSUME NEW trusts, NEW keys, IsFiniteSet(keys), keys # {}, \A k \in keys : trusts[k] \in Int,
         NEW o \in Orders(keys, trusts)
  PROVE  /\ o \in Seq(keys) /\ ToSet(o) = keys /\ Len(o) \in Nat
         /\ Head(o) \in keys /\ \A k \in keys : trusts[k] <= trusts[Head(o)]
<1> DEFINE n == Cardinality(keys)
<1>1. n \in Nat /\ n # 0
  BY FS_CardinalityType, FS_EmptySet
<1>2. /\ o \in [1..n -> keys] /\ \A k \in keys : \E i \in 1..n : o[i] = k
      /\ \A i, j \in 1..n : i < j => trusts[o[i]] >= trusts[o[j]]
  BY DEF Orders, Bijection, Injection, Surjection
<1> HIDE DEF n
<1>3. o \in Seq(keys) /\ ToSet(o) = keys /\ Len(o) = n /\ 1 \in 1..n
  BY <1>1, <1>2 DEF ToSet
<1>4. Head(o) = o[1]
  BY <1>1, <1>3
<1>5. ASSUME NEW k \in keys PROVE trusts[k] <= trusts[o[1]]
  <2>1. PICK i \in 1..n : o[i] = k
    BY <1>2
  <2>2. CASE i = 1
    BY <2>1, <2>2
  <2>3. CASE i # 1
    <3>1. 1 < i
      BY <2>3
    <3>2. trusts[o[1]] >= trusts[o[i]] /\ o[1] \in keys
      BY <1>2, <1>3, <3>1
    <3> QED BY <2>1, <3>2
  <2> QED BY <2>2, <2>3
<1> QED BY <1>1, <1>2, <1>3, <1>4, <1>5

\* load_graph_filtered answers with trusted nodes and links that join them; with a
\* depth, the nodes are found by a search from one with the highest trust.
LEMMA FilteredFacts ==
  ASSUME NEW author, NEW rows, IsFiniteSet(rows),
         NEW trusts, IsFiniteSet(DOMAIN trusts), \A k \in DOMAIN trusts : trusts[k] \in Int,
         NEW q, q.minScore \in Int, q.maxLinks \in Nat, q.depth \in Int,
         NEW h \in Filtered(author, rows, trusts, q),
         NEW keys, keys = {k \in DOMAIN trusts : trusts[k] >= q.minScore}
  PROVE  /\ Sound(h, keys, Links(author, rows), q.maxLinks)
         /\ q.depth >= 0 /\ keys # {} =>
              \E center \in DOMAIN trusts, n \in Nat, some \in SUBSET Links(author, rows) :
                 /\ \A k \in DOMAIN trusts : trusts[k] <= trusts[center]
                 /\ ToSet(h.order) \subseteq Visited(center, n, some, q.depth)
<1> DEFINE links == Links(author, rows)
           among == Among(links, keys)
           chosen == Strongest(among, q.maxLinks)
           whole == [order : Orders(keys, trusts), links : chosen]
<1>1. IsFiniteSet(links) /\ IsFiniteSet(keys)
  BY LinksFinite, FS_Subset
<1>2. /\ keys = {} => h = [order |-> <<>>, links |-> {}]
      /\ keys # {} /\ q.depth < 0 => h \in whole
      /\ keys # {} /\ ~ (q.depth < 0) => \E g \in whole : h = Near(g, q.depth)
  BY DEF Filtered
<1> HIDE DEF links
<1>3. among \subseteq links /\ \A l \in among : l.source \in keys /\ l.target \in keys
  BY DEF Among
<1> HIDE DEF among
<1>4. IsFiniteSet(among)
  BY <1>1, <1>3, FS_Subset
<1>5. ASSUME keys # {}, NEW g \in whole
      PROVE  /\ Sound(g, keys, links, q.maxLinks) /\ Len(g.order) \in Nat /\ g.links \subseteq links
             /\ Head(g.order) \in keys /\ \A k \in keys : trusts[k] <= trusts[Head(g.order)]
  <2>1. /\ g = [order |-> g.order, links |-> g.links]
        /\ g.order \in Orders(keys, trusts) /\ g.links \in chosen
    OBVIOUS
  <2> HIDE DEF chosen
  <2>2. /\ g.order \in Seq(keys) /\ ToSet(g.order) = keys /\ Len(g.order) \in Nat
        /\ Head(g.order) \in keys /\ \A k \in keys : trusts[k] <= trusts[Head(g.order)]
    BY <1>1, <1>5, <2>1, OrderFacts
  <2>3. /\ g.links \subseteq among /\ IsFiniteSet(g.links)
        /\ \A s : Cardinality(From(s, g.links)) <= q.maxLinks
    BY <1>4, <2>1, StrongestFacts DEF chosen
  <2> QED BY <1>3, <2>1, <2>2, <2>3 DEF Sound
<1> HIDE DEF whole
<1>6. CASE keys = {}
  <2>1. \A s : From(s, {}) = {}
    BY DEF From
  <2> HIDE DEF From
  <2>2. /\ h = [order |-> h.order, links |-> h.links] /\ h.order = <<>> /\ h.links = {}
        /\ <<>> \in Seq(keys)
    BY <1>2, <1>6
  <2>3. IsFiniteSet({}) /\ Cardinality({}) <= q.maxLinks
    BY FS_EmptySet
  <2>4. \A s : Cardinality(From(s, h.links)) <= q.maxLinks
    BY <2>1, <2>2, <2>3
  <2> QED BY <1>6, <2>2, <2>3, <2>4 DEF Sound
<1>7. CASE keys # {} /\ q.depth < 0
  BY <1>2, <1>5, <1>7 DEF links
<1>8. CASE keys # {} /\ ~ (q.depth < 0)
  <2>1. PICK g \in whole : h = Near(g, q.depth)
    BY <1>2, <1>8
  <2>2. /\ Sound(g, keys, links, q.maxLinks) /\ Len(g.order) \in Nat /\ g.links \subseteq links
        /\ Head(g.order) \in keys /\ \A k \in keys : trusts[k] <= trusts[Head(g.order)]
    BY <1>5, <1>8
  <2>3. q.depth \in Nat
    BY <1>8
  <2>4. /\ Sound(h, keys, links, q.maxLinks)
        /\ ToSet(h.order) \subseteq Visited(Head(g.order), Len(g.order), g.links, q.depth)
    BY <2>1, <2>2, <2>3, NearSound
  <2>5. ASSUME NEW k \in DOMAIN trusts PROVE trusts[k] <= trusts[Head(g.order)]
    <3>1. CASE k \in keys
      BY <2>2, <3>1
    <3>2. CASE k \notin keys
      <4>1. trusts[k] < q.minScore /\ trusts[Head(g.order)] >= q.minScore
        BY <2>2, <3>2
      <4>2. trusts[k] \in Int /\ trusts[Head(g.order)] \in Int
        BY <2>2
      <4> QED BY <4>1, <4>2
    <3> QED BY <3>1, <3>2
  <2>6. Head(g.order) \in DOMAIN trusts
    BY <2>2
  <2> QED BY <2>2, <2>4, <2>5, <2>6 DEF links
<1> QED BY <1>6, <1>7, <1>8

\* The list of nodes that is cut, and filtered by priority, is a sound answer still, but
\* for the links when a priority leaves out nodes.
LEMMA LimitedFacts ==
  ASSUME NEW keys, NEW links, NEW max, NEW h, Sound(h, keys, links, max),
         NEW passing, NEW limit, max \in Nat /\ limit \in Nat,
         NEW g, g = Limited(Prioritised(h, passing), limit)
  PROVE  /\ g.order \in Seq(keys) /\ ToSet(g.order) \subseteq ToSet(h.order)
         /\ Cardinality(ToSet(g.order)) <= limit
         /\ g.links \subseteq h.links
         /\ keys \subseteq passing => \A l \in g.links : {l.source, l.target} \subseteq ToSet(g.order)
<1> DEFINE kept == Kept(h.order, passing)
           first == SubSeq(kept, 1, limit)
<1>1. kept \in Seq(keys) /\ ToSet(kept) = ToSet(h.order) \cap passing
  BY KeptElements DEF Sound
<1>2. Prioritised(h, passing) = [order |-> kept, links |-> h.links]
  BY DEF Prioritised, Sound
<1> DEFINE shown == Prioritised(h, passing)
<1> HIDE DEF kept
<1>3. shown.order = kept /\ shown.links = h.links /\ g = Limited(shown, limit)
  BY <1>2
<1>4. CASE Len(kept) <= limit
  <2>1. g = [order |-> kept, links |-> h.links]
    BY <1>2, <1>3, <1>4 DEF Limited
  <2>2. Cardinality(ToSet(kept)) <= limit
    <3>1. Cardinality(ToSet(kept)) <= Len(kept) /\ IsFiniteSet(ToSet(kept)) /\ Len(kept) \in Nat
      BY <1>1, FewElements
    <3> QED BY <1>4, <3>1, FS_CardinalityType
  <2>3. ASSUME keys \subseteq passing PROVE ToSet(kept) = ToSet(h.order)
    <3>1. ToSet(h.order) \subseteq keys
      BY ToSetElements DEF Sound
    <3> QED BY <1>1, <2>3, <3>1
  <2>4. ASSUME keys \subseteq passing, NEW l \in h.links PROVE {l.source, l.target} \subseteq ToSet(kept)
    BY <2>3, <2>4 DEF Sound
  <2>5. g.order = kept /\ g.links = h.links
    BY <2>1
  <2> QED BY <1>1, <2>2, <2>4, <2>5
<1>5. CASE ~ (Len(kept) <= limit)
  <2>1. g = [order |-> first, links |-> Among(h.links, {first[i] : i \in DOMAIN first})]
    <3> HIDE DEF shown, first
    <3>1. g = [order |-> first, links |-> Among(shown.links, {first[i] : i \in DOMAIN first})]
      BY <1>3, <1>5 DEF Limited, first
    <3> QED BY <1>3, <3>1
  <2>2. /\ first \in Seq(keys) /\ Len(first) = limit
        /\ \A i \in 1..limit : first[i] = kept[i] /\ i \in 1..Len(kept)
    BY <1>1, <1>5
  <2> HIDE DEF first
  <2>3. ToSet(first) = {first[i] : i \in DOMAIN first} /\ ToSet(first) \subseteq ToSet(kept)
    BY <1>1, <2>2 DEF ToSet
  <2>4. Cardinality(ToSet(first)) <= limit
    BY <2>2, FewElements
  <2>5. g.order = first /\ g.links = Among(h.links, ToSet(first))
    BY <2>1, <2>3
  <2>6. g.links \subseteq h.links /\ \A l \in g.links : {l.source, l.target} \subseteq ToSet(first)
    BY <2>5 DEF Among
  <2> QED BY <1>1, <2>2, <2>3, <2>4, <2>5, <2>6
<1> QED BY <1>4, <1>5

\* What the parameters of a query are.
Asking(q) ==
    q.minScore \in Int /\ q.maxLinks \in Nat /\ q.depth \in Int /\ q.limit \in Nat

\* GET /graph/json answers with trusted nodes, no more than limit, and links of the
\* database, no more than maxLinks of a source, that join nodes of the answer unless a
\* priority left them out; with a depth, the nodes are found from a most trusted one.
LEMMA AnswerFacts ==
  ASSUME NEW author, NEW rows, IsFiniteSet(rows),
         NEW trusts, IsFiniteSet(DOMAIN trusts), \A k \in DOMAIN trusts : trusts[k] \in Int,
         NEW q, Asking(q), NEW g \in GraphJson(author, rows, trusts, q)
  PROVE  /\ \A k \in ToSet(g.order) : k \in DOMAIN trusts /\ trusts[k] >= q.minScore
         /\ Cardinality(ToSet(g.order)) <= q.limit
         /\ g.links \subseteq Links(author, rows)
         /\ \A s : Cardinality(From(s, g.links)) <= q.maxLinks
         /\ DOMAIN trusts \subseteq q.passing =>
              \A l \in g.links : {l.source, l.target} \subseteq ToSet(g.order)
         /\ q.depth >= 0 /\ ToSet(g.order) # {} =>
              \E center \in DOMAIN trusts, n \in Nat, some \in SUBSET Links(author, rows) :
                 /\ \A k \in DOMAIN trusts : trusts[k] <= trusts[center]
                 /\ ToSet(g.order) \subseteq Visited(center, n, some, q.depth)
<1> DEFINE keys == {k \in DOMAIN trusts : trusts[k] >= q.minScore}
           links == Links(author, rows)
<1>1. q.minScore \in Int /\ q.maxLinks \in Nat /\ q.depth \in Int /\ q.limit \in Nat
  BY DEF Asking
<1>2. PICK h \in Filtered(author, rows, trusts, q) : g = Limited(Prioritised(h, q.passing), q.limit)
  BY DEF GraphJson
<1>3. /\ Sound(h, keys, links, q.maxLinks)
      /\ q.depth >= 0 /\ keys # {} =>
           \E center \in DOMAIN trusts, n \in Nat, some \in SUBSET links :
              /\ \A k \in DOMAIN trusts : trusts[k] <= trusts[center]
              /\ ToSet(h.order) \subseteq Visited(center, n, some, q.depth)
  BY <1>1, <1>2, FilteredFacts
<1>4. keys \subseteq DOMAIN trusts /\ \A k \in keys : trusts[k] >= q.minScore
  OBVIOUS
<1> HIDE DEF keys, links
<1>5. /\ g.order \in Seq(keys) /\ ToSet(g.order) \subseteq ToSet(h.order)
      /\ Cardinality(ToSet(g.order)) <= q.limit
      /\ g.links \subseteq h.links
      /\ keys \subseteq q.passing => \A l \in g.links : {l.source, l.target} \subseteq ToSet(g.order)
  BY <1>1, <1>2, <1>3, LimitedFacts
<1>6. ToSet(g.order) \subseteq keys
  BY <1>5, ToSetElements
<1>7. g.links \subseteq links /\ \A s : Cardinality(From(s, g.links)) <= q.maxLinks
  BY <1>1, <1>3, <1>5, FewerLinks DEF Sound
<1>8. q.depth >= 0 /\ ToSet(g.order) # {} =>
        \E center \in DOMAIN trusts, n \in Nat, some \in SUBSET links :
           /\ \A k \in DOMAIN trusts : trusts[k] <= trusts[center]
           /\ ToSet(g.order) \subseteq Visited(center, n, some, q.depth)
  <2>1. ToSet(g.order) # {} => keys # {}
    BY <1>6
  <2> QED BY <1>3, <1>5, <2>1
<1> QED BY <1>4, <1>5, <1>6, <1>7, <1>8 DEF links

-----------------------------------------------------------------------------
(* The database under the answers.                                            *)

\* The votes and the ratings a query reads, as the types of the database have them.
LEMMA QueryData ==
  ASSUME TypeOK, NEW trusts \in [Rated -> Trust]
  PROVE  /\ IsFiniteSet(votes) /\ IsFiniteSet(DOMAIN trusts) /\ DOMAIN trusts \subseteq Key
         /\ \A k \in DOMAIN trusts : trusts[k] \in Int
         /\ \A l \in Links(Author, votes) : /\ l.source \in Key /\ l.target \in Key
                                            /\ l.total > 0 /\ l.pos <= l.total
<1>1. IsFiniteSet(votes) /\ \A v \in votes : v.by \in Key \cup {Unsigned} /\ v.ev \in EventId
  BY DEF TypeOK, Rows, Vote
<1>2. \A v \in votes : Author[v.ev] \in Key \cup {Unsigned}
  <2> SUFFICES ASSUME NEW v \in votes PROVE Author[v.ev] \in Key \cup {Unsigned}
    OBVIOUS
  <2>1. events[v.ev] \in Event /\ events[v.ev] # NoRow /\ v.ev \in EventId
    BY DEF TypeOK, Rows, Refer, Vote
  <2> QED BY <2>1 DEF Author, Event
<1>3. DOMAIN trusts = Rated /\ Rated \subseteq Key
  BY DEF Rated
<1>4. IsFiniteSet(Rated)
  <2>1. IsFiniteSet({v.by : v \in votes})
    BY <1>1, EndsFinite
  <2>2. IsFiniteSet({Author[e] : e \in EventId})
    <3>1. DOMAIN Author = EventId /\ IsFiniteSet(EventId)
      BY BaseAssump, FS_Interval DEF Author, EventId
    <3> QED BY <3>1, ImageFinite
  <2> QED BY <2>1, <2>2, FS_Union, FS_Intersection DEF Rated
<1>5. \A k \in DOMAIN trusts : trusts[k] \in Int
  BY <1>3, BaseAssump
<1>6. ASSUME NEW l \in Links(Author, votes)
      PROVE  l.source \in Key /\ l.target \in Key /\ l.total > 0 /\ l.pos <= l.total
  BY <1>1, <1>2, LinkFacts
<1> QED BY <1>1, <1>3, <1>4, <1>5, <1>6

\* The queries. Every link in an answer stands for votes.
LEMMA QueryTypeOK ==
  ASSUME TypeOK, GetGraph \/ \E q \in Query : GetGraphJson(q)
  PROVE  TypeOK'
<1>1. CASE GetGraph
  <2>1. answer'.g.links = Links(Author, votes)
    BY <1>1 DEF GetGraph, FullGraph
  <2>2. \A l \in answer'.g.links : l.total > 0 /\ l.pos <= l.total
    <3>1. IsFiniteSet(votes)
      BY DEF TypeOK, Rows
    <3> QED BY <2>1, <3>1, LinkFacts
  <2> QED BY <1>1, <2>2 DEF GetGraph, TypeOK, Rows, Refer, base, ghost, InExport, At
<1>2. ASSUME NEW q \in Query, GetGraphJson(q) PROVE TypeOK'
  <2>1. trust' \in [Rated -> Trust]
    BY <1>2 DEF GetGraphJson
  <2>2. /\ IsFiniteSet(votes) /\ IsFiniteSet(DOMAIN trust') /\ DOMAIN trust' \subseteq Key
        /\ \A k \in DOMAIN trust' : trust'[k] \in Int
        /\ \A l \in Links(Author, votes) : l.total > 0 /\ l.pos <= l.total
    BY <2>1, QueryData
  <2>3. PICK g \in GraphJson(Author, votes, trust', q) : answer' = [q |-> q, g |-> g]
    BY <1>2 DEF GetGraphJson
  <2>5. Asking(q)
    BY BaseAssump DEF Asking
  <2>6. g.links \subseteq Links(Author, votes)
    BY <2>2, <2>3, <2>5, AnswerFacts
  <2>7. \A l \in answer'.g.links : l.total > 0 /\ l.pos <= l.total
    BY <2>2, <2>3, <2>6
  <2>8. DOMAIN trust' \subseteq Key /\ trust' \in [DOMAIN trust' -> Trust]
    BY <2>1, <2>2
  <2> QED BY <1>2, <2>7, <2>8 DEF GetGraphJson, TypeOK, Rows, Refer, base, ghost, InExport, At
<1> QED BY <1>1, <1>2

\* The database that is found is one of rows.
LEMMA InitTypeOK == Init => TypeOK
<1> SUFFICES ASSUME Init PROVE TypeOK
  OBVIOUS
<1>1. PICK d \in Database : /\ cols = d.cols /\ reference = [t \in ToSet(Table) |-> d.locale]
                            /\ events = d.events /\ votes = d.votes
                            /\ last = Max({0} \cup {e \in EventId : d.events[e] # NoRow})
  BY DEF Init
<1>2. /\ d.cols \subseteq ToSet(Column) /\ d.locale \in Locale \cup {NoRow}
      /\ Rows(d.events, d.votes) /\ Refer(d.events, d.votes)
  BY BaseAssump
<1>3. last \in 0..MaxEvent /\ \A e \in EventId : events[e] # NoRow => e <= last
  <2> DEFINE S == {0} \cup {e \in EventId : d.events[e] # NoRow}
  <2>1. S \subseteq 0..MaxEvent /\ S # {} /\ MaxEvent \in Nat
    BY BaseAssump DEF EventId
  <2>2. last = Max(S)
    BY <1>1
  <2>3. \A e \in EventId : events[e] # NoRow => e \in S
    BY <1>1
  <2> HIDE DEF S
  <2> QED BY <2>1, <2>2, <2>3, MaxOfNumbers
<1>4. trust = [k \in {} |-> 0] /\ DOMAIN trust = {}
  BY DEF Init
<1>5. trust \in [DOMAIN trust -> Trust]
  BY <1>4
<1> QED BY <1>1, <1>2, <1>3, <1>4, <1>5 DEF Init, TypeOK, InExport, At, Closed

\* Every row refers to a row, no id is above the last one given out, ratings belong to
\* keys, and each link of an answer stands for votes, whatever processes do to the file.
THEOREM TypeCorrect == Spec => []TypeOK
<1>1. TypeOK /\ [Next]_vars => TypeOK'
  <2> SUFFICES ASSUME TypeOK, [Next]_vars PROVE TypeOK'
    OBVIOUS
  <2>1. ASSUME NEW p \in Proc, OpenDb(p) \/ HasColumn(p) \/ AlterTable(p) \/ Kill(p) PROVE TypeOK'
    BY <2>1, OpeningTypeOK
  <2>2. CASE SeedServer \/ \E p \in Proc, l \in Locale : Seed(p, l)
    BY <2>2, SeedingTypeOK
  <2>3. ASSUME NEW p \in Proc,
               \/ AddEvent(p)
               \/ \E e \in EventId : \/ \E verdict \in BOOLEAN : SetEventDetected(p, e, verdict)
                                     \/ \E id \in VoteId, value \in BOOLEAN : AddImpact(p, id, e, value)
                                     \/ \E r \in Reply : Assess(p, e, r)
               \/ \E k \in Key : JudgmentsPost(k)
        PROVE  TypeOK'
    BY <2>3, RecordingTypeOK
  <2>4. ASSUME NEW p \in Proc,
               \/ ExportEvents(p) \/ ExportImpacts
               \/ \E f \in Archive \cup ({file} \ {NoRow}) : ImportFromJson(p, f)
        PROVE  TypeOK'
    BY <2>4, FilesTypeOK
  <2>5. CASE GetGraph \/ \E q \in Query : GetGraphJson(q)
    BY <2>5, QueryTypeOK
  <2>6. CASE UNCHANGED vars
    BY <2>6 DEF vars, base, ghost, TypeOK, Rows, Refer, InExport, At
  <2>7. "server" \in Proc
    BY DEF Proc
  <2> QED BY <2>1, <2>2, <2>3, <2>4, <2>5, <2>6, <2>7 DEF Next
<1> QED BY <1>1, InitTypeOK, PTL DEF Spec

-----------------------------------------------------------------------------
(* Opening and seeding.                                                       *)

\* While no two processes were opening the file at a time, one at most is, and the
\* column it adds is not there.
OneOpens ==
    ~raced => /\ \A p, q \in Proc : Opening(p) /\ Opening(q) => p = q
              /\ \A p \in Proc : At(p, "alter") => job[p].col \notin cols
              /\ failed = {}

\* A step of a process that is not opening the file, or goes on to stop.
LEMMA OneOpensKept ==
  ASSUME TypeOK, OneOpens, UNCHANGED <<cols, raced, failed>>,
         \A p \in Proc : job'[p] = job[p] \/ ~ Opening(p)'
  PROVE  OneOpens'
  BY DEF OneOpens, Opening, At

\* An operation is carried out with the file open.
LEMMA OperateOpens ==
  ASSUME TypeOK, NEW p \in Proc, Operate(p)
  PROVE  UNCHANGED <<cols, raced, failed>> /\ \A q \in Proc : job'[q] = job[q] \/ ~ Opening(q)'
  BY DEF Operate, TypeOK, Opening, Closed

\* run_migrations fails in a process only if another was migrating the file beside it.
THEOREM MigrationsFailOnlyInRace == Spec => []OpenFailsOnlyInRace
<1>1. Init => OneOpens
  BY DEF Init, OneOpens, Opening, At, Closed
<1>2. TypeOK /\ OneOpens /\ [Next]_vars => OneOpens'
  <2> SUFFICES ASSUME TypeOK, OneOpens, [Next]_vars PROVE OneOpens'
    OBVIOUS
  <2>1. ASSUME NEW p \in Proc, OpenDb(p) PROVE OneOpens'
    BY <2>1 DEF OpenDb, Goto, At, OneOpens, Opening, TypeOK, base
  <2>2. ASSUME NEW p \in Proc, HasColumn(p) PROVE OneOpens'
    <3>1. UNCHANGED <<cols, raced, failed>>
      BY <2>2 DEF HasColumn, base, ghost
    <3>2. \A q \in Proc : Opening(q)' => Opening(q)
      BY <2>2 DEF HasColumn, TypeOK, Opening, At
    <3>3. \A q \in Proc : At(q, "alter")' => (At(q, "alter") /\ job'[q] = job[q]) \/ job'[q].col \notin cols
      BY <2>2, FirstMissing DEF HasColumn, TypeOK, Opened, At
    <3> QED BY <3>1, <3>2, <3>3 DEF OneOpens, At
  <2>3. ASSUME NEW p \in Proc, AlterTable(p) PROVE OneOpens'
    <3>1. ASSUME ~raced PROVE \A q \in Proc : q # p => ~ Opening(q)
      BY <2>3, <3>1 DEF AlterTable, OneOpens, Opening, At
    <3>2. ASSUME ~raced PROVE job[p].col \notin cols
      BY <2>3, <3>2 DEF AlterTable, OneOpens
    <3> QED BY <2>3, <3>1, <3>2 DEF AlterTable, OneOpens, Opening, At, TypeOK, Closed
  <2>4. ASSUME NEW p \in Proc, Kill(p) PROVE OneOpens'
    BY <2>4, OneOpensKept DEF Kill, base, ghost, TypeOK, Opening, Closed
  <2>5. ASSUME NEW p \in Proc,
               \/ AddEvent(p) \/ ExportEvents(p)
               \/ \E l \in Locale : Seed(p, l)
               \/ \E e \in EventId : \/ \E verdict \in BOOLEAN : SetEventDetected(p, e, verdict)
                                     \/ \E id \in VoteId, value \in BOOLEAN : AddImpact(p, id, e, value)
                                     \/ \E r \in Reply : Assess(p, e, r)
               \/ \E f \in Archive \cup ({file} \ {NoRow}) : ImportFromJson(p, f)
               \/ \E k \in Key : p = "server" /\ JudgmentsPost(k)
        PROVE  OneOpens'
    <3>1. Operate(p)
      BY <2>5 DEF AddEvent, ExportEvents, Seed, SetEventDetected, AddImpact, Assess,
         ImportFromJson, JudgmentsPost
    <3> QED BY <3>1, OneOpensKept, OperateOpens
  <2>6. CASE SeedServer
    BY <2>6, OneOpensKept DEF SeedServer, Goto, At, TypeOK, Opening, ghost
  <2>7. CASE ExportImpacts \/ GetGraph \/ \E q \in Query : GetGraphJson(q)
    BY <2>7, OneOpensKept DEF ExportImpacts, GetGraph, GetGraphJson, base, ghost
  <2>8. CASE UNCHANGED vars
    BY <2>8, OneOpensKept DEF vars, base, ghost
  <2>9. "server" \in Proc
    BY DEF Proc
  <2> QED BY <2>1, <2>2, <2>3, <2>4, <2>5, <2>6, <2>7, <2>8, <2>9 DEF Next
<1>3. OneOpens => OpenFailsOnlyInRace
  BY DEF OneOpens, OpenFailsOnlyInRace
<1> QED BY <1>1, <1>2, <1>3, TypeCorrect, PTL DEF Spec

\* The reference tables are in one language at any time: seeding fills all that are empty,
\* and none is without the others.
THEOREM LocaleIsOne == Spec => []OneLocale
<1>1. Init => OneLocale
  BY DEF Init, OneLocale
<1>2. TypeOK /\ OneLocale /\ [Next]_vars => OneLocale'
  <2> SUFFICES ASSUME TypeOK, OneLocale, [Next]_vars PROVE OneLocale'
    OBVIOUS
  <2>1. ASSUME NEW l, reference' \in Outcomes(l) PROVE OneLocale'
    BY <2>1 DEF Outcomes, Seeded, OneLocale, TypeOK
  <2>2. CASE SeedServer \/ \E p \in Proc, l \in Locale : Seed(p, l)
    BY <2>1, <2>2 DEF SeedServer, Seed
  <2>3. CASE UNCHANGED reference
    BY <2>3 DEF OneLocale
  <2>4. CASE ~ (SeedServer \/ \E p \in Proc, l \in Locale : Seed(p, l))
    BY <2>3, <2>4 DEF Next, vars, base, OpenDb, HasColumn, AlterTable, Kill, AddEvent, SetEventDetected,
       AddImpact, Assess, ExportEvents, ImportFromJson, ExportImpacts, JudgmentsPost, GetGraph,
       GetGraphJson
  <2> QED BY <2>2, <2>4
<1> QED BY <1>1, <1>2, TypeCorrect, PTL DEF Spec

-----------------------------------------------------------------------------
(* Assessments.                                                               *)

\* The product that evaluate_answers compares is large enough only if the answers are.
LEMMA ConfidenceBound ==
  ASSUME NEW r \in Reply, Confidence(r).got >= Confidence(r).asked, r.valid > 0
  PROVE  5 * r.valid >= 3 * Question /\ 3 * r.unknown <= 2 * (r.valid + r.other)
<1> DEFINE v == r.valid
           u == r.unknown
           given == r.valid + r.other
<1>1. v \in 1..Question /\ u \in Nat /\ given \in Nat /\ given > 0 /\ Question \in Nat
  BY BaseAssump
<1>2. v * (5 * given - 3 * u) >= (3 * Question) * given
  BY DEF Confidence
<1> HIDE DEF v, u, given
<1>3. v * (5 * given - 3 * u) = (5 * v) * given - 3 * (v * u) /\ v * u \in Nat
  BY <1>1
<1>4. (5 * v) * given >= (3 * Question) * given
  <2> DEFINE a == (5 * v) * given
             b == (3 * Question) * given
             c == v * u
             d == v * (5 * given - 3 * u)
  <2>1. a \in Int /\ b \in Int /\ c \in Nat /\ d = a - 3 * c /\ d >= b
    BY <1>1, <1>2, <1>3
  <2> HIDE DEF a, b, c, d
  <2>2. a >= b
    BY <2>1
  <2> QED BY <2>2 DEF a, b
<1>5. 5 * v >= 3 * Question
  <2> SUFFICES ASSUME 5 * v < 3 * Question PROVE FALSE
    BY <1>1
  <2>1. 5 * v + 1 <= 3 * Question
    BY <1>1
  <2>2. (5 * v + 1) * given <= (3 * Question) * given
    BY <1>1, <2>1
  <2>3. (5 * v + 1) * given = (5 * v) * given + given
    BY <1>1
  <2> QED BY <1>1, <1>4, <2>2, <2>3
<1>6. 3 * u <= 2 * given
  <2> SUFFICES ASSUME 3 * u > 2 * given PROVE FALSE
    BY <1>1
  <2>1. 5 * given - 3 * u <= 3 * given - 1
    BY <1>1
  <2>2. v * (5 * given - 3 * u) <= v * (3 * given - 1)
    BY <1>1, <2>1
  <2>3. v * (3 * given - 1) = (3 * v) * given - v
    BY <1>1
  <2>4. (3 * v) * given <= (3 * Question) * given
    BY <1>1
  <2> QED BY <1>1, <1>2, <2>2, <2>3, <2>4
<1> QED BY <1>5, <1>6 DEF v, u, given

\* An event is marked only after three fifths of the questions were answered, and when
\* no more than two thirds of the replies say "unknown".
THEOREM AssessmentsAreGrounded == Spec => []AssessNeedsAnswers
<1>1. Init => AssessNeedsAnswers
  BY DEF Init, AssessNeedsAnswers
<1>2. AssessNeedsAnswers /\ [Next]_vars => AssessNeedsAnswers'
  <2> SUFFICES ASSUME AssessNeedsAnswers, [Next]_vars PROVE AssessNeedsAnswers'
    OBVIOUS
  <2>1. ASSUME NEW p \in Proc, NEW e \in EventId, NEW r \in Reply, Assess(p, e, r)
        PROVE  AssessNeedsAnswers'
    <3>1. 5 * r.valid >= 3 * Question /\ 3 * r.unknown <= 2 * (r.valid + r.other)
      BY <2>1, ConfidenceBound DEF Assess
    <3>2. hasty' = hasty \cup {r}
      BY <2>1 DEF Assess
    <3> QED BY <3>1, <3>2 DEF AssessNeedsAnswers
  <2>2. CASE UNCHANGED hasty
    BY <2>2 DEF AssessNeedsAnswers
  <2>3. CASE ~ \E p \in Proc, e \in EventId, r \in Reply : Assess(p, e, r)
    BY <2>2, <2>3 DEF Next, vars, ghost, OpenDb, HasColumn, AlterTable, Kill, AddEvent,
       SetEventDetected, AddImpact, Seed, SeedServer, ExportEvents, ImportFromJson, ExportImpacts,
       JudgmentsPost, GetGraph, GetGraphJson
  <2> QED BY <2>1, <2>3
<1> QED BY <1>1, <1>2, PTL DEF Spec

-----------------------------------------------------------------------------
(* Files.                                                                     *)

\* Until rows are written beside an export, the impacts it will read refer to the events
\* it has read; and a file it wrote undisturbed is closed.
ExportInv == ExportClosed /\ (InExport /\ ~torn => Refer(reading, votes))

\* The impacts of a file that was written undisturbed have their events in it.
THEOREM ExportsAreClosed == Spec => []ExportClosed
<1>1. Init => ExportInv
  BY DEF Init, ExportInv, ExportClosed, InExport
<1>2. TypeOK /\ ExportInv /\ [Next]_vars => ExportInv'
  <2> SUFFICES ASSUME TypeOK, ExportInv, [Next]_vars PROVE ExportInv'
    OBVIOUS
  <2>1. ASSUME NEW p \in Proc, ExportEvents(p) PROVE ExportInv'
    BY <2>1 DEF ExportEvents, Exported, ExportInv, ExportClosed, TypeOK, Refer
  <2>2. CASE ExportImpacts
    BY <2>2 DEF ExportImpacts, ExportInv, ExportClosed, Refer, InExport, base, TypeOK
  <2>3. CASE UNCHANGED <<file, reading>> /\ (torn' \/ UNCHANGED <<votes, torn>> \/ ~ InExport)
    BY <2>3 DEF ExportInv, ExportClosed, Refer, InExport
  <2>4. CASE ~ ((\E p \in Proc : ExportEvents(p)) \/ ExportImpacts)
    BY <2>3, <2>4 DEF Next, vars, base, ghost, OpenDb, HasColumn, AlterTable, Kill, AddEvent, SetEventDetected,
       AddImpact, Assess, Seed, SeedServer, ImportFromJson, JudgmentsPost, GetGraph, GetGraphJson
  <2> QED BY <2>1, <2>2, <2>4
<1>3. ExportInv => ExportClosed
  BY DEF ExportInv
<1> QED BY <1>1, <1>2, <1>3, TypeCorrect, PTL DEF Spec

\* A step that adds events of somebody's adds all the events and impacts of one file.
THEOREM ImportsAreWhole == Spec => ImportWhole
<1> DEFINE Whole == (\E e \in Fresh : events'[e].by # Unsigned) =>
                      \E f \in Archive \cup ({file} \ {NoRow}) :
                         /\ Fresh = {e \in EventId : f.events[e] # NoRow}
                         /\ votes' = votes \cup f.votes
<1>1. TypeOK /\ [Next]_vars => Whole
  <2> SUFFICES ASSUME TypeOK, [Next]_vars, NEW x \in Fresh, events'[x].by # Unsigned
               PROVE  \E f \in Archive \cup ({file} \ {NoRow}) :
                         /\ Fresh = {e \in EventId : f.events[e] # NoRow}
                         /\ votes' = votes \cup f.votes
    OBVIOUS
  <2>1. x \in EventId /\ events[x] = NoRow /\ events'[x] # NoRow
    BY DEF Fresh
  <2>2. ~ UNCHANGED events
    BY <2>1
  <2>3. ASSUME NEW p \in Proc, AddEvent(p) PROVE FALSE
    BY <2>1, <2>3 DEF AddEvent, TypeOK, Rows
  <2>4. ASSUME NEW p \in Proc, NEW e \in EventId,
               (\E verdict \in BOOLEAN : SetEventDetected(p, e, verdict)) \/ \E r \in Reply : Assess(p, e, r)
        PROVE  FALSE
    BY <2>1, <2>4 DEF SetEventDetected, Assess, TypeOK, Rows
  <2>5. PICK p \in Proc, f \in Archive \cup ({file} \ {NoRow}) : ImportFromJson(p, f)
    BY <2>2, <2>3, <2>4 DEF Next, vars, base, OpenDb, HasColumn, AlterTable, Kill, AddImpact,
       Seed, SeedServer, ExportEvents, ExportImpacts, JudgmentsPost, GetGraph, GetGraphJson
  <2>6. Accepted(f)
    BY <2>1, <2>5 DEF ImportFromJson, Imported
  <2>7. /\ votes' = votes \cup f.votes
        /\ events' = [e \in EventId |-> IF f.events[e] # NoRow THEN f.events[e] ELSE events[e]]
    BY <2>5, <2>6 DEF ImportFromJson, Imported
  <2>8. \A e \in EventId : f.events[e] # NoRow => events[e] = NoRow
    BY <2>6 DEF Accepted
  <2>9. Fresh = {e \in EventId : f.events[e] # NoRow}
    BY <2>7, <2>8 DEF Fresh
  <2> QED BY <2>7, <2>9
<1> QED BY <1>1, TypeCorrect, PTL DEF Spec, ImportWhole

-----------------------------------------------------------------------------
(* Graph queries.                                                             *)

\* One link more leads from a key to those beside it.
LEMMA OneFurther ==
  ASSUME NEW k, NEW j \in Key, NEW i \in Key, NEW d \in Nat, NEW links,
         Within(k, j, d, links), i \in Beside(j, links)
  PROVE  Within(k, i, d + 1, links)
<1>0. PICK n \in 0..d : \E path \in [0..n -> Key] :
        /\ path[0] = k /\ path[n] = j
        /\ \A m \in 1..n : path[m] \in Beside(path[m - 1], links)
  BY DEF Within
<1>1. PICK path \in [0..n -> Key] :
        /\ path[0] = k /\ path[n] = j
        /\ \A m \in 1..n : path[m] \in Beside(path[m - 1], links)
  BY <1>0
<1> DEFINE longer == [m \in 0..(n + 1) |-> IF m = n + 1 THEN i ELSE path[m]]
<1>2. \A m \in 0..n : m \in 0..(n + 1) /\ m # n + 1 /\ longer[m] = path[m]
  OBVIOUS
<1>3. longer \in [0..(n + 1) -> Key]
  <2>1. ASSUME NEW m \in 0..(n + 1), m # n + 1 PROVE m \in 0..n
    BY <2>1
  <2> QED BY <2>1
<1>4. n \in 0..n /\ 0 \in 0..n /\ n + 1 \in 0..(n + 1) /\ n + 1 \in 0..(d + 1)
  OBVIOUS
<1>5. longer[0] = k /\ longer[n] = j /\ longer[n + 1] = i
  BY <1>1, <1>2, <1>4
<1> HIDE DEF longer
<1>6. ASSUME NEW m \in 1..(n + 1) PROVE longer[m] \in Beside(longer[m - 1], links)
  <2>1. CASE m = n + 1
    <3>1. m - 1 = n
      BY <2>1
    <3> QED BY <1>5, <2>1, <3>1
  <2>2. CASE m # n + 1
    <3>1. m \in 1..n /\ m \in 0..n /\ m - 1 \in 0..n
      BY <2>2
    <3> QED BY <1>1, <1>2, <3>1
  <2> QED BY <2>1, <2>2
<1> QED BY <1>3, <1>4, <1>5, <1>6 DEF Within

\* What the search sees is within the depth it is given.
LEMMA VisitedWithin ==
  ASSUME NEW links, \A l \in links : l.source \in Key /\ l.target \in Key,
         IsFiniteSet(links), NEW some, some \subseteq links,
         NEW center \in Key, NEW n, NEW limit, n \in Nat /\ limit \in Nat
  PROVE  \A k \in Visited(center, n, some, limit) : Within(center, k, limit, links)
<1> DEFINE near == [d \in 0..limit |-> {k \in Key : Within(center, k, d, links)}]
<1>1. center \in near[0]
  <2> DEFINE here == [i \in 0..0 |-> center]
  <2>1. here \in [0..0 -> Key] /\ here[0] = center /\ 0 \in 0..0 /\ 0 \in 0..limit
    OBVIOUS
  <2> HIDE DEF here
  <2>2. \A i \in 1..0 : here[i] \in Beside(here[i - 1], links)
    OBVIOUS
  <2>3. Within(center, center, 0, links)
    BY <2>1, <2>2 DEF Within
  <2> QED BY <2>1, <2>3
<1>2. ASSUME NEW d \in 0..limit PROVE near[d] \subseteq near[limit]
  <2>1. 0..d \subseteq 0..limit /\ limit \in 0..limit
    OBVIOUS
  <2>2. \A k \in Key : Within(center, k, d, links) => Within(center, k, limit, links)
    BY <2>1 DEF Within
  <2> QED BY <2>1, <2>2
<1>3. ASSUME NEW d \in 1..limit, NEW k \in near[d - 1] PROVE Beside(k, some) \subseteq near[d]
  <2>1. d - 1 \in 0..limit /\ d - 1 \in Nat /\ d \in 0..limit /\ (d - 1) + 1 = d
    OBVIOUS
  <2>2. k \in Key /\ Within(center, k, d - 1, links)
    BY <1>3, <2>1
  <2>3. Beside(k, some) \subseteq Beside(k, links) /\ Beside(k, links) \subseteq Key
    BY DEF Beside
  <2>4. ASSUME NEW i \in Beside(k, some) PROVE i \in Key /\ Within(center, i, d, links)
    <3> DEFINE e == d - 1
    <3>1. e \in Nat /\ e + 1 = d /\ Within(center, k, e, links)
      BY <2>1, <2>2
    <3> HIDE DEF e
    <3>2. i \in Key /\ i \in Beside(k, links)
      BY <2>3
    <3>3. Within(center, i, e + 1, links)
      BY <2>2, <3>1, <3>2, OneFurther
    <3> QED BY <3>1, <3>2, <3>3
  <2> QED BY <2>1, <2>4
<1>4. near[limit] = {k \in Key : Within(center, k, limit, links)}
  OBVIOUS
<1> HIDE DEF near
<1>5. IsFiniteSet(some)
  BY FS_Subset
<1>6. Visited(center, n, some, limit) \subseteq near[limit]
  BY <1>1, <1>2, <1>3, <1>5, VisitedNear
<1> QED BY <1>4, <1>6

\* What an answer promises of the database it was given about.
LEMMA QueryAnswers ==
  ASSUME TypeOK, NEW q \in Query, GetGraphJson(q)
  PROVE  GraphAnswers'
<1>1. trust' \in [Rated -> Trust] /\ UNCHANGED <<events, votes>>
  BY DEF GetGraphJson
<1>2. PICK g \in GraphJson(Author, votes, trust', q) : answer' = [q |-> q, g |-> g]
  BY DEF GetGraphJson
<1>3. answer'.q = q /\ answer'.g = g
  BY <1>2
<1> DEFINE links == Links(Author, votes)
           trusts == trust'
<1>4. /\ IsFiniteSet(votes) /\ IsFiniteSet(DOMAIN trusts) /\ DOMAIN trusts \subseteq Key
      /\ \A k \in DOMAIN trusts : trusts[k] \in Int
      /\ \A l \in links : l.source \in Key /\ l.target \in Key
  BY <1>1, QueryData
<1>5. Asking(q) /\ q.passing \subseteq Key
  BY BaseAssump DEF Asking
<1>6. /\ \A k \in ToSet(g.order) : k \in DOMAIN trusts /\ trusts[k] >= q.minScore
      /\ Cardinality(ToSet(g.order)) <= q.limit
      /\ g.links \subseteq links
      /\ \A s : Cardinality(From(s, g.links)) <= q.maxLinks
      /\ DOMAIN trusts \subseteq q.passing =>
           \A l \in g.links : {l.source, l.target} \subseteq ToSet(g.order)
      /\ q.depth >= 0 /\ ToSet(g.order) # {} =>
           \E center \in DOMAIN trusts, n \in Nat, some \in SUBSET links :
              /\ \A k \in DOMAIN trusts : trusts[k] <= trusts[center]
              /\ ToSet(g.order) \subseteq Visited(center, n, some, q.depth)
  BY <1>2, <1>4, <1>5, AnswerFacts
<1>7. IsFiniteSet(links)
  BY <1>4, LinksFinite
<1>8. links = Links(Author, votes)' /\ trusts = trust'
  BY <1>1 DEF Author
<1> HIDE DEF links, trusts
<1>9. GraphClosed'
  <2>1. \A s \in Key : Cardinality({l \in g.links : l.source = s}) <= q.maxLinks
    BY <1>6 DEF From
  <2>2. q.passing = Key => \A l \in g.links : {l.source, l.target} \subseteq ToSet(g.order)
    BY <1>4, <1>6
  <2> QED BY <1>3, <1>6, <1>8, <2>1, <2>2 DEF GraphClosed
<1>10. GraphNear'
  <2>1. ASSUME q.depth >= 0, ToSet(g.order) # {}
        PROVE  \E center \in DOMAIN trusts :
                  /\ \A k \in DOMAIN trusts : trusts[k] <= trusts[center]
                  /\ \A k \in ToSet(g.order) : Within(center, k, q.depth, links)
    <3>1. PICK center \in DOMAIN trusts, n \in Nat, some \in SUBSET links :
              /\ \A k \in DOMAIN trusts : trusts[k] <= trusts[center]
              /\ ToSet(g.order) \subseteq Visited(center, n, some, q.depth)
      BY <1>6, <2>1
    <3> DEFINE limit == q.depth
    <3>2. center \in Key /\ limit \in Nat
      BY <1>4, <1>5, <2>1 DEF Asking
    <3> HIDE DEF limit
    <3>3. \A k \in Visited(center, n, some, limit) : Within(center, k, limit, links)
      BY <1>4, <1>7, <3>1, <3>2, VisitedWithin
    <3> QED BY <3>1, <3>3 DEF limit
  <2> QED BY <1>3, <1>8, <2>1 DEF GraphNear
<1> QED BY <1>9, <1>10 DEF GraphAnswers

\* Every answer of GET /graph/json that is given joins nodes of the answer, keeps to its
\* limits, and stays within the depth asked for of a most trusted key.
THEOREM AnswersHold == Spec => []GraphAnswers
<1>1. Init => GraphAnswers
  BY DEF Init, GraphAnswers, GraphClosed, GraphNear, Asked, NoAnswer
<1>2. TypeOK /\ GraphAnswers /\ [Next]_vars => GraphAnswers'
  <2> SUFFICES ASSUME TypeOK, GraphAnswers, [Next]_vars PROVE GraphAnswers'
    OBVIOUS
  <2>1. ASSUME ~ Asked' PROVE GraphAnswers'
    BY <2>1 DEF GraphAnswers, GraphClosed, GraphNear
  <2>2. ASSUME NEW p \in Proc, Operate(p) PROVE GraphAnswers'
    BY <2>1, <2>2 DEF Operate, Asked, NoAnswer
  <2>3. ASSUME NEW q \in Query, GetGraphJson(q) PROVE GraphAnswers'
    BY <2>3, QueryAnswers
  <2>4. CASE GetGraph
    BY <2>1, <2>4 DEF GetGraph, Asked
  <2>5. ASSUME UNCHANGED <<answer, trust, votes, events>> PROVE GraphAnswers'
    <3>1. UNCHANGED <<Author, Asked, answer, trust, votes>>
      BY <2>5 DEF Author, Asked
    <3> QED BY <3>1 DEF GraphAnswers, GraphClosed, GraphNear
  <2>6. CASE ~ ((\E p \in Proc : Operate(p)) \/ GetGraph \/ \E q \in Query : GetGraphJson(q))
    <3>1. "server" \in Proc
      BY DEF Proc
    <3> QED BY <2>5, <2>6, <3>1 DEF Next, vars, base, ghost, OpenDb, HasColumn, AlterTable, Kill, AddEvent,
          SetEventDetected, AddImpact, Assess, Seed, SeedServer, ExportEvents, ImportFromJson,
          ExportImpacts, JudgmentsPost
  <2> QED BY <2>2, <2>3, <2>4, <2>6
<1> QED BY <1>1, <1>2, TypeCorrect, PTL DEF Spec
================================================================================
