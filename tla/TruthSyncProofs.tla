---------------------------- MODULE TruthSyncProofs ----------------------------
(***************************************************************************)
(* Proofs about TruthSync, for every number of nodes, rows and snapshots.   *)
(***************************************************************************)
EXTENDS TruthSync, FiniteSetTheorems, TLAPS

\* What a job may become, one lemma per kind of step of a process.

\* A process that has nothing to do has a job of the right kind.
LEMMA IdleJobOK == JobOK(IdleJob)
  BY DEF JobOK, IdleJob

\* A reconcile that starts on a batch has a job of the right kind.
LEMMA StartJobOK ==
  ASSUME NEW batch \in Batch
  PROVE  JobOK(StartJob(batch)) /\ StartJob(batch).step = "read"
  BY DEF JobOK, StartJob, IdleJob, Present, Table, Batch

\* A process that reads the tables has a job of the right kind.
LEMMA GatherJobOK ==
  ASSUME NEW m \in Node, NEW table \in EventTable
  PROVE  JobOK([IdleJob EXCEPT !.step = "gather", !.key = m, !.seen = table])
  BY DEF JobOK, IdleJob

\* The job of a row loop that skips row k, and of one that goes on to write it.
LEMMA TakeJobOK ==
  ASSUME NEW j, JobOK(j), j.step = "read", NEW table \in Table,
         \A t \in Before(table) : j.todo[t] = {},
         NEW k \in j.todo[table], NEW seen
  PROVE  LET rest == [j EXCEPT !.todo[table] = @ \ {k}] IN
         /\ JobOK(rest)
         /\ JobOK([rest EXCEPT !.step = "write", !.table = table, !.key = k,
                               !.seen = seen])
<1> DEFINE rest == [j EXCEPT !.todo[table] = @ \ {k}]
           next == [rest EXCEPT !.step = "write", !.table = table, !.key = k,
                                !.seen = seen]
<1>1. /\ DOMAIN j = DOMAIN IdleJob
      /\ j.batch \in Batch
      /\ DOMAIN j.todo = Table
      /\ \A t \in Table : j.todo[t] \subseteq Present(j.batch[t])
  BY DEF JobOK, IdleJob
<1>2. /\ DOMAIN rest = DOMAIN IdleJob
      /\ rest.step = "read" /\ rest.batch = j.batch
      /\ DOMAIN rest.todo = Table
      /\ rest.todo[table] = j.todo[table] \ {k}
      /\ \A t \in Table \ {table} : rest.todo[t] = j.todo[t]
  BY <1>1 DEF IdleJob
<1>3. \A t \in Table : rest.todo[t] \subseteq Present(rest.batch[t])
  BY <1>1, <1>2
<1>4. JobOK(rest)
  BY <1>1, <1>2, <1>3 DEF JobOK
<1>5. table \notin Before(table) /\ Before(table) \subseteq Table
  BY DEF Before, Table
<1>6. /\ DOMAIN next = DOMAIN IdleJob
      /\ next.step = "write" /\ next.batch = j.batch /\ next.todo = rest.todo
      /\ next.table = table /\ next.key = k
  BY <1>2 DEF IdleJob
<1>7. JobOK(next)
  <2> HIDE DEF next, rest
  <2> QED BY <1>1, <1>2, <1>3, <1>5, <1>6 DEF JobOK
<1> QED BY <1>4, <1>7

-----------------------------------------------------------------------------
(* Type correctness.                                                          *)

\* The jobs keep their kind when one process's job is replaced by one of the kind.
LEMMA JobUpdate ==
  ASSUME TypeOK, NEW n \in Node, NEW p \in Process, NEW j, JobOK(j),
         job' = [job EXCEPT ![n][p] = j]
  PROVE  /\ DOMAIN job' = Node
         /\ \A m \in Node : DOMAIN job'[m] = Process
                            /\ \A q \in Process : JobOK(job'[m][q])
  BY DEF TypeOK

\* A row that is put into a table where a row of its kind belongs keeps the table's
\* kind, and no row of the table goes away.
LEMMA PutEvent ==
  ASSUME NEW table \in EventTable, NEW k \in EventId, NEW seen, NEW row \in EventRow
  PROVE  /\ Put(table, k, seen, row) \in EventTable
         /\ Present(table) \subseteq Present(Put(table, k, seen, row))
  BY NoRowAssump DEF Put, EventTable, Present

\* The same for statements.
LEMMA PutStatement ==
  ASSUME NEW table \in StatementTable, NEW k \in StatementId, NEW seen,
         NEW row \in StatementRow
  PROVE  Put(table, k, seen, row) \in StatementTable
  BY DEF Put, StatementTable

\* The same for impacts.
LEMMA PutImpact ==
  ASSUME NEW table \in ImpactTable, NEW i \in ImpactId, NEW seen, NEW row \in EventId
  PROVE  Put(table, i, seen, row) \in ImpactTable
  BY DEF Put, ImpactTable

\* What a reconcile is about to write is a row of the kind of its table, and the
\* loops before that table are over.
LEMMA IncomingRow ==
  ASSUME NEW j, JobOK(j), j.step \in {"write", "log"}
  PROVE  /\ j.batch \in Batch
         /\ DOMAIN j.todo = Table
         /\ \A t \in Table : j.todo[t] \subseteq Present(j.batch[t])
         /\ j.table \in Table
         /\ \A t \in Before(j.table) : j.todo[t] = {}
         /\ j.table = "truth_events" =>
              j.key \in EventId /\ Incoming(j) \in EventRow
         /\ j.table = "statements" =>
              j.key \in StatementId /\ Incoming(j) \in StatementRow
         /\ j.table = "impact" =>
              j.key \in ImpactId /\ Incoming(j) \in EventId
  BY DEF JobOK, IdleJob, Incoming, Present, Batch, EventTable, StatementTable,
         ImpactTable, Table

\* The step that a written or a logged row leaves behind has a job of the kind.
LEMMA WrittenJobOK ==
  ASSUME NEW j, JobOK(j), j.step \in {"write", "log"}
  PROVE  /\ JobOK([j EXCEPT !.step = "log"])
         /\ JobOK([StartJob(j.batch) EXCEPT !.todo = j.todo])
<1>1. JobOK([j EXCEPT !.step = "log"])
  BY DEF JobOK, IdleJob
<1>2. JobOK([StartJob(j.batch) EXCEPT !.todo = j.todo])
  BY IncomingRow DEF JobOK, StartJob, IdleJob
<1> QED BY <1>1, <1>2

\* A step of a row loop.
LEMMA TakeTypeOK ==
  ASSUME TypeOK, NEW n \in Node, NEW p \in Process, NEW table \in Table,
         NEW rows, NEW applied, Take(n, p, table, rows, applied)
  PROVE  TypeOK'
<1>1. JobOK(job[n][p]) /\ job[n][p].step = "read"
  BY DEF TypeOK, Take
<1>2. PICK k \in job[n][p].todo[table] :
        LET rest == [job[n][p] EXCEPT !.todo[table] = @ \ {k}] IN
        job' = [job EXCEPT ![n][p] =
                  IF k \in applied
                  THEN [rest EXCEPT !.step = "write", !.table = table, !.key = k,
                                    !.seen = rows[k]]
                  ELSE rest]
  BY DEF Take
<1>3. PICK j : JobOK(j) /\ job' = [job EXCEPT ![n][p] = j]
  BY <1>1, <1>2, TakeJobOK DEF Take
<1>4. /\ DOMAIN job' = Node
      /\ \A m \in Node : DOMAIN job'[m] = Process
                         /\ \A q \in Process : JobOK(job'[m][q])
  BY <1>3, JobUpdate
<1> QED BY <1>4 DEF TypeOK, Take, tables, logs

\* The local operations.
LEMMA EditTypeOK ==
  ASSUME TypeOK, NEW n \in Node, Edit(n)
  PROVE  TypeOK'
<1>1. CASE \E k \in EventId, ts \in Time : AddEvent(n, k, ts)
  BY <1>1 DEF AddEvent, TypeOK, EventTable, EventRow, logs
<1>2. CASE \E k \in EventId, v \in Verdict : SetEventDetected(n, k, v)
  <2>1. PICK k \in EventId, v \in Verdict : SetEventDetected(n, k, v)
    BY <1>2
  <2>2. events[n] \in EventTable /\ events[n][k] \in EventRow
    BY <2>1 DEF SetEventDetected, TypeOK, EventTable
  <2>3. [events[n][k] EXCEPT !.detected = v] \in EventRow
    BY <2>2 DEF EventRow
  <2>4. [events[n] EXCEPT ![k] = [events[n][k] EXCEPT !.detected = v]] \in EventTable
    BY <2>2, <2>3 DEF EventTable
  <2>5. events' \in [Node -> EventTable]
    BY <2>1, <2>4 DEF SetEventDetected, TypeOK
  <2> QED BY <2>1, <2>5 DEF SetEventDetected, TypeOK, logs
<1>3. CASE \E k \in StatementId, ev \in EventId, s \in Score : AddStatement(n, k, ev, s)
  BY <1>3 DEF AddStatement, TypeOK, StatementTable, StatementRow, logs
<1>4. CASE \E k \in StatementId, s \in Score : UpdateStatementScore(n, k, s)
  <2>1. PICK k \in StatementId, s \in Score : UpdateStatementScore(n, k, s)
    BY <1>4
  <2> DEFINE row == [statements[n][k] EXCEPT !.score = s, !.ts = clock[n]]
  <2>2. statements[n] \in StatementTable /\ statements[n][k] \in StatementRow
    BY <2>1 DEF UpdateStatementScore, TypeOK, StatementTable
  <2>3. row \in StatementRow
    BY <2>2 DEF StatementRow, TypeOK
  <2>4. [statements[n] EXCEPT ![k] = row] \in StatementTable
    BY <2>2, <2>3 DEF StatementTable
  <2>5. statements' = [statements EXCEPT ![n] = [statements[n] EXCEPT ![k] = row]]
    BY <2>1 DEF UpdateStatementScore
  <2>6. statements' \in [Node -> StatementTable]
    BY <2>4, <2>5 DEF TypeOK
  <2> QED BY <2>1, <2>6 DEF UpdateStatementScore, TypeOK, logs
<1>5. CASE \E i \in ImpactId, ev \in EventId : AddImpact(n, i, ev)
  BY <1>5 DEF AddImpact, TypeOK, ImpactTable, logs
<1> QED BY <1>1, <1>2, <1>3, <1>4, <1>5 DEF Edit

\* Snapshots and their transport.
LEMMA TransportTypeOK ==
  ASSUME TypeOK, NEW n \in Node, NEW m \in Node,
         \/ PullStatements(n) \/ PullFails(n) \/ PullData(n, m)
         \/ \E p \in Process : Gather(n, p, m) \/ Push(n, p, m)
         \/ \E batch \in net[n][m] : Lose(n, m, batch) \/ Deliver(n, m, batch)
  PROVE  TypeOK'
<1> USE DEF Process
<1>1. CASE PullStatements(n)
  <2> DEFINE batch == [truth_events |-> draft[n].events,
                       statements |-> statements[draft[n].peer],
                       impact |-> draft[n].impacts]
  <2>1. batch \in Batch
    BY <1>1 DEF PullStatements, TypeOK, Batch
  <2>2. JobOK(StartJob(batch))
    BY <2>1, StartJobOK
  <2>3. job' = [job EXCEPT ![n]["cli"] = StartJob(batch)]
    BY <1>1 DEF PullStatements
  <2>4. /\ DOMAIN job' = Node
        /\ \A i \in Node : DOMAIN job'[i] = Process
                           /\ \A q \in Process : JobOK(job'[i][q])
    <3> HIDE DEF batch
    <3> QED BY <2>2, <2>3, JobUpdate
  <2> QED BY <1>1, <2>4 DEF PullStatements, TypeOK, tables, logs
<1>2. CASE PullFails(n)
  BY <1>2 DEF PullFails, TypeOK, tables, logs
<1>3. CASE PullData(n, m)
  <2>1. JobOK(job[m]["server"]) /\ job[m]["server"].step = "gather"
    BY <1>3 DEF PullData, TypeOK
  <2>2. job[m]["server"].seen \in EventTable
    BY <2>1 DEF JobOK, IdleJob
  <2>3. job' = [job EXCEPT ![m]["server"] = IdleJob]
    BY <1>3 DEF PullData
  <2>4. /\ DOMAIN job' = Node
        /\ \A i \in Node : DOMAIN job'[i] = Process
                           /\ \A q \in Process : JobOK(job'[i][q])
    BY <2>3, IdleJobOK, JobUpdate
  <2> QED BY <1>3, <2>2, <2>4 DEF PullData, TypeOK, tables, logs
<1>4. ASSUME NEW p \in Process, Gather(n, p, m) PROVE TypeOK'
  <2> DEFINE j == [IdleJob EXCEPT !.step = "gather", !.key = m, !.seen = events[n]]
  <2>1. JobOK(j)
    BY GatherJobOK DEF TypeOK
  <2>2. job' = [job EXCEPT ![n][p] = j]
    BY <1>4 DEF Gather
  <2>3. /\ DOMAIN job' = Node
        /\ \A i \in Node : DOMAIN job'[i] = Process
                           /\ \A q \in Process : JobOK(job'[i][q])
    <3> HIDE DEF j
    <3> QED BY <2>1, <2>2, JobUpdate
  <2> QED BY <1>4, <2>3 DEF Gather, TypeOK, tables, logs
<1>5. ASSUME NEW p \in Process, Push(n, p, m) PROVE TypeOK'
  <2>1. JobOK(job[n][p]) /\ job[n][p].step = "gather"
    BY <1>5 DEF Push, TypeOK
  <2>2. Snapshot(n, p) \in Batch
    BY <2>1 DEF JobOK, IdleJob, Snapshot, Batch, TypeOK
  <2>3. /\ job' = [job EXCEPT ![n][p] = IdleJob]
        /\ net' = [net EXCEPT ![n][m] = @ \cup {Snapshot(n, p)}]
    BY <1>5 DEF Push
  <2>4. /\ DOMAIN job' = Node
        /\ \A i \in Node : DOMAIN job'[i] = Process
                           /\ \A q \in Process : JobOK(job'[i][q])
    BY <2>3, IdleJobOK, JobUpdate
  <2>5. net' \in [Node -> [Node -> SUBSET Batch]]
    BY <2>2, <2>3 DEF TypeOK
  <2> QED BY <1>5, <2>4, <2>5 DEF Push, TypeOK, tables, logs
<1>6. ASSUME NEW batch \in net[n][m], Lose(n, m, batch) PROVE TypeOK'
  <2>1. net' \in [Node -> [Node -> SUBSET Batch]]
    BY <1>6 DEF Lose, TypeOK
  <2> QED BY <1>6, <2>1 DEF Lose, TypeOK, tables, logs
<1>7. ASSUME NEW batch \in net[n][m], Deliver(n, m, batch) PROVE TypeOK'
  <2>1. batch \in Batch
    BY DEF TypeOK
  <2>2. job' = [job EXCEPT ![m]["server"] = StartJob(batch)]
    BY <1>7 DEF Deliver
  <2>3. /\ DOMAIN job' = Node
        /\ \A i \in Node : DOMAIN job'[i] = Process
                           /\ \A q \in Process : JobOK(job'[i][q])
    BY <2>1, <2>2, StartJobOK, JobUpdate
  <2>4. net' \in [Node -> [Node -> SUBSET Batch]]
    BY <1>7 DEF Deliver, TypeOK
  <2> QED BY <1>7, <2>3, <2>4 DEF Deliver, TypeOK, tables, logs
<1> QED BY <1>1, <1>2, <1>3, <1>4, <1>5, <1>6, <1>7

\* reconcile, and a process that is killed.
LEMMA ReconcileTypeOK ==
  ASSUME TypeOK, NEW n \in Node, NEW p \in Process, Reconcile(n, p) \/ Crash(n, p)
  PROVE  TypeOK'
<1> DEFINE j == job[n][p]
<1>0. JobOK(j)
  BY DEF TypeOK
<1>1. CASE TakeEvent(n, p) \/ TakeStatement(n, p) \/ TakeImpact(n, p)
  BY <1>1, TakeTypeOK DEF TakeEvent, TakeStatement, TakeImpact, Table
<1>2. ASSUME NEW table \in Table, Writing(n, p, table), Written(n, p)
      PROVE  /\ DOMAIN job' = Node
             /\ \A m \in Node : DOMAIN job'[m] = Process
                                /\ \A q \in Process : JobOK(job'[m][q])
  <2>1. JobOK([j EXCEPT !.step = "log"])
    BY <1>0, <1>2, WrittenJobOK DEF Writing
  <2>2. job' = [job EXCEPT ![n][p] = [j EXCEPT !.step = "log"]]
    BY <1>2 DEF Written
  <2> HIDE DEF j
  <2> QED BY <2>1, <2>2, JobUpdate
<1>3. CASE WriteEvent(n, p)
  <2>1. j.key \in EventId /\ Incoming(j) \in EventRow
    BY <1>0, <1>3, IncomingRow DEF WriteEvent, Writing
  <2>2. Put(events[n], j.key, j.seen, Incoming(j)) \in EventTable
    BY <2>1, PutEvent DEF TypeOK
  <2>3. events' \in [Node -> EventTable]
    BY <1>3, <2>2 DEF WriteEvent, TypeOK
  <2> QED BY <1>2, <1>3, <2>3 DEF WriteEvent, TypeOK, Table, logs
<1>4. CASE WriteStatement(n, p)
  <2>1. j.key \in StatementId /\ Incoming(j) \in StatementRow
    BY <1>0, <1>4, IncomingRow DEF WriteStatement, Writing
  <2>2. Put(statements[n], j.key, j.seen, Incoming(j)) \in StatementTable
    BY <2>1, PutStatement DEF TypeOK
  <2>3. statements' \in [Node -> StatementTable]
    BY <1>4, <2>2 DEF WriteStatement, TypeOK
  <2> QED BY <1>2, <1>4, <2>3 DEF WriteStatement, TypeOK, Table, logs
<1>5. CASE WriteImpact(n, p)
  <2>1. j.key \in ImpactId /\ Incoming(j) \in EventId
    BY <1>0, <1>5, IncomingRow DEF WriteImpact, Writing
  <2>2. Put(impacts[n], j.key, j.seen, Incoming(j)) \in ImpactTable
    BY <2>1, PutImpact DEF TypeOK
  <2>3. impacts' \in [Node -> ImpactTable]
    BY <1>5, <2>2 DEF WriteImpact, TypeOK
  <2> QED BY <1>2, <1>5, <2>3 DEF WriteImpact, TypeOK, Table, logs
<1>6. CASE ForeignKeyFailure(n, p)
  <2>1. job' = [job EXCEPT ![n][p] = IdleJob]
    BY <1>6 DEF ForeignKeyFailure
  <2>2. /\ DOMAIN job' = Node
        /\ \A m \in Node : DOMAIN job'[m] = Process
                           /\ \A q \in Process : JobOK(job'[m][q])
    BY <2>1, IdleJobOK, JobUpdate
  <2> QED BY <1>6, <2>2 DEF ForeignKeyFailure, TypeOK, tables
<1>7. CASE LogSync(n, p)
  <2> DEFINE next == [StartJob(j.batch) EXCEPT !.todo = j.todo]
  <2>1. JobOK(next)
    BY <1>0, <1>7, WrittenJobOK DEF LogSync
  <2>2. job' = [job EXCEPT ![n][p] = next]
    BY <1>7 DEF LogSync
  <2>3. /\ DOMAIN job' = Node
        /\ \A m \in Node : DOMAIN job'[m] = Process
                           /\ \A q \in Process : JobOK(job'[m][q])
    <3> HIDE DEF next
    <3> QED BY <2>1, <2>2, JobUpdate
  <2> QED BY <1>7, <2>3 DEF LogSync, TypeOK, tables
<1>8. CASE Finish(n, p) \/ Crash(n, p)
  <2>1. job' = [job EXCEPT ![n][p] = IdleJob]
    BY <1>8 DEF Finish, Crash
  <2>2. /\ DOMAIN job' = Node
        /\ \A m \in Node : DOMAIN job'[m] = Process
                           /\ \A q \in Process : JobOK(job'[m][q])
    BY <2>1, IdleJobOK, JobUpdate
  <2>3. faults' \in Nat
    BY <1>8 DEF Finish, Crash, TypeOK
  <2> QED BY <1>8, <2>2, <2>3 DEF Finish, Crash, TypeOK, tables, logs
<1> QED BY <1>1, <1>3, <1>4, <1>5, <1>6, <1>7, <1>8 DEF Reconcile

\* Every variable holds a value of its kind in every reachable state, whatever the
\* snapshots hold and whichever process is killed in between.
THEOREM TypeCorrect == Spec => []TypeOK
<1>1. Init => TypeOK
  <2> SUFFICES ASSUME Init PROVE TypeOK
    OBVIOUS
  <2>1. clock \in [Node -> Time]
    BY ConstAssump DEF Init, Time
  <2>2. \A n \in Node : DOMAIN job[n] = Process
                        /\ \A p \in Process : JobOK(job[n][p])
    BY IdleJobOK DEF Init
  <2> QED BY <2>1, <2>2 DEF Init, TypeOK, EventTable, StatementTable, ImpactTable
<1>2. TypeOK /\ [Next]_vars => TypeOK'
  <2> SUFFICES ASSUME TypeOK, [Next]_vars PROVE TypeOK'
    OBVIOUS
  <2>1. CASE Tick
    <3>1. clock' \in [Node -> Time]
      BY <2>1, ConstAssump DEF Tick, TypeOK, Time
    <3> QED BY <2>1, <3>1 DEF Tick, TypeOK, tables, logs
  <2>2. ASSUME NEW n \in Node, Edit(n) PROVE TypeOK'
    BY <2>2, EditTypeOK
  <2>3. ASSUME NEW n \in Node, NEW m \in Node,
               \/ PullStatements(n) \/ PullFails(n) \/ PullData(n, m)
               \/ \E p \in Process : Gather(n, p, m) \/ Push(n, p, m)
               \/ \E batch \in net[n][m] : Lose(n, m, batch) \/ Deliver(n, m, batch)
        PROVE  TypeOK'
    BY <2>3, TransportTypeOK
  <2>4. ASSUME NEW n \in Node, NEW p \in Process, Reconcile(n, p) \/ Crash(n, p)
        PROVE  TypeOK'
    BY <2>4, ReconcileTypeOK
  <2>5. CASE UNCHANGED vars
    BY <2>5 DEF vars, tables, logs, TypeOK
  <2> QED BY <2>1, <2>2, <2>3, <2>4, <2>5 DEF Next
<1> QED BY <1>1, <1>2, PTL DEF Spec

-----------------------------------------------------------------------------
(* Referential integrity.                                                     *)

\* The steps that leave the three tables alone.
QuietStep ==
    \/ Tick
    \/ \E n, m \in Node :
         \/ PullStatements(n) \/ PullFails(n) \/ PullData(n, m)
         \/ \E p \in Process : Gather(n, p, m) \/ Push(n, p, m)
         \/ \E batch \in net[n][m] : Lose(n, m, batch) \/ Deliver(n, m, batch)
    \/ \E n \in Node, p \in Process :
         \/ TakeEvent(n, p) \/ TakeStatement(n, p) \/ TakeImpact(n, p)
         \/ ForeignKeyFailure(n, p) \/ LogSync(n, p) \/ Finish(n, p) \/ Crash(n, p)
    \/ UNCHANGED vars

\* A step leaves the tables alone, is a local operation, or writes a row of a batch.
LEMMA StepKinds ==
  ASSUME [Next]_vars
  PROVE  \/ QuietStep
         \/ \E n \in Node : Edit(n)
         \/ \E n \in Node, p \in Process :
              WriteEvent(n, p) \/ WriteStatement(n, p) \/ WriteImpact(n, p)
  BY DEF Next, Reconcile, QuietStep

\* It is as its name says.
LEMMA QuietStepTables ==
  ASSUME QuietStep
  PROVE  UNCHANGED <<events, statements, impacts, minted>>
<1>1. CASE Tick
  BY <1>1 DEF Tick, tables
<1>2. ASSUME NEW n \in Node, NEW m \in Node,
             PullStatements(n) \/ PullFails(n) \/ PullData(n, m)
      PROVE  UNCHANGED <<events, statements, impacts, minted>>
  BY <1>2 DEF PullStatements, PullFails, PullData, tables
<1>3. ASSUME NEW n \in Node, NEW m \in Node,
             \/ \E p \in Process : Gather(n, p, m) \/ Push(n, p, m)
             \/ \E batch \in net[n][m] : Lose(n, m, batch) \/ Deliver(n, m, batch)
      PROVE  UNCHANGED <<events, statements, impacts, minted>>
  BY <1>3 DEF Gather, Push, Lose, Deliver, tables
<1>4. ASSUME NEW n \in Node, NEW p \in Process,
             TakeEvent(n, p) \/ TakeStatement(n, p) \/ TakeImpact(n, p)
      PROVE  UNCHANGED <<events, statements, impacts, minted>>
  BY <1>4 DEF TakeEvent, TakeStatement, TakeImpact, Take, tables
<1>5. ASSUME NEW n \in Node, NEW p \in Process,
             ForeignKeyFailure(n, p) \/ LogSync(n, p) \/ Finish(n, p) \/ Crash(n, p)
      PROVE  UNCHANGED <<events, statements, impacts, minted>>
  BY <1>5 DEF ForeignKeyFailure, LogSync, Finish, Crash, tables
<1>6. CASE UNCHANGED vars
  BY <1>6 DEF vars, tables
<1> QED BY <1>1, <1>2, <1>3, <1>4, <1>5, <1>6 DEF QuietStep

\* What the write of an event does to the table.
LEMMA WriteEventEffect ==
  ASSUME TypeOK, NEW n \in Node, NEW p \in Process, WriteEvent(n, p)
  PROVE  /\ job[n][p].key \in EventId
         /\ Incoming(job[n][p]) \in EventRow
         /\ events[n] \in EventTable
         /\ events' = [events EXCEPT ![n] =
              Put(@, job[n][p].key, job[n][p].seen, Incoming(job[n][p]))]
         /\ UNCHANGED <<statements, impacts, minted>>
<1>1. JobOK(job[n][p])
  BY DEF TypeOK
<1> QED BY <1>1, IncomingRow DEF WriteEvent, Writing, TypeOK

\* Events do not go away: there is no DELETE, and reconcile writes rows.
LEMMA EventsStay ==
  ASSUME TypeOK, [Next]_vars
  PROVE  \A n \in Node : Present(events[n]) \subseteq Present(events'[n])
<1>1. CASE QuietStep
  BY <1>1, QuietStepTables
<1>2. ASSUME NEW m \in Node, Edit(m) PROVE \A n \in Node : Present(events[n]) \subseteq Present(events'[n])
  <2>1. ASSUME NEW k \in EventId, NEW ts \in Time, AddEvent(m, k, ts)
        PROVE  \A n \in Node : Present(events[n]) \subseteq Present(events'[n])
    <3>1. [by |-> m, ts |-> ts, detected |-> "null"] # NoRow
      BY NoRowAssump DEF EventRow
    <3> QED BY <2>1, <3>1 DEF AddEvent, Present, TypeOK, EventTable
  <2>2. ASSUME NEW k \in EventId, NEW v \in Verdict, SetEventDetected(m, k, v)
        PROVE  \A n \in Node : Present(events[n]) \subseteq Present(events'[n])
    <3>1. events[m] \in EventTable /\ events[m][k] \in EventRow
      BY <2>2 DEF SetEventDetected, TypeOK, EventTable
    <3>2. [events[m][k] EXCEPT !.detected = v] \in EventRow
      BY <3>1 DEF EventRow
    <3>3. [events[m][k] EXCEPT !.detected = v] # NoRow
      BY <3>2, NoRowAssump
    <3>4. events' = [events EXCEPT ![m] =
                      [events[m] EXCEPT ![k] = [events[m][k] EXCEPT !.detected = v]]]
      BY <2>2 DEF SetEventDetected
    <3> QED BY <3>1, <3>3, <3>4 DEF Present, TypeOK, EventTable
  <2>3. CASE UNCHANGED events
    BY <2>3
  <2> QED BY <1>2, <2>1, <2>2, <2>3
          DEF Edit, AddStatement, UpdateStatementScore, AddImpact
<1>3. ASSUME NEW m \in Node, NEW p \in Process, WriteEvent(m, p)
      PROVE  \A n \in Node : Present(events[n]) \subseteq Present(events'[n])
  BY <1>3, WriteEventEffect, PutEvent DEF TypeOK
<1>4. ASSUME NEW m \in Node, NEW p \in Process, WriteStatement(m, p) \/ WriteImpact(m, p)
      PROVE  \A n \in Node : Present(events[n]) \subseteq Present(events'[n])
  BY <1>4 DEF WriteStatement, WriteImpact
<1> QED BY StepKinds, <1>1, <1>2, <1>3, <1>4

\* The tables refer to no event that a table of events lacks.
Closed(eventTable, statementTable, impactTable) ==
    /\ \A k \in Present(statementTable) : statementTable[k].ev \in Present(eventTable)
    /\ \A i \in Present(impactTable) : impactTable[i] \in Present(eventTable)

\* NoOrphans in these words.
LEMMA NoOrphansClosed ==
  ASSUME TypeOK
  PROVE  NoOrphans <=> \A n \in Node : Closed(events[n], statements[n], impacts[n])
<1>1. \A n \in Node :
        /\ DOMAIN events[n] = EventId
        /\ \A k \in Present(statements[n]) : statements[n][k].ev \in EventId
        /\ \A i \in Present(impacts[n]) : impacts[n][i] \in EventId
  BY DEF TypeOK, EventTable, StatementTable, ImpactTable, Present, StatementRow
<1> QED BY <1>1 DEF NoOrphans, Closed, Present

\* A statement or an impact is written only when its event is there, and the event
\* stays.
LEMMA NoOrphansStep ==
  ASSUME TypeOK, TypeOK', NoOrphans, [Next]_vars
  PROVE  NoOrphans'
<1>1. \A n \in Node : Closed(events[n], statements[n], impacts[n])
  BY NoOrphansClosed
<1>2. \A n \in Node : Present(events[n]) \subseteq Present(events'[n])
  BY EventsStay
<1> SUFFICES ASSUME NEW n \in Node
             PROVE  Closed(events'[n], statements'[n], impacts'[n])
  <2>1. NoOrphans' <=> \A i \in Node : Closed(events'[i], statements'[i], impacts'[i])
    <3>1. \A i \in Node :
            /\ DOMAIN events'[i] = EventId
            /\ \A k \in Present(statements'[i]) : statements'[i][k].ev \in EventId
            /\ \A k \in Present(impacts'[i]) : impacts'[i][k] \in EventId
      BY DEF TypeOK, EventTable, StatementTable, ImpactTable, Present, StatementRow
    <3> QED BY <3>1 DEF NoOrphans, Closed, Present
  <2> QED BY <2>1
<1>3. ASSUME UNCHANGED <<statements, impacts>>
      PROVE  Closed(events'[n], statements'[n], impacts'[n])
  BY <1>1, <1>2, <1>3 DEF Closed
<1>4. ASSUME NEW m \in Node, Edit(m)
      PROVE  Closed(events'[n], statements'[n], impacts'[n])
  <2>1. ASSUME NEW k \in StatementId, NEW ev \in EventId, NEW s \in Score,
               AddStatement(m, k, ev, s)
        PROVE  Closed(events'[n], statements'[n], impacts'[n])
    <3>1. ev \in Present(events[m]) /\ UNCHANGED <<events, impacts>>
      BY <2>1 DEF AddStatement, Present, TypeOK, EventTable
    <3>2. \A i \in Present(statements'[n]) :
            \/ i \in Present(statements[n]) /\ statements'[n][i] = statements[n][i]
            \/ m = n /\ statements'[n][i].ev = ev
      BY <2>1 DEF AddStatement, Present, TypeOK, StatementTable
    <3> QED BY <1>1, <3>1, <3>2 DEF Closed
  <2>2. ASSUME NEW k \in StatementId, NEW s \in Score, UpdateStatementScore(m, k, s)
        PROVE  Closed(events'[n], statements'[n], impacts'[n])
    <3> DEFINE row == [statements[m][k] EXCEPT !.score = s, !.ts = clock[m]]
    <3>1. statements[m] \in StatementTable /\ statements[m][k] \in StatementRow
      BY <2>2 DEF UpdateStatementScore, TypeOK, StatementTable
    <3>2. row.ev = statements[m][k].ev
      BY <3>1 DEF StatementRow
    <3>3. statements' = [statements EXCEPT ![m] = [statements[m] EXCEPT ![k] = row]]
      BY <2>2 DEF UpdateStatementScore
    <3>4. statements[m][k] # NoRow /\ UNCHANGED <<events, impacts>>
      BY <2>2 DEF UpdateStatementScore
    <3>5. \A i \in Present(statements'[n]) :
            i \in Present(statements[n]) /\ statements'[n][i].ev = statements[n][i].ev
      <4> HIDE DEF row
      <4> QED BY <3>1, <3>2, <3>3, <3>4 DEF Present, TypeOK, StatementTable
    <3> QED BY <1>1, <3>4, <3>5 DEF Closed
  <2>3. ASSUME NEW k \in ImpactId, NEW ev \in EventId, AddImpact(m, k, ev)
        PROVE  Closed(events'[n], statements'[n], impacts'[n])
    <3>1. ev \in Present(events[m]) /\ UNCHANGED <<events, statements>>
      BY <2>3 DEF AddImpact, Present, TypeOK, EventTable
    <3>2. \A i \in Present(impacts'[n]) :
            \/ i \in Present(impacts[n]) /\ impacts'[n][i] = impacts[n][i]
            \/ m = n /\ impacts'[n][i] = ev
      BY <2>3 DEF AddImpact, Present, TypeOK, ImpactTable
    <3> QED BY <1>1, <3>1, <3>2 DEF Closed
  <2> QED BY <1>3, <1>4, <2>1, <2>2, <2>3 DEF Edit, AddEvent, SetEventDetected
<1>5. ASSUME NEW m \in Node, NEW p \in Process,
             WriteEvent(m, p) \/ WriteStatement(m, p) \/ WriteImpact(m, p)
      PROVE  Closed(events'[n], statements'[n], impacts'[n])
  <2> DEFINE j == job[m][p]
  <2>1. JobOK(j)
    BY DEF TypeOK
  <2>2. CASE WriteEvent(m, p)
    BY <1>3, <2>2 DEF WriteEvent
  <2>3. CASE WriteStatement(m, p)
    <3>1. j.key \in StatementId /\ Incoming(j) \in StatementRow
      BY <2>1, <2>3, IncomingRow DEF WriteStatement, Writing
    <3>2. Incoming(j).ev \in Present(events[m]) /\ UNCHANGED <<events, impacts>>
      BY <2>3, <3>1 DEF WriteStatement, Present, TypeOK, EventTable, StatementRow
    <3>3. \A i \in Present(statements'[n]) :
            \/ i \in Present(statements[n]) /\ statements'[n][i] = statements[n][i]
            \/ m = n /\ statements'[n][i] = Incoming(j)
      BY <2>3, <3>1 DEF WriteStatement, Put, Present, TypeOK, StatementTable
    <3> QED BY <1>1, <3>2, <3>3 DEF Closed
  <2>4. CASE WriteImpact(m, p)
    <3>1. j.key \in ImpactId /\ Incoming(j) \in EventId
      BY <2>1, <2>4, IncomingRow DEF WriteImpact, Writing
    <3>2. Incoming(j) \in Present(events[m]) /\ UNCHANGED <<events, statements>>
      BY <2>4, <3>1 DEF WriteImpact, Present, TypeOK, EventTable
    <3>3. \A i \in Present(impacts'[n]) :
            \/ i \in Present(impacts[n]) /\ impacts'[n][i] = impacts[n][i]
            \/ m = n /\ impacts'[n][i] = Incoming(j)
      BY <2>4, <3>1 DEF WriteImpact, Put, Present, TypeOK, ImpactTable
    <3> QED BY <1>1, <3>2, <3>3 DEF Closed
  <2> QED BY <1>5, <2>2, <2>3, <2>4
<1> QED BY StepKinds, QuietStepTables, <1>3, <1>4, <1>5

\* No statement and no impact is ever without its event, on any number of nodes and
\* with truthctl at work on any of the databases.
THEOREM ReferencesHold == Spec => []NoOrphans
<1>1. Init => NoOrphans
  BY DEF Init, NoOrphans, Present
<1>2. TypeOK /\ TypeOK' /\ NoOrphans /\ [Next]_vars => NoOrphans'
  BY NoOrphansStep
<1> QED BY <1>1, <1>2, TypeCorrect, PTL DEF Spec

-----------------------------------------------------------------------------
(* Provenance.                                                                *)

\* Every row of a table of events is a version in a set of versions.
Known(table, versions) ==
    \A k \in Present(table) : <<k, VersionOf(table[k])>> \in versions

\* The versions that a job carries are known.
JobKnown(j, versions) ==
    /\ j.step = "gather" => Known(j.seen, versions)
    /\ j.step \in {"read", "write", "log"} => Known(j.batch.truth_events, versions)

\* Provenance, and the same of the tables that a process has read: what a step puts
\* into a snapshot comes from there.
ProvenanceInv ==
    /\ \A n \in Node : Known(events[n], minted)
    /\ \A n, m \in Node : \A b \in net[n][m] : Known(b.truth_events, minted)
    /\ \A n \in Node : draft[n] # NoRow => Known(draft[n].events, minted)
    /\ \A n \in Node, p \in Process : JobKnown(job[n][p], minted)

\* Replacing one process's job.
LEMMA JobKnownUpdate ==
  ASSUME TypeOK, \A n \in Node, p \in Process : JobKnown(job[n][p], minted),
         NEW n \in Node, NEW p \in Process, NEW j, JobKnown(j, minted),
         job' = [job EXCEPT ![n][p] = j]
  PROVE  \A m \in Node, q \in Process : JobKnown(job'[m][q], minted)
  BY DEF TypeOK

\* A process that has nothing to do carries nothing.
LEMMA IdleJobKnown == ASSUME NEW versions PROVE JobKnown(IdleJob, versions)
  BY DEF JobKnown, IdleJob

\* A reconcile of a known batch, and of what is left of it.
LEMMA StartJobKnown ==
  ASSUME NEW versions, NEW batch, Known(batch.truth_events, versions), NEW todo
  PROVE  /\ JobKnown(StartJob(batch), versions)
         /\ JobKnown([StartJob(batch) EXCEPT !.todo = todo], versions)
  BY DEF JobKnown, StartJob, IdleJob

\* A row loop carries the same batch on.
LEMMA TakeJobKnown ==
  ASSUME TypeOK, ProvenanceInv, NEW n \in Node, NEW p \in Process,
         TakeEvent(n, p) \/ TakeStatement(n, p) \/ TakeImpact(n, p)
  PROVE  \A m \in Node, q \in Process : JobKnown(job'[m][q], minted)
<1> DEFINE j == job[n][p]
<1>1. JobOK(j) /\ j.step = "read" /\ DOMAIN j = DOMAIN IdleJob
  BY DEF TypeOK, JobOK, TakeEvent, TakeStatement, TakeImpact, Take
<1>2. PICK table \in Table : \E k, seen :
        LET rest == [j EXCEPT !.todo[table] = @ \ {k}] IN
        \/ job' = [job EXCEPT ![n][p] =
                     [rest EXCEPT !.step = "write", !.table = table, !.key = k,
                                  !.seen = seen]]
        \/ job' = [job EXCEPT ![n][p] = rest]
  BY DEF TakeEvent, TakeStatement, TakeImpact, Take, Table
<1>3. PICK k, seen :
        LET rest == [j EXCEPT !.todo[table] = @ \ {k}] IN
        \/ job' = [job EXCEPT ![n][p] =
                     [rest EXCEPT !.step = "write", !.table = table, !.key = k,
                                  !.seen = seen]]
        \/ job' = [job EXCEPT ![n][p] = rest]
  BY <1>2
<1> DEFINE rest == [j EXCEPT !.todo[table] = @ \ {k}]
           next == [rest EXCEPT !.step = "write", !.table = table, !.key = k,
                                !.seen = seen]
<1>4. /\ rest.step = "read" /\ rest.batch = j.batch
      /\ next.step = "write" /\ next.batch = j.batch
  BY <1>1 DEF IdleJob
<1>5. Known(j.batch.truth_events, minted)
  BY <1>1 DEF ProvenanceInv, JobKnown
<1>6. JobKnown(rest, minted) /\ JobKnown(next, minted)
  BY <1>4, <1>5 DEF JobKnown
<1>7. PICK j2 : JobKnown(j2, minted) /\ job' = [job EXCEPT ![n][p] = j2]
  BY <1>3, <1>6
<1> QED BY <1>7, JobKnownUpdate DEF ProvenanceInv

\* The steps that leave the tables alone only copy known versions.
LEMMA QuietStepProvenance ==
  ASSUME TypeOK, ProvenanceInv, QuietStep
  PROVE  ProvenanceInv'
<1> USE DEF Process
<1>0. UNCHANGED <<events, minted>>
  BY QuietStepTables
<1> SUFFICES /\ \A n, m \in Node : \A b \in net'[n][m] : Known(b.truth_events, minted)
             /\ \A n \in Node : draft'[n] # NoRow => Known(draft'[n].events, minted)
             /\ \A n \in Node, p \in Process : JobKnown(job'[n][p], minted)
  BY <1>0 DEF ProvenanceInv, JobKnown, Known
<1> DEFINE Goal == /\ \A n, m \in Node : \A b \in net'[n][m] : Known(b.truth_events, minted)
                   /\ \A n \in Node : draft'[n] # NoRow => Known(draft'[n].events, minted)
                   /\ \A n \in Node, p \in Process : JobKnown(job'[n][p], minted)
<1>1. CASE Tick \/ UNCHANGED vars
  BY <1>1 DEF Tick, vars, ProvenanceInv
<1>2. ASSUME NEW n \in Node, PullStatements(n) PROVE Goal
  <2> DEFINE batch == [truth_events |-> draft[n].events,
                       statements |-> statements[draft[n].peer],
                       impact |-> draft[n].impacts]
  <2>1. /\ job' = [job EXCEPT ![n]["cli"] = StartJob(batch)]
        /\ UNCHANGED net
        /\ Known(draft[n].events, minted)
    BY <1>2 DEF PullStatements, ProvenanceInv
  <2>2. JobKnown(StartJob(batch), minted)
    BY <2>1, StartJobKnown
  <2>3. \A m \in Node, q \in Process : JobKnown(job'[m][q], minted)
    <3> HIDE DEF batch
    <3> QED BY <2>1, <2>2, JobKnownUpdate DEF ProvenanceInv
  <2>4. \A m \in Node : draft'[m] # NoRow => Known(draft'[m].events, minted)
    BY <1>2 DEF PullStatements, TypeOK, ProvenanceInv
  <2> QED BY <2>1, <2>3, <2>4 DEF ProvenanceInv
<1>3. ASSUME NEW n \in Node, PullFails(n) PROVE Goal
  BY <1>3 DEF PullFails, TypeOK, ProvenanceInv
<1>4. ASSUME NEW n \in Node, NEW m \in Node, PullData(n, m) PROVE Goal
  <2>1. /\ job[m]["server"].step = "gather"
        /\ draft' = [draft EXCEPT ![n] = [peer |-> m, events |-> job[m]["server"].seen,
                                          impacts |-> impacts[m]]]
        /\ job' = [job EXCEPT ![m]["server"] = IdleJob]
        /\ UNCHANGED net
    BY <1>4 DEF PullData
  <2>2. Known(job[m]["server"].seen, minted)
    BY <2>1 DEF ProvenanceInv, JobKnown
  <2>3. \A i \in Node, q \in Process : JobKnown(job'[i][q], minted)
    BY <2>1, IdleJobKnown, JobKnownUpdate DEF ProvenanceInv
  <2>4. \A i \in Node : draft'[i] # NoRow => Known(draft'[i].events, minted)
    BY <2>1, <2>2 DEF TypeOK, ProvenanceInv
  <2> QED BY <2>1, <2>3, <2>4 DEF ProvenanceInv
<1>5. ASSUME NEW n \in Node, NEW m \in Node, NEW p \in Process, Gather(n, p, m)
      PROVE  Goal
  <2> DEFINE j == [IdleJob EXCEPT !.step = "gather", !.key = m, !.seen = events[n]]
  <2>1. job' = [job EXCEPT ![n][p] = j] /\ UNCHANGED <<net, draft>>
    BY <1>5 DEF Gather
  <2>2. JobKnown(j, minted)
    BY DEF JobKnown, IdleJob, ProvenanceInv
  <2>3. \A i \in Node, q \in Process : JobKnown(job'[i][q], minted)
    <3> HIDE DEF j
    <3> QED BY <2>1, <2>2, JobKnownUpdate DEF ProvenanceInv
  <2> QED BY <2>1, <2>3 DEF ProvenanceInv
<1>6. ASSUME NEW n \in Node, NEW m \in Node, NEW p \in Process, Push(n, p, m)
      PROVE  Goal
  <2>1. /\ job[n][p].step = "gather"
        /\ job' = [job EXCEPT ![n][p] = IdleJob]
        /\ net' = [net EXCEPT ![n][m] = @ \cup {Snapshot(n, p)}]
        /\ UNCHANGED draft
    BY <1>6 DEF Push
  <2>2. Known(Snapshot(n, p).truth_events, minted)
    BY <2>1 DEF Snapshot, ProvenanceInv, JobKnown
  <2>3. \A i \in Node, q \in Process : JobKnown(job'[i][q], minted)
    BY <2>1, IdleJobKnown, JobKnownUpdate DEF ProvenanceInv
  <2>4. \A i, k \in Node : \A b \in net'[i][k] : b \in net[i][k] \/ b = Snapshot(n, p)
    BY <2>1 DEF TypeOK
  <2> QED BY <2>1, <2>2, <2>3, <2>4 DEF ProvenanceInv
<1>7. ASSUME NEW n \in Node, NEW m \in Node, NEW batch \in net[n][m],
             Lose(n, m, batch) \/ Deliver(n, m, batch)
      PROVE  Goal
  <2>1. \A i, k \in Node : net'[i][k] \subseteq net[i][k]
    BY <1>7 DEF Lose, Deliver, TypeOK
  <2>2. UNCHANGED draft
    BY <1>7 DEF Lose, Deliver
  <2>3. \A i \in Node, q \in Process : JobKnown(job'[i][q], minted)
    <3>1. CASE UNCHANGED job
      BY <3>1 DEF ProvenanceInv
    <3>2. CASE job' = [job EXCEPT ![m]["server"] = StartJob(batch)]
      BY <3>2, StartJobKnown, JobKnownUpdate DEF ProvenanceInv
    <3> QED BY <1>7, <3>1, <3>2 DEF Lose, Deliver
  <2> QED BY <2>1, <2>2, <2>3 DEF ProvenanceInv
<1>8. ASSUME NEW n \in Node, NEW p \in Process,
             TakeEvent(n, p) \/ TakeStatement(n, p) \/ TakeImpact(n, p)
      PROVE  Goal
  <2>1. UNCHANGED <<net, draft>>
    BY <1>8 DEF TakeEvent, TakeStatement, TakeImpact, Take
  <2> QED BY <1>8, <2>1, TakeJobKnown DEF ProvenanceInv
<1>9. ASSUME NEW n \in Node, NEW p \in Process,
             ForeignKeyFailure(n, p) \/ LogSync(n, p) \/ Finish(n, p) \/ Crash(n, p)
      PROVE  Goal
  <2>1. UNCHANGED <<net, draft>>
    BY <1>9 DEF ForeignKeyFailure, LogSync, Finish, Crash
  <2>2. CASE job' = [job EXCEPT ![n][p] = IdleJob]
    BY <2>1, <2>2, IdleJobKnown, JobKnownUpdate DEF ProvenanceInv
  <2>3. CASE LogSync(n, p)
    <3> DEFINE next == [StartJob(job[n][p].batch) EXCEPT !.todo = job[n][p].todo]
    <3>1. JobKnown(next, minted)
      BY <2>3, StartJobKnown DEF LogSync, ProvenanceInv, JobKnown
    <3>2. job' = [job EXCEPT ![n][p] = next]
      BY <2>3 DEF LogSync
    <3> HIDE DEF next
    <3> QED BY <2>1, <3>1, <3>2, JobKnownUpdate DEF ProvenanceInv
  <2> QED BY <1>9, <2>2, <2>3 DEF ForeignKeyFailure, Finish, Crash
<1> QED BY <1>1, <1>2, <1>3, <1>4, <1>5, <1>6, <1>7, <1>8, <1>9 DEF QuietStep

\* A known version is known for ever.
LEMMA KnownMore ==
  ASSUME ProvenanceInv, minted \subseteq minted', UNCHANGED <<net, draft, job>>,
         \A n \in Node : Known(events'[n], minted')
  PROVE  ProvenanceInv'
  BY DEF ProvenanceInv, JobKnown, Known

\* A local operation mints the version it stores, or keeps the one that is there.
LEMMA EditProvenance ==
  ASSUME TypeOK, ProvenanceInv, NEW n \in Node, Edit(n)
  PROVE  ProvenanceInv'
<1>0. \A m \in Node : Known(events[m], minted)
  BY DEF ProvenanceInv
<1>1. ASSUME NEW k \in EventId, NEW ts \in Time, AddEvent(n, k, ts)
      PROVE  ProvenanceInv'
  <2> DEFINE row == [by |-> n, ts |-> ts, detected |-> "null"]
  <2>1. /\ events' = [events EXCEPT ![n][k] = row]
        /\ minted' = minted \cup {<<k, [by |-> n, ts |-> ts]>>}
        /\ UNCHANGED <<net, draft, job>>
    BY <1>1 DEF AddEvent
  <2>2. row # NoRow /\ VersionOf(row) = [by |-> n, ts |-> ts]
    BY NoRowAssump DEF EventRow, VersionOf
  <2>3. \A m \in Node : \A i \in Present(events'[m]) :
          \/ i \in Present(events[m]) /\ events'[m][i] = events[m][i]
          \/ i = k /\ events'[m][i] = row
    <3> HIDE DEF row
    <3> QED BY <2>1 DEF TypeOK, EventTable, Present
  <2>4. \A m \in Node : Known(events'[m], minted')
    <3> HIDE DEF row
    <3> QED BY <1>0, <2>1, <2>2, <2>3 DEF Known
  <2> QED BY <2>1, <2>4, KnownMore
<1>2. ASSUME NEW k \in EventId, NEW v \in Verdict, SetEventDetected(n, k, v)
      PROVE  ProvenanceInv'
  <2> DEFINE row == [events[n][k] EXCEPT !.detected = v]
  <2>1. /\ events' = [events EXCEPT ![n] = [events[n] EXCEPT ![k] = row]]
        /\ UNCHANGED <<minted, net, draft, job>>
        /\ k \in Present(events[n])
    BY <1>2 DEF SetEventDetected, Present, TypeOK, EventTable
  <2>2. VersionOf(row) = VersionOf(events[n][k])
    <3>1. events[n][k] \in EventRow /\ events[n][k] # NoRow
      BY <2>1 DEF TypeOK, EventTable, Present
    <3>2. row \in EventRow /\ row.by = events[n][k].by /\ row.ts = events[n][k].ts
      BY <3>1 DEF EventRow
    <3>3. row # NoRow
      BY <3>2, NoRowAssump
    <3> QED BY <3>1, <3>2, <3>3 DEF VersionOf
  <2>3. \A m \in Node : \A i \in Present(events'[m]) :
          i \in Present(events[m]) /\ VersionOf(events'[m][i]) = VersionOf(events[m][i])
    <3> HIDE DEF row
    <3> QED BY <2>1, <2>2 DEF TypeOK, EventTable, Present
  <2>4. \A m \in Node : Known(events'[m], minted')
    BY <1>0, <2>1, <2>3 DEF Known
  <2> QED BY <2>1, <2>4, KnownMore
<1>3. ASSUME UNCHANGED <<events, minted, net, draft, job>>
      PROVE  ProvenanceInv'
  BY <1>0, <1>3, KnownMore
<1> QED BY <1>1, <1>2, <1>3 DEF Edit, AddStatement, UpdateStatementScore, AddImpact

\* reconcile writes versions that its batch carries.
LEMMA WriteProvenance ==
  ASSUME TypeOK, ProvenanceInv, NEW n \in Node, NEW p \in Process,
         WriteEvent(n, p) \/ WriteStatement(n, p) \/ WriteImpact(n, p)
  PROVE  ProvenanceInv'
<1> DEFINE j == job[n][p]
<1>1. /\ JobOK(j) /\ j.step = "write" /\ DOMAIN j = DOMAIN IdleJob
      /\ job' = [job EXCEPT ![n][p] = [j EXCEPT !.step = "log"]]
      /\ UNCHANGED <<net, draft, minted>>
  BY DEF TypeOK, JobOK, WriteEvent, WriteStatement, WriteImpact, Writing, Written
<1>2. Known(j.batch.truth_events, minted)
  BY <1>1 DEF ProvenanceInv, JobKnown
<1>3. JobKnown([j EXCEPT !.step = "log"], minted)
  BY <1>1, <1>2 DEF JobKnown, IdleJob
<1>4. \A m \in Node, q \in Process : JobKnown(job'[m][q], minted)
  <2> DEFINE next == [j EXCEPT !.step = "log"]
  <2>1. JobKnown(next, minted) /\ job' = [job EXCEPT ![n][p] = next]
    BY <1>1, <1>3
  <2> HIDE DEF next
  <2> QED BY <2>1, JobKnownUpdate DEF ProvenanceInv
<1>5. \A m \in Node : Known(events'[m], minted)
  <2>1. CASE WriteEvent(n, p)
    <3>1. /\ j.table = "truth_events"
          /\ j.key \in Present(j.batch[j.table])
      BY <1>1, <2>1 DEF JobOK, IdleJob, WriteEvent, Writing
    <3>2. j.key \in Present(j.batch.truth_events)
          /\ Incoming(j) = j.batch.truth_events[j.key]
      BY <3>1 DEF Incoming
    <3>3. <<j.key, VersionOf(Incoming(j))>> \in minted
      BY <1>2, <3>2 DEF Known
    <3>4. \A m \in Node : \A i \in Present(events'[m]) :
            \/ i \in Present(events[m]) /\ events'[m][i] = events[m][i]
            \/ i = j.key /\ events'[m][i] = Incoming(j)
      <4>1. /\ j.key \in EventId
            /\ events' = [events EXCEPT ![n] = Put(@, j.key, j.seen, Incoming(j))]
        BY <2>1, WriteEventEffect
      <4>2. events \in [Node -> EventTable]
        BY DEF TypeOK
      <4> HIDE DEF j
      <4> QED BY <4>1, <4>2 DEF Put, EventTable, Present
    <3> QED BY <3>3, <3>4 DEF Known, ProvenanceInv
  <2>2. CASE UNCHANGED events
    BY <2>2 DEF ProvenanceInv
  <2> QED BY <2>1, <2>2 DEF WriteStatement, WriteImpact
<1> QED BY <1>1, <1>4, <1>5 DEF ProvenanceInv

\* Nothing is made up or mixed: every event that is stored, under way or about to be
\* applied is a version that some node created under that id.
THEOREM ProvenanceHolds == Spec => []Provenance
<1>1. Init => ProvenanceInv
  BY DEF Init, ProvenanceInv, Known, JobKnown, Present, IdleJob
<1>2. TypeOK /\ ProvenanceInv /\ [Next]_vars => ProvenanceInv'
  BY StepKinds, QuietStepProvenance, EditProvenance, WriteProvenance
<1>3. ProvenanceInv => Provenance
  BY DEF ProvenanceInv, Provenance, Known, JobKnown
<1> QED BY <1>1, <1>2, <1>3, TypeCorrect, PTL DEF Spec

-----------------------------------------------------------------------------
(* Only servers open the databases (CliNode = {}): the mutex then makes the   *)
(* reading of a snapshot and a reconcile critical sections.                   *)

\* truthctl has no part in it.
NoCli == \A n \in Node : job[n]["cli"] = IdleJob /\ draft[n] = NoRow

\* Without truthctl there is no job of truthctl, and no pull.
LEMMA NoCliStep ==
  ASSUME CliNode = {}, TypeOK, NoCli, [Next]_vars
  PROVE  NoCli'
<1> USE DEF Process
<1>1. ASSUME UNCHANGED <<job, draft>> PROVE NoCli'
  BY <1>1 DEF NoCli
<1>2. ASSUME NEW n \in Node, UNCHANGED draft,
             \E j : job' = [job EXCEPT ![n]["server"] = j]
      PROVE  NoCli'
  BY <1>2 DEF NoCli, TypeOK
<1>3. ASSUME NEW n \in Node, PullStatements(n) \/ PullFails(n) PROVE FALSE
  BY <1>3 DEF PullStatements, PullFails, NoCli
<1>4. ASSUME NEW n \in Node, NEW m \in Node, PullData(n, m) PROVE FALSE
  BY <1>4 DEF PullData
<1>5. ASSUME NEW n \in Node, NEW m \in Node, NEW p \in Process,
             Gather(n, p, m) \/ Push(n, p, m)
      PROVE  NoCli'
  <2>1. p = "server"
    BY <1>5 DEF Gather, Push, NoCli, IdleJob
  <2> QED BY <1>2, <1>5, <2>1 DEF Gather, Push
<1>6. ASSUME NEW n \in Node, NEW m \in Node, NEW batch \in net[n][m],
             Lose(n, m, batch) \/ Deliver(n, m, batch)
      PROVE  NoCli'
  BY <1>1, <1>2, <1>6 DEF Lose, Deliver
<1>7. ASSUME NEW n \in Node, NEW p \in Process, Reconcile(n, p) \/ Crash(n, p)
      PROVE  NoCli'
  <2>1. job[n][p].step # "idle"
    BY <1>7 DEF Reconcile, TakeEvent, TakeStatement, TakeImpact, Take, WriteEvent,
       WriteStatement, WriteImpact, Writing, ForeignKeyFailure, LogSync, Finish, Crash
  <2>2. p = "server"
    BY <2>1 DEF NoCli, IdleJob
  <2>3. UNCHANGED draft /\ \E j : job' = [job EXCEPT ![n][p] = j]
    <3>1. CASE TakeEvent(n, p) \/ TakeStatement(n, p) \/ TakeImpact(n, p)
      BY <3>1 DEF TakeEvent, TakeStatement, TakeImpact, Take
    <3>2. CASE WriteEvent(n, p) \/ WriteStatement(n, p) \/ WriteImpact(n, p)
      BY <3>2 DEF WriteEvent, WriteStatement, WriteImpact, Written
    <3>3. CASE ForeignKeyFailure(n, p) \/ LogSync(n, p) \/ Finish(n, p) \/ Crash(n, p)
      BY <3>3 DEF ForeignKeyFailure, LogSync, Finish, Crash
    <3> QED BY <1>7, <3>1, <3>2, <3>3 DEF Reconcile
  <2> QED BY <1>2, <2>2, <2>3
<1>8. ASSUME NEW n \in Node, Edit(n) PROVE NoCli'
  BY <1>1, <1>8 DEF Edit, AddEvent, SetEventDetected, AddStatement,
     UpdateStatementScore, AddImpact
<1>9. CASE Tick \/ UNCHANGED vars
  BY <1>1, <1>9 DEF Tick, vars
<1> QED BY <1>3, <1>4, <1>5, <1>6, <1>7, <1>8, <1>9 DEF Next

-----------------------------------------------------------------------------
(* The invariant of the critical sections.                                    *)

\* The batch refers to no event it does not carry.
BatchClosed(batch) == Closed(batch.truth_events, batch.statements, batch.impact)

\* What the server's job knows about the tables of its node.  While it reads them,
\* nothing refers to an event it has not read.  While it reconciles, every event of
\* the batch is still to be taken, or is about to be written, or is there; and the
\* local row it has read is still the local row.
Section(j, eventTable, statementTable, impactTable) ==
    /\ j.step = "gather" => Closed(j.seen, statementTable, impactTable)
    /\ j.step \in {"read", "write", "log"} =>
         /\ BatchClosed(j.batch)
         /\ \A k \in Present(j.batch.truth_events) :
              \/ k \in j.todo["truth_events"]
              \/ k \in Present(eventTable)
              \/ j.step = "write" /\ j.table = "truth_events" /\ j.key = k
    /\ j.step = "write" /\ j.table = "truth_events" =>
         /\ j.seen = eventTable[j.key]
         /\ Wins(Incoming(j), j.seen)

Sections == \A n \in Node :
              Section(job[n]["server"], events[n], statements[n], impacts[n])

ServerInv ==
    /\ NoCli
    /\ Sections
    /\ \A n, m \in Node : \A b \in net[n][m] : BatchClosed(b)
    /\ SyncNeverFails

\* Nothing is known of a job that does nothing.
LEMMA IdleSection ==
  ASSUME NEW j, j.step = "idle", NEW e, NEW s, NEW i
  PROVE  Section(j, e, s, i)
  BY DEF Section

\* A step of the server of n touches the section of n only.
LEMMA SectionUpdate ==
  ASSUME TypeOK, Sections, NEW n \in Node, NEW j,
         job' = [job EXCEPT ![n]["server"] = j],
         Section(j, events'[n], statements'[n], impacts'[n]),
         \A m \in Node \ {n} : /\ events'[m] = events[m]
                               /\ statements'[m] = statements[m]
                               /\ impacts'[m] = impacts[m]
  PROVE  Sections'
<1> SUFFICES ASSUME NEW m \in Node
             PROVE  Section(job'[m]["server"], events'[m], statements'[m], impacts'[m])
  BY DEF Sections
<1>1. CASE m = n
  BY <1>1 DEF TypeOK, Process
<1>2. CASE m # n
  BY <1>2 DEF Sections, TypeOK
<1> QED BY <1>1, <1>2

\* The handlers of n wait while its server is in a critical section.
LEMMA EditSections ==
  ASSUME CliNode = {}, TypeOK, Sections, NEW n \in Node, Edit(n)
  PROVE  Sections'
<1>1. job[n]["server"].step = "idle" /\ UNCHANGED job
  BY DEF Edit, AddEvent, SetEventDetected, AddStatement, UpdateStatementScore,
         AddImpact, Unlocked
<1>2. \A m \in Node \ {n} : /\ events'[m] = events[m]
                            /\ statements'[m] = statements[m]
                            /\ impacts'[m] = impacts[m]
  BY DEF Edit, AddEvent, SetEventDetected, AddStatement, UpdateStatementScore,
         AddImpact, TypeOK
<1> QED BY <1>1, <1>2, IdleSection DEF Sections

\* A snapshot is read in a critical section, and one that arrives is closed.
LEMMA TransportSections ==
  ASSUME CliNode = {}, TypeOK, ServerInv, NoOrphans, NEW n \in Node, NEW m \in Node,
         \/ \E p \in Process : Gather(n, p, m) \/ Push(n, p, m)
         \/ \E batch \in net[n][m] : Lose(n, m, batch) \/ Deliver(n, m, batch)
  PROVE  ServerInv' \/ ~NoCli'
<1> USE DEF Process
<1>0. UNCHANGED <<events, statements, impacts, cutShort>>
  BY DEF Gather, Push, Lose, Deliver, tables, logs
<1> DEFINE Goal == Sections' /\ \A i, k \in Node : \A b \in net'[i][k] : BatchClosed(b)
<1>1. ASSUME NEW p \in Process, Gather(n, p, m) PROVE Goal
  <2> DEFINE j == [IdleJob EXCEPT !.step = "gather", !.key = m, !.seen = events[n]]
  <2>1. p = "server" /\ UNCHANGED net /\ job' = [job EXCEPT ![n]["server"] = j]
    BY <1>1 DEF Gather
  <2>2. Closed(events[n], statements[n], impacts[n])
    BY NoOrphansClosed
  <2>3. j.step = "gather" /\ j.seen = events[n]
    BY DEF IdleJob
  <2>4. Section(j, events'[n], statements'[n], impacts'[n])
    BY <1>0, <2>2, <2>3 DEF Section
  <2>5. Sections'
    <3> HIDE DEF j
    <3> QED BY <1>0, <2>1, <2>4, SectionUpdate DEF ServerInv
  <2> QED BY <2>1, <2>5 DEF ServerInv
<1>2. ASSUME NEW p \in Process, Push(n, p, m) PROVE Goal
  <2>1. /\ p = "server" /\ job[n]["server"].step = "gather"
        /\ job' = [job EXCEPT ![n]["server"] = IdleJob]
        /\ net' = [net EXCEPT ![n][m] = @ \cup {Snapshot(n, "server")}]
    <3>1. job[n][p].step = "gather" /\ job[n]["cli"].step = "idle"
      BY <1>2 DEF Push, ServerInv, NoCli, IdleJob
    <3>2. p = "server"
      BY <3>1
    <3> QED BY <1>2, <3>2 DEF Push
  <2>2. BatchClosed(Snapshot(n, "server"))
    BY <2>1 DEF ServerInv, Sections, Section, BatchClosed, Snapshot
  <2>3. Sections'
    <3>1. Section(IdleJob, events'[n], statements'[n], impacts'[n])
      BY IdleSection DEF IdleJob
    <3> QED BY <1>0, <2>1, <3>1, SectionUpdate DEF ServerInv
  <2>4. \A i, k \in Node : \A b \in net'[i][k] : b \in net[i][k] \/ b = Snapshot(n, "server")
    BY <2>1 DEF TypeOK
  <2> QED BY <2>2, <2>3, <2>4 DEF ServerInv
<1>3. ASSUME NEW batch \in net[n][m], Lose(n, m, batch) \/ Deliver(n, m, batch)
      PROVE  Goal
  <2>1. \A i, k \in Node : net'[i][k] \subseteq net[i][k]
    BY <1>3 DEF Lose, Deliver, TypeOK
  <2>2. CASE UNCHANGED job
    BY <1>0, <2>1, <2>2 DEF ServerInv, Sections
  <2>3. CASE job' = [job EXCEPT ![m]["server"] = StartJob(batch)]
    <3>1. BatchClosed(batch)
      BY DEF ServerInv
    <3>2. /\ StartJob(batch).step = "read" /\ StartJob(batch).batch = batch
          /\ StartJob(batch).todo["truth_events"] = Present(batch.truth_events)
      BY DEF StartJob, IdleJob, Table
    <3>3. Section(StartJob(batch), events'[m], statements'[m], impacts'[m])
      BY <3>1, <3>2 DEF Section
    <3>4. Sections'
      BY <1>0, <2>3, <3>3, SectionUpdate DEF ServerInv
    <3> QED BY <2>1, <3>4 DEF ServerInv
  <2> QED BY <1>3, <2>2, <2>3 DEF Lose, Deliver
<1> QED BY <1>0, <1>1, <1>2, <1>3 DEF ServerInv, SyncNeverFails

\* A row loop that has not yet come to a row of the batch, or has just taken it.
Rest(j, table, k) == [j EXCEPT !.todo[table] = @ \ {k}]
Taken(j, table, k, seen) ==
    [Rest(j, table, k) EXCEPT !.step = "write", !.table = table, !.key = k, !.seen = seen]

\* The fields of the first.
LEMMA RestFields ==
  ASSUME NEW j, DOMAIN j = DOMAIN IdleJob, DOMAIN j.todo = Table,
         NEW table \in Table, NEW k
  PROVE  /\ DOMAIN Rest(j, table, k) = DOMAIN IdleJob
         /\ Rest(j, table, k).step = j.step
         /\ Rest(j, table, k).batch = j.batch
         /\ Rest(j, table, k).todo[table] = j.todo[table] \ {k}
         /\ \A t \in Table : t # table => Rest(j, table, k).todo[t] = j.todo[t]
  BY DEF Rest, IdleJob

\* The fields of the second.
LEMMA TakenFields ==
  ASSUME NEW j, DOMAIN j = DOMAIN IdleJob, DOMAIN j.todo = Table,
         NEW table \in Table, NEW k, NEW seen
  PROVE  /\ Taken(j, table, k, seen).step = "write"
         /\ Taken(j, table, k, seen).table = table
         /\ Taken(j, table, k, seen).key = k
         /\ Taken(j, table, k, seen).seen = seen
         /\ Taken(j, table, k, seen).batch = j.batch
         /\ Taken(j, table, k, seen).todo = Rest(j, table, k).todo
<1> DEFINE rest == Rest(j, table, k) next == Taken(j, table, k, seen)
<1>1. DOMAIN rest = DOMAIN IdleJob /\ rest.batch = j.batch
  BY RestFields
<1>2. next = [rest EXCEPT !.step = "write", !.table = table, !.key = k, !.seen = seen]
  BY DEF Taken
<1>3. /\ next.step = "write" /\ next.table = table /\ next.key = k
      /\ next.seen = seen /\ next.batch = rest.batch /\ next.todo = rest.todo
  <2> HIDE DEF rest, next
  <2> QED BY <1>1, <1>2 DEF IdleJob
<1> QED BY <1>1, <1>3

\* A row loop.
LEMMA TakeSections ==
  ASSUME TypeOK, ServerInv, NEW n \in Node,
         TakeEvent(n, "server") \/ TakeStatement(n, "server") \/ TakeImpact(n, "server")
  PROVE  Sections'
<1> DEFINE j == job[n]["server"]
<1>0. UNCHANGED <<events, statements, impacts>>
  BY DEF TakeEvent, TakeStatement, TakeImpact, Take, tables
<1>1. /\ JobOK(j) /\ j.step = "read" /\ DOMAIN j = DOMAIN IdleJob
      /\ j.batch \in Batch /\ DOMAIN j.todo = Table
      /\ \A t \in Table : j.todo[t] \subseteq Present(j.batch[t])
  <2>1. JobOK(j) /\ j.step = "read"
    BY DEF TypeOK, Process, TakeEvent, TakeStatement, TakeImpact, Take
  <2> HIDE DEF j
  <2> QED BY <2>1 DEF JobOK, IdleJob
<1>2. /\ BatchClosed(j.batch)
      /\ \A k \in Present(j.batch.truth_events) :
           k \in j.todo["truth_events"] \/ k \in Present(events[n])
  BY <1>1 DEF ServerInv, Sections, Section
<1>4. ASSUME TakeEvent(n, "server")
      PROVE  \E j2 : /\ job' = [job EXCEPT ![n]["server"] = j2]
                     /\ Section(j2, events[n], statements[n], impacts[n])
  <2>1. PICK k \in j.todo["truth_events"] :
          job' = [job EXCEPT ![n]["server"] =
                    IF Wins(j.batch.truth_events[k], events[n][k])
                    THEN Taken(j, "truth_events", k, events[n][k])
                    ELSE Rest(j, "truth_events", k)]
    BY <1>4 DEF TakeEvent, Take, Taken, Rest
  <2>2. "truth_events" \in Table /\ k \in Present(j.batch.truth_events)
    BY <1>1 DEF Table
  <2>3. CASE Wins(j.batch.truth_events[k], events[n][k])
    <3> DEFINE j2 == Taken(j, "truth_events", k, events[n][k])
    <3>1. /\ j2.step = "write" /\ j2.batch = j.batch /\ j2.table = "truth_events"
          /\ j2.key = k /\ j2.seen = events[n][k]
          /\ j2.todo["truth_events"] = j.todo["truth_events"] \ {k}
      BY <1>1, <2>2, RestFields, TakenFields
    <3>2. Incoming(j2) = j.batch.truth_events[k]
      BY <3>1 DEF Incoming
    <3>3. job' = [job EXCEPT ![n]["server"] = j2]
      BY <2>1, <2>3
    <3>4. Section(j2, events[n], statements[n], impacts[n])
      <4> HIDE DEF j2
      <4> QED BY <1>2, <2>3, <3>1, <3>2 DEF Section
    <3> HIDE DEF j2
    <3> QED BY <3>3, <3>4
  <2>4. CASE ~Wins(j.batch.truth_events[k], events[n][k])
    <3> DEFINE j2 == Rest(j, "truth_events", k)
    <3>1. /\ j2.step = "read" /\ j2.batch = j.batch
          /\ j2.todo["truth_events"] = j.todo["truth_events"] \ {k}
      BY <1>1, <2>2, RestFields, TakenFields
    <3>2. k \in Present(events[n])
      <4>1. k \in EventId
        BY <1>1, <2>2 DEF Present, EventTable, Batch
      <4> QED BY <2>4, <4>1 DEF Wins, Present, TypeOK, EventTable
    <3>3. job' = [job EXCEPT ![n]["server"] = j2]
      BY <2>1, <2>4
    <3>4. Section(j2, events[n], statements[n], impacts[n])
      <4> HIDE DEF j2
      <4> QED BY <1>2, <3>1, <3>2 DEF Section
    <3> HIDE DEF j2
    <3> QED BY <3>3, <3>4
  <2> QED BY <2>3, <2>4
<1>5. ASSUME NEW table \in {"statements", "impact"}, NEW rows, NEW applied,
             Take(n, "server", table, rows, applied)
      PROVE  \E j2 : /\ job' = [job EXCEPT ![n]["server"] = j2]
                     /\ Section(j2, events[n], statements[n], impacts[n])
  <2>1. PICK k \in j.todo[table] :
          job' = [job EXCEPT ![n]["server"] =
                    IF k \in applied THEN Taken(j, table, k, rows[k])
                    ELSE Rest(j, table, k)]
    BY <1>5 DEF Take, Taken, Rest
  <2>2. table \in Table /\ table # "truth_events" /\ "truth_events" \in Table
    BY DEF Table
  <2>3. CASE k \in applied
    <3> DEFINE j2 == Taken(j, table, k, rows[k])
    <3>1. /\ j2.step = "write" /\ j2.batch = j.batch /\ j2.table # "truth_events"
          /\ j2.todo["truth_events"] = j.todo["truth_events"]
      BY <1>1, <2>2, RestFields, TakenFields
    <3>2. job' = [job EXCEPT ![n]["server"] = j2]
      BY <2>1, <2>3
    <3> HIDE DEF j2
    <3>3. Section(j2, events[n], statements[n], impacts[n])
      BY <1>2, <3>1 DEF Section
    <3> QED BY <3>2, <3>3
  <2>4. CASE k \notin applied
    <3> DEFINE j2 == Rest(j, table, k)
    <3>1. /\ j2.step = "read" /\ j2.batch = j.batch
          /\ j2.todo["truth_events"] = j.todo["truth_events"]
      BY <1>1, <2>2, RestFields
    <3>2. job' = [job EXCEPT ![n]["server"] = j2]
      BY <2>1, <2>4
    <3> HIDE DEF j2
    <3>3. Section(j2, events[n], statements[n], impacts[n])
      BY <1>2, <3>1 DEF Section
    <3> QED BY <3>2, <3>3
  <2> QED BY <2>3, <2>4
<1>6. PICK j2 : /\ job' = [job EXCEPT ![n]["server"] = j2]
                /\ Section(j2, events[n], statements[n], impacts[n])
  BY <1>4, <1>5 DEF TakeStatement, TakeImpact
<1> QED BY <1>0, <1>6, SectionUpdate DEF ServerInv

\* Writing a row of the batch.
LEMMA WriteSections ==
  ASSUME TypeOK, ServerInv, NEW n \in Node,
         \/ WriteEvent(n, "server") \/ WriteStatement(n, "server")
         \/ WriteImpact(n, "server")
  PROVE  Sections'
<1> DEFINE j == job[n]["server"]
           next == [j EXCEPT !.step = "log"]
<1>1. /\ JobOK(j) /\ j.step = "write"
      /\ job' = [job EXCEPT ![n]["server"] = next]
  BY DEF TypeOK, Process, WriteEvent, WriteStatement, WriteImpact, Writing, Written
<1>2. next.step = "log" /\ next.batch = j.batch /\ next.todo = j.todo
  <2>1. DOMAIN j = DOMAIN IdleJob
    BY <1>1 DEF JobOK
  <2> HIDE DEF j
  <2> QED BY <2>1 DEF IdleJob
<1>3. Section(j, events[n], statements[n], impacts[n])
  BY DEF ServerInv, Sections
<1>4. \A m \in Node \ {n} : /\ events'[m] = events[m]
                            /\ statements'[m] = statements[m]
                            /\ impacts'[m] = impacts[m]
  BY DEF WriteEvent, WriteStatement, WriteImpact, TypeOK
<1>5. ASSUME \A k \in Present(j.batch.truth_events) :
               k \in j.todo["truth_events"] \/ k \in Present(events'[n])
      PROVE  Section(next, events'[n], statements'[n], impacts'[n])
  <2> HIDE DEF next
  <2> QED BY <1>1, <1>2, <1>3, <1>5 DEF Section
<1>6. \A k \in Present(j.batch.truth_events) :
        k \in j.todo["truth_events"] \/ k \in Present(events'[n])
  <2>1. CASE WriteEvent(n, "server")
    <3>1. /\ j.key \in EventId /\ Incoming(j) \in EventRow
          /\ events' = [events EXCEPT ![n] = Put(@, j.key, j.seen, Incoming(j))]
          /\ events[n] \in EventTable /\ events \in [Node -> EventTable]
      BY <2>1, WriteEventEffect DEF Process, TypeOK
    <3>2. j.table = "truth_events"
      BY <2>1 DEF WriteEvent, Writing
    <3>3. j.seen = events[n][j.key]
      BY <1>1, <1>3, <3>2 DEF Section
    <3> HIDE DEF j
    <3>4. events'[n] = Put(events[n], j.key, j.seen, Incoming(j))
      BY <3>1
    <3>5. Present(events[n]) \cup {j.key} \subseteq Present(events'[n])
      BY <3>1, <3>3, <3>4, NoRowAssump DEF Put, EventTable, Present
    <3> QED BY <1>1, <1>3, <3>5 DEF Section
  <2>2. CASE WriteStatement(n, "server") \/ WriteImpact(n, "server")
    <3>1. j.table # "truth_events" /\ UNCHANGED events
      BY <2>2 DEF WriteStatement, WriteImpact, Writing
    <3> QED BY <1>1, <1>3, <3>1 DEF Section
  <2> QED BY <2>1, <2>2
<1>7. Section(next, events'[n], statements'[n], impacts'[n])
  BY <1>5, <1>6
<1> HIDE DEF next
<1> QED BY <1>1, <1>4, <1>7, SectionUpdate DEF ServerInv

\* A statement or an impact of a closed batch finds its event: the loop over the
\* events is done, and has put or found each of them.
LEMMA NoForeignKeyFailure ==
  ASSUME TypeOK, ServerInv, NEW n \in Node
  PROVE  ~ForeignKeyFailure(n, "server")
<1> SUFFICES ASSUME ForeignKeyFailure(n, "server") PROVE FALSE
  OBVIOUS
<1> DEFINE j == job[n]["server"]
<1>1. /\ JobOK(j) /\ j.step = "write" /\ j.table \in {"statements", "impact"}
      /\ Section(j, events[n], statements[n], impacts[n])
  BY DEF TypeOK, Process, ForeignKeyFailure, Writing, ServerInv, Sections
<1>2. /\ BatchClosed(j.batch)
      /\ \A k \in Present(j.batch.truth_events) :
           k \in j.todo["truth_events"] \/ k \in Present(events[n])
  BY <1>1 DEF Section
<1>3. j.todo["truth_events"] = {}
  BY <1>1 DEF JobOK, IdleJob, Before
<1>4. Present(j.batch.truth_events) \subseteq Present(events[n])
  BY <1>2, <1>3
<1>5. j.key \in Present(j.batch[j.table])
  BY <1>1 DEF JobOK, IdleJob
<1>6. CASE j.table = "statements"
  <2>1. Incoming(j).ev \in Present(events[n])
    BY <1>2, <1>4, <1>5, <1>6 DEF BatchClosed, Closed, Incoming
  <2> QED BY <1>6, <2>1 DEF ForeignKeyFailure, Writing, Present
<1>7. CASE j.table = "impact"
  <2>1. Incoming(j) \in Present(events[n])
    BY <1>2, <1>4, <1>5, <1>7 DEF BatchClosed, Closed, Incoming
  <2> QED BY <1>7, <2>1 DEF ForeignKeyFailure, Writing, Present
<1> QED BY <1>1, <1>6, <1>7

\* The other steps of a job.
LEMMA OtherSections ==
  ASSUME TypeOK, ServerInv, NEW n \in Node,
         LogSync(n, "server") \/ Finish(n, "server") \/ Crash(n, "server")
  PROVE  Sections'
<1> DEFINE j == job[n]["server"]
<1>0. UNCHANGED <<events, statements, impacts>>
  BY DEF LogSync, Finish, Crash, tables
<1>1. CASE job' = [job EXCEPT ![n]["server"] = IdleJob]
  <2>1. Section(IdleJob, events'[n], statements'[n], impacts'[n])
    BY IdleSection DEF IdleJob
  <2> QED BY <1>0, <1>1, <2>1, SectionUpdate DEF ServerInv
<1>2. CASE LogSync(n, "server")
  <2> DEFINE next == [StartJob(j.batch) EXCEPT !.todo = j.todo]
  <2>1. j.step = "log" /\ job' = [job EXCEPT ![n]["server"] = next]
    BY <1>2 DEF LogSync
  <2>2. next.step = "read" /\ next.batch = j.batch /\ next.todo = j.todo
    BY DEF StartJob, IdleJob
  <2>3. Section(j, events[n], statements[n], impacts[n])
    BY DEF ServerInv, Sections
  <2> HIDE DEF next
  <2>4. Section(next, events'[n], statements'[n], impacts'[n])
    BY <1>0, <2>1, <2>2, <2>3 DEF Section
  <2> QED BY <1>0, <2>1, <2>4, SectionUpdate DEF ServerInv
<1> QED BY <1>1, <1>2 DEF Finish, Crash

\* The invariant of the critical sections is inductive.
LEMMA ServerInvStep ==
  ASSUME CliNode = {}, TypeOK, NoOrphans, ServerInv, [Next]_vars
  PROVE  ServerInv'
<1>0. NoCli /\ NoCli'
  BY NoCliStep DEF ServerInv
<1>1. ASSUME Sections', UNCHANGED <<net, cutShort>> PROVE ServerInv'
  BY <1>0, <1>1 DEF ServerInv, SyncNeverFails
<1>2. CASE Tick \/ UNCHANGED vars
  BY <1>1, <1>2 DEF Tick, vars, tables, logs, ServerInv, Sections
<1>3. ASSUME NEW n \in Node, Edit(n) PROVE ServerInv'
  <2>1. UNCHANGED <<net, cutShort>>
    BY <1>3 DEF Edit, AddEvent, SetEventDetected, AddStatement,
       UpdateStatementScore, AddImpact, logs
  <2> QED BY <1>1, <1>3, <2>1, EditSections DEF ServerInv
<1>4. ASSUME NEW n \in Node, PullStatements(n) \/ PullFails(n) PROVE FALSE
  BY <1>0, <1>4 DEF PullStatements, PullFails, NoCli
<1>5. ASSUME NEW n \in Node, NEW m \in Node, PullData(n, m) PROVE FALSE
  BY <1>5 DEF PullData
<1>6. ASSUME NEW n \in Node, NEW m \in Node,
             \/ \E p \in Process : Gather(n, p, m) \/ Push(n, p, m)
             \/ \E batch \in net[n][m] : Lose(n, m, batch) \/ Deliver(n, m, batch)
      PROVE  ServerInv'
  BY <1>0, <1>6, TransportSections
<1>7. ASSUME NEW n \in Node, NEW p \in Process, Reconcile(n, p) \/ Crash(n, p)
      PROVE  ServerInv'
  <2>1. job[n][p].step # "idle"
    BY <1>7 DEF Reconcile, TakeEvent, TakeStatement, TakeImpact, Take, WriteEvent,
       WriteStatement, WriteImpact, Writing, ForeignKeyFailure, LogSync, Finish, Crash
  <2>2. p = "server"
    BY <1>0, <2>1 DEF NoCli, IdleJob, Process
  <2>3. CASE \/ TakeEvent(n, "server") \/ TakeStatement(n, "server")
             \/ TakeImpact(n, "server")
    <3>1. UNCHANGED <<net, cutShort>>
      BY <2>3 DEF TakeEvent, TakeStatement, TakeImpact, Take, logs
    <3> QED BY <1>1, <2>3, <3>1, TakeSections
  <2>4. CASE \/ WriteEvent(n, "server") \/ WriteStatement(n, "server")
             \/ WriteImpact(n, "server")
    <3>1. UNCHANGED <<net, cutShort>>
      BY <2>4 DEF WriteEvent, WriteStatement, WriteImpact, logs
    <3> QED BY <1>1, <2>4, <3>1, WriteSections
  <2>5. CASE LogSync(n, "server") \/ Finish(n, "server") \/ Crash(n, "server")
    <3>1. UNCHANGED <<net, cutShort>>
      BY <2>5 DEF LogSync, Finish, Crash, logs
    <3> QED BY <1>1, <2>5, <3>1, OtherSections
  <2> QED BY <1>7, <2>2, <2>3, <2>4, <2>5, NoForeignKeyFailure DEF Reconcile
<1> QED BY <1>2, <1>3, <1>4, <1>5, <1>6, <1>7 DEF Next

\* It holds in every reachable state.
LEMMA ServerInvHolds == ASSUME CliNode = {} PROVE Spec => []ServerInv
<1>1. Init => ServerInv
  BY DEF Init, ServerInv, NoCli, Sections, Section, SyncNeverFails, IdleJob, Process
<1>2. TypeOK /\ NoOrphans /\ ServerInv /\ [Next]_vars => ServerInv'
  BY ServerInvStep
<1> QED BY <1>1, <1>2, TypeCorrect, ReferencesHold, PTL DEF Spec

\* When only servers open the databases, no reconcile fails half way on a foreign
\* key, whatever snapshots arrive in whatever order and whichever server is killed.
THEOREM ServersNeverFail == ASSUME CliNode = {} PROVE Spec => []SyncNeverFails
<1>1. ServerInv => SyncNeverFails
  BY DEF ServerInv
<1> QED BY <1>1, ServerInvHolds, PTL

\* Nor is there a snapshot under way that refers to an event it does not carry.
THEOREM SnapshotsAreClosed == ASSUME CliNode = {} PROVE Spec => []SnapshotsClosed
<1>1. ServerInv => SnapshotsClosed
  BY DEF ServerInv, BatchClosed, Closed, SnapshotsClosed, Present
<1> QED BY <1>1, ServerInvHolds, PTL

-----------------------------------------------------------------------------
(* Refinement of the abstract last-writer-wins store.                         *)

\* The store that the tables of events stand for.
Store == [n \in Node |-> [k \in EventId |-> VersionOf(events[n][k])]]

\* Replacing one event replaces one version.
LEMMA StoreUpdate ==
  ASSUME TypeOK, NEW n \in Node, NEW k \in EventId, NEW row,
         events' = [events EXCEPT ![n] = [events[n] EXCEPT ![k] = row]]
  PROVE  Store' = [Store EXCEPT ![n][k] = VersionOf(row)]
<1>1. /\ events \in [Node -> EventTable] /\ \A m \in Node : DOMAIN events[m] = EventId
  BY DEF TypeOK, EventTable
<1>2. \A m \in Node, i \in EventId :
        events'[m][i] = IF m = n /\ i = k THEN row ELSE events[m][i]
  BY <1>1
<1>3. \A m \in Node, i \in EventId :
        VersionOf(events'[m][i]) = [Store EXCEPT ![n][k] = VersionOf(row)][m][i]
  BY <1>2 DEF Store
<1> QED BY <1>3 DEF Store

\* A local operation writes a row that was absent, or keeps every version.
LEMMA EditRefines ==
  ASSUME TypeOK, NEW n \in Node, Edit(n)
  PROVE  \/ \E k \in EventId, v \in [by : Node, ts : Time] : Abstract!Write(n, k, v)
         \/ UNCHANGED <<Store, minted>>
<1>1. ASSUME NEW k \in EventId, NEW ts \in Time, AddEvent(n, k, ts)
      PROVE  \E v \in [by : Node, ts : Time] : Abstract!Write(n, k, v)
  <2> DEFINE row == [by |-> n, ts |-> ts, detected |-> "null"]
             v == [by |-> n, ts |-> ts]
  <2>1. /\ events' = [events EXCEPT ![n] = [events[n] EXCEPT ![k] = row]]
        /\ minted' = minted \cup {<<k, v>>}
        /\ NextId(events[n], k)
    BY <1>1 DEF AddEvent
  <2>2. VersionOf(row) = v
    BY NoRowAssump DEF EventRow, VersionOf
  <2>3. events[n][k] = NoRow
    <3>1. DOMAIN events[n] = EventId
      BY DEF TypeOK, EventTable
    <3> QED BY <2>1, <3>1, ConstAssump DEF NextId, Present, EventId
  <2>4. Store[n][k] = NoRow
    BY <2>3 DEF Store, VersionOf
  <2>5. Store' = [Store EXCEPT ![n][k] = v]
    <3> HIDE DEF row, v
    <3> QED BY <2>1, <2>2, StoreUpdate
  <2>6. Abstract!Write(n, k, v)
    BY <2>1, <2>4, <2>5 DEF Abstract!Write, Store
  <2> QED BY <2>6
<1>2. ASSUME NEW k \in EventId, NEW verdict \in Verdict, SetEventDetected(n, k, verdict)
      PROVE  UNCHANGED <<Store, minted>>
  <2> DEFINE row == [events[n][k] EXCEPT !.detected = verdict]
  <2>1. /\ events' = [events EXCEPT ![n] = [events[n] EXCEPT ![k] = row]]
        /\ UNCHANGED minted
        /\ events[n][k] # NoRow
    BY <1>2 DEF SetEventDetected
  <2>2. VersionOf(row) = VersionOf(events[n][k])
    <3>1. events[n][k] \in EventRow
      BY <2>1 DEF TypeOK, EventTable
    <3>2. row \in EventRow /\ row.by = events[n][k].by /\ row.ts = events[n][k].ts
      BY <3>1 DEF EventRow
    <3>3. row # NoRow
      BY <3>2, NoRowAssump
    <3> QED BY <2>1, <3>2, <3>3 DEF VersionOf
  <2>3. \A m \in Node, i \in EventId : VersionOf(events'[m][i]) = VersionOf(events[m][i])
    <3> HIDE DEF row
    <3> QED BY <2>1, <2>2 DEF TypeOK, EventTable
  <2> QED BY <2>1, <2>3 DEF Store
<1>3. ASSUME UNCHANGED <<events, minted>> PROVE UNCHANGED <<Store, minted>>
  BY <1>3 DEF Store
<1> QED BY <1>1, <1>2, <1>3 DEF Edit, AddStatement, UpdateStatementScore, AddImpact

\* The server writes an event over the row it compared: a known version with a later
\* timestamp is adopted.
LEMMA WriteRefines ==
  ASSUME TypeOK, ProvenanceInv, ServerInv, NEW n \in Node, WriteEvent(n, "server")
  PROVE  \E k \in EventId, v \in [by : Node, ts : Time] : Abstract!Adopt(n, k, v)
<1> DEFINE j == job[n]["server"]
           row == Incoming(j)
           v == VersionOf(row)
<1>1. /\ j.step = "write" /\ j.table = "truth_events" /\ JobOK(j)
  BY DEF WriteEvent, Writing, TypeOK, Process
<1>2. /\ j.key \in EventId /\ row \in EventRow
      /\ events[n] \in EventTable
      /\ events' = [events EXCEPT ![n] = Put(@, j.key, j.seen, row)]
      /\ UNCHANGED minted
  BY WriteEventEffect DEF Process
<1>3. /\ j.seen = events[n][j.key] /\ Wins(row, j.seen)
  BY <1>1 DEF ServerInv, Sections, Section
<1>4. <<j.key, v>> \in minted
  <2>1. j.key \in Present(j.batch.truth_events) /\ row = j.batch.truth_events[j.key]
    BY <1>1 DEF JobOK, IdleJob, Incoming
  <2>2. Known(j.batch.truth_events, minted)
    BY <1>1 DEF ProvenanceInv, JobKnown, Process
  <2> QED BY <2>1, <2>2 DEF Known
<1>5. /\ row # NoRow /\ v = [by |-> row.by, ts |-> row.ts]
      /\ v \in [by : Node, ts : Time] /\ v.ts = row.ts
  BY <1>2, NoRowAssump DEF VersionOf, EventRow
<1> HIDE DEF row, v, j
<1>6. events' = [events EXCEPT ![n] = [events[n] EXCEPT ![j.key] = row]]
  BY <1>2, <1>3 DEF Put
<1>7. Store' = [Store EXCEPT ![n][j.key] = v]
  <2>1. j.key \in EventId
    BY <1>2
  <2>2. Store' = [Store EXCEPT ![n][j.key] = VersionOf(row)]
    BY <1>6, <2>1, StoreUpdate
  <2> QED BY <2>2 DEF v
<1>8. Store[n][j.key] = NoRow \/ v.ts > Store[n][j.key].ts
  <2>1. Store[n][j.key] = VersionOf(events[n][j.key])
    BY <1>2 DEF Store
  <2>2. CASE events[n][j.key] = NoRow
    BY <2>1, <2>2 DEF VersionOf
  <2>3. CASE events[n][j.key] # NoRow
    BY <1>3, <1>5, <2>1, <2>3 DEF VersionOf, Wins
  <2> QED BY <2>2, <2>3
<1>9. Abstract!Adopt(n, j.key, v)
  BY <1>2, <1>4, <1>7, <1>8 DEF Abstract!Adopt, Store
<1> QED BY <1>2, <1>5, <1>9

\* Every node's events form a last-writer-wins store: a step replaces an event by
\* nothing but a version that some node wrote, with a later timestamp.
THEOREM EventsImplementLastWriter ==
  ASSUME CliNode = {}
  PROVE  Spec => ImplementsLastWriter
<1>1. Init => Abstract!LWInit
  BY DEF Init, Abstract!LWInit, VersionOf
<1>2. TypeOK /\ ProvenanceInv /\ ServerInv /\ [Next]_vars
        => [Abstract!LWNext]_(Abstract!lwVars)
  <2> SUFFICES ASSUME TypeOK, ProvenanceInv, ServerInv, [Next]_vars
               PROVE  [Abstract!LWNext]_(Abstract!lwVars)
    OBVIOUS
  <2>1. ASSUME UNCHANGED <<Store, minted>> PROVE UNCHANGED Abstract!lwVars
    BY <2>1 DEF Abstract!lwVars, Store
  <2>2. CASE QuietStep
    BY <2>1, <2>2, QuietStepTables DEF Store
  <2>3. ASSUME NEW n \in Node, Edit(n) PROVE [Abstract!LWNext]_(Abstract!lwVars)
    BY <2>1, <2>3, EditRefines DEF Abstract!LWNext
  <2>4. ASSUME NEW n \in Node, NEW p \in Process, WriteEvent(n, p)
        PROVE  Abstract!LWNext
    <3>1. p = "server"
      BY <2>4 DEF WriteEvent, Writing, ServerInv, NoCli, IdleJob, Process
    <3> QED BY <2>4, <3>1, WriteRefines DEF Abstract!LWNext
  <2>5. ASSUME NEW n \in Node, NEW p \in Process, WriteStatement(n, p) \/ WriteImpact(n, p)
        PROVE  UNCHANGED <<Store, minted>>
    BY <2>5 DEF WriteStatement, WriteImpact, Store
  <2> QED BY <2>1, <2>2, <2>3, <2>4, <2>5, StepKinds
<1>3. Spec => []ProvenanceInv
  <2>1. Init => ProvenanceInv
    BY DEF Init, ProvenanceInv, Known, JobKnown, Present, IdleJob
  <2>2. TypeOK /\ ProvenanceInv /\ [Next]_vars => ProvenanceInv'
    BY StepKinds, QuietStepProvenance, EditProvenance, WriteProvenance
  <2> QED BY <2>1, <2>2, TypeCorrect, PTL DEF Spec
<1> QED BY <1>1, <1>2, <1>3, TypeCorrect, ServerInvHolds, PTL
        DEF Spec, ImplementsLastWriter, Abstract!LWSpec

-----------------------------------------------------------------------------
(* Verdicts and timestamps.                                                   *)

\* An edit gives an event that a node has a verdict or leaves it alone.
LEMMA EditKeepsVerdict ==
  ASSUME TypeOK, NEW n \in Node, Edit(n), NEW m \in Node, NEW k \in EventId,
         events[m][k] # NoRow
  PROVE  \/ events'[m][k] = events[m][k]
         \/ events'[m][k].detected \in Verdict
<1>1. ASSUME NEW i \in EventId, NEW ts \in Time, AddEvent(n, i, ts)
      PROVE  events'[m][k] = events[m][k]
  <2>1. DOMAIN events[n] = EventId /\ DOMAIN events[m] = EventId
    BY DEF TypeOK, EventTable
  <2>2. events[n][i] = NoRow
    <3>1. NextId(events[n], i)
      BY <1>1 DEF AddEvent
    <3> QED BY ONLY <2>1, <3>1, i \in EventId, ConstAssump DEF NextId, Present, EventId
  <2>3. n # m \/ i # k
    BY <2>2
  <2>4. events \in [Node -> EventTable]
    BY DEF TypeOK
  <2> DEFINE row == [by |-> n, ts |-> ts, detected |-> "null"]
  <2>5. events' = [events EXCEPT ![n] = [events[n] EXCEPT ![i] = row]]
    BY <1>1 DEF AddEvent
  <2> HIDE DEF row
  <2> QED BY <2>1, <2>3, <2>4, <2>5
<1>2. ASSUME NEW i \in EventId, NEW v \in Verdict, SetEventDetected(n, i, v)
      PROVE  events'[m][k] = events[m][k] \/ events'[m][k].detected = v
  <2>1. events[n] \in EventTable /\ events[n][i] \in EventRow
    BY <1>2 DEF SetEventDetected, TypeOK, EventTable
  <2> DEFINE row == [events[n][i] EXCEPT !.detected = v]
  <2>2. row.detected = v
    BY <2>1 DEF EventRow
  <2>3. events' = [events EXCEPT ![n] = [events[n] EXCEPT ![i] = row]]
    BY <1>2 DEF SetEventDetected
  <2>4. events \in [Node -> EventTable] /\ DOMAIN events[n] = EventId
    BY <2>1 DEF TypeOK, EventTable
  <2> HIDE DEF row
  <2> QED BY <2>2, <2>3, <2>4
<1>3. CASE UNCHANGED events
  BY <1>3
<1>4. ASSUME NEW i, NEW ev, NEW s,
             \/ AddStatement(n, i, ev, s) \/ UpdateStatementScore(n, i, s)
             \/ AddImpact(n, i, ev)
      PROVE  UNCHANGED events
  BY <1>4 DEF AddStatement, UpdateStatementScore, AddImpact
<1>5. \/ \E i \in EventId, ts \in Time : AddEvent(n, i, ts)
      \/ \E i \in EventId, v \in Verdict : SetEventDetected(n, i, v)
      \/ UNCHANGED events
  BY <1>4 DEF Edit
<1> QED BY <1>1, <1>2, <1>3, <1>5

\* When only servers open the databases, an event that a reconcile writes over
\* another has a later timestamp.
LEMMA WriteIsLater ==
  ASSUME TypeOK, ServerInv, NEW m \in Node, NEW p \in Process, WriteEvent(m, p),
         NEW n \in Node, NEW k \in EventId, events[n][k] # NoRow
  PROVE  \/ events'[n][k] = events[n][k]
         \/ events'[n][k] \in EventRow /\ events'[n][k].ts > events[n][k].ts
<1> DEFINE j == job[m][p]
<1>1. p = "server"
  BY DEF WriteEvent, Writing, ServerInv, NoCli, IdleJob, Process
<1>2. /\ j.key \in EventId /\ Incoming(j) \in EventRow /\ events[m] \in EventTable
      /\ events' = [events EXCEPT ![m] = Put(@, j.key, j.seen, Incoming(j))]
  BY WriteEventEffect
<1>3. j.seen = events[m][j.key] /\ Wins(Incoming(j), j.seen)
  BY <1>1 DEF WriteEvent, Writing, ServerInv, Sections, Section
<1>4. events \in [Node -> EventTable] /\ DOMAIN events[m] = EventId
  BY <1>2 DEF TypeOK, EventTable
<1> HIDE DEF j
<1>5. events'[m] = [events[m] EXCEPT ![j.key] = Incoming(j)]
  BY <1>2, <1>3, <1>4 DEF Put
<1>6. CASE n = m /\ k = j.key
  BY <1>2, <1>3, <1>4, <1>5, <1>6 DEF Wins
<1>7. CASE n = m /\ k # j.key
  BY <1>4, <1>5, <1>7
<1>8. CASE n # m
  BY <1>2, <1>4, <1>8
<1> QED BY <1>6, <1>7, <1>8

\* A step that keeps the version of an event with a verdict keeps a verdict on it.
LEMMA VerdictKeptStep ==
  ASSUME TypeOK, ServerInv, [Next]_vars, NEW n \in Node, NEW k \in EventId,
         events[n][k] # NoRow, events[n][k].detected # "null",
         VersionOf(events'[n][k]) = VersionOf(events[n][k])
  PROVE  events'[n][k].detected # "null"
<1>1. "null" \notin Verdict
  BY ConstAssump
<1>2. CASE events'[n][k] = events[n][k]
  BY <1>2
<1>3. CASE QuietStep
  BY <1>3, <1>2, QuietStepTables
<1>4. ASSUME NEW m \in Node, Edit(m) PROVE events'[n][k].detected # "null"
  BY <1>1, <1>2, <1>4, EditKeepsVerdict
<1>5. ASSUME NEW m \in Node, NEW p \in Process, WriteEvent(m, p)
      PROVE  events'[n][k].detected # "null"
  <2>1. CASE events'[n][k] \in EventRow /\ events'[n][k].ts > events[n][k].ts
    <3>1. events[n][k] \in EventRow /\ events[n][k].ts \in Nat /\ events'[n][k].ts \in Nat
      BY <2>1, ConstAssump DEF TypeOK, EventTable, EventRow, Time
    <3>2. events'[n][k] # NoRow
      BY <2>1, NoRowAssump
    <3>3. events'[n][k].ts = events[n][k].ts
      BY <3>2 DEF VersionOf
    <3> QED BY <2>1, <3>1, <3>3
  <2> QED BY <1>2, <1>5, <2>1, WriteIsLater
<1>6. ASSUME NEW m \in Node, NEW p \in Process, WriteStatement(m, p) \/ WriteImpact(m, p)
      PROVE  events'[n][k].detected # "null"
  BY <1>2, <1>6 DEF WriteStatement, WriteImpact
<1> QED BY <1>3, <1>4, <1>5, <1>6, StepKinds

\* When only servers open the databases, no snapshot that arrives late, again or
\* out of order takes back a verdict on the version it was given to.
THEOREM VerdictsAreKept == ASSUME CliNode = {} PROVE Spec => VerdictKept
<1>1. TypeOK /\ ServerInv /\ [Next]_vars =>
        [\A n \in Node, k \in EventId :
           /\ events[n][k] # NoRow /\ events[n][k].detected # "null"
           /\ VersionOf(events'[n][k]) = VersionOf(events[n][k])
           => events'[n][k].detected # "null"]_vars
  BY VerdictKeptStep
<1> QED BY <1>1, TypeCorrect, ServerInvHolds, PTL DEF Spec, VerdictKept

-----------------------------------------------------------------------------
(* The audit record of applied events.                                        *)

\* The job is about to record this version of the row.
Records(j, k, row) ==
    /\ j.step = "log" /\ j.table = "truth_events" /\ j.key = k
    /\ VersionOf(Incoming(j)) = VersionOf(row)

\* Node n has a foreign event whose version is not recorded, and nothing is about to
\* record it.  Any job that has applied a row k excuses a missing record in
\* Unlogged; this excuses it only if it is the job's own version, so that a second
\* process that applies another version does not matter.
Owes(n, k) ==
    LET row == events[n][k] IN
    /\ row # NoRow
    /\ row.by # n
    /\ LogEntry("truth_events", k, row) \notin synclog[n]
    /\ ~\E p \in Process : Records(job[n][p], k, row)

Owed == {v \in Node \X EventId : Owes(v[1], v[2])}

\* Nothing is owed but for a kill.
AuditInv ==
    /\ DOMAIN synclog = Node
    /\ IsFiniteSet(Owed)
    /\ Cardinality(Owed) <= faults

\* A step that owes nothing new keeps the count.
LEMMA NothingOwed ==
  ASSUME TypeOK, AuditInv, faults' \in {faults, faults + 1}, DOMAIN synclog' = Node,
         \A n \in Node, k \in EventId : Owes(n, k)' => Owes(n, k)
  PROVE  AuditInv'
<1>1. Owed' \subseteq Owed
  BY DEF Owed
<1>2. IsFiniteSet(Owed') /\ Cardinality(Owed') <= Cardinality(Owed)
  BY <1>1, FS_Subset DEF AuditInv
<1>3. Cardinality(Owed) \in Nat /\ Cardinality(Owed') \in Nat /\ faults \in Nat
  BY <1>2, FS_CardinalityType DEF AuditInv, TypeOK
<1> HIDE DEF Owed
<1> QED BY <1>2, <1>3 DEF AuditInv

\* A kill owes one record at most.
LEMMA OneOwed ==
  ASSUME TypeOK, AuditInv, faults' = faults + 1, DOMAIN synclog' = Node,
         NEW m \in Node, NEW i,
         \A n \in Node, k \in EventId : Owes(n, k)' => Owes(n, k) \/ (n = m /\ k = i)
  PROVE  AuditInv'
<1>1. Owed' \subseteq Owed \cup {<<m, i>>}
  BY DEF Owed
<1>2. /\ IsFiniteSet(Owed \cup {<<m, i>>})
      /\ Cardinality(Owed \cup {<<m, i>>}) \in {Cardinality(Owed), Cardinality(Owed) + 1}
  BY FS_AddElement DEF AuditInv
<1>3. IsFiniteSet(Owed') /\ Cardinality(Owed') <= Cardinality(Owed \cup {<<m, i>>})
  BY <1>1, <1>2, FS_Subset
<1>4. Cardinality(Owed) \in Nat /\ Cardinality(Owed') \in Nat /\ faults \in Nat
  BY <1>3, FS_CardinalityType DEF AuditInv, TypeOK
<1> HIDE DEF Owed
<1> QED BY <1>2, <1>3, <1>4 DEF AuditInv

\* A step of a process on a database leaves the other jobs alone.
LEMMA OtherJobs ==
  ASSUME TypeOK, NEW n \in Node, NEW p \in Process, NEW j,
         job' = [job EXCEPT ![n][p] = j]
  PROVE  /\ job'[n][p] = j
         /\ \A m \in Node, q \in Process : m # n \/ q # p => job'[m][q] = job[m][q]
  BY DEF TypeOK

\* A job that is not at its record owes nothing new, whatever becomes of it.
LEMMA QuietJobOwes ==
  ASSUME TypeOK, UNCHANGED <<events, synclog>>,
         \/ UNCHANGED job
         \/ \E n \in Node, p \in Process : \E j :
              job[n][p].step # "log" /\ job' = [job EXCEPT ![n][p] = j]
  PROVE  \A m \in Node, k \in EventId : Owes(m, k)' => Owes(m, k)
<1>1. ASSUME NEW m \in Node, NEW q \in Process, NEW k \in EventId, NEW row,
             Records(job[m][q], k, row)
      PROVE  Records(job'[m][q], k, row)
  <2>1. job[m][q].step = "log"
    BY <1>1 DEF Records
  <2>2. job'[m][q] = job[m][q]
    BY <2>1, OtherJobs
  <2> QED BY <1>1, <2>2
<1> QED BY <1>1 DEF Owes

\* What a step that leaves the events alone and records nothing is.
LEMMA QuietOwes ==
  ASSUME TypeOK, [Next]_vars
  PROVE  \/ /\ UNCHANGED <<events, synclog>>
            /\ faults' \in {faults, faults + 1}
            /\ \/ UNCHANGED job
               \/ \E n \in Node, p \in Process : \E j :
                    job[n][p].step # "log" /\ job' = [job EXCEPT ![n][p] = j]
         \/ \E n \in Node, k \in EventId, ts \in Time : AddEvent(n, k, ts)
         \/ \E n \in Node, k \in EventId, v \in Verdict : SetEventDetected(n, k, v)
         \/ \E n \in Node, p \in Process : WriteEvent(n, p) \/ LogSync(n, p) \/ Crash(n, p)
<1> DEFINE Quiet == /\ UNCHANGED <<events, synclog>>
                    /\ faults' \in {faults, faults + 1}
                    /\ \/ UNCHANGED job
                       \/ \E n \in Node, p \in Process : \E j :
                            job[n][p].step # "log" /\ job' = [job EXCEPT ![n][p] = j]
<1>0. "server" \in Process /\ "cli" \in Process
  BY DEF Process
<1>1. ASSUME Tick \/ UNCHANGED vars PROVE Quiet
  BY <1>1 DEF Tick, vars, tables, logs
<1>2. ASSUME NEW n \in Node, NEW i, NEW ev, NEW s,
             \/ AddStatement(n, i, ev, s) \/ UpdateStatementScore(n, i, s)
             \/ AddImpact(n, i, ev)
      PROVE  Quiet
  BY <1>2 DEF AddStatement, UpdateStatementScore, AddImpact, logs
<1>3. ASSUME NEW n \in Node, PullFails(n) PROVE Quiet
  BY <1>3 DEF PullFails, tables, logs
<1>4. ASSUME NEW n \in Node, PullStatements(n) PROVE Quiet
  <2>1. /\ job[n]["cli"].step # "log" /\ \E j : job' = [job EXCEPT ![n]["cli"] = j]
        /\ UNCHANGED <<events, synclog, faults>>
    BY <1>4 DEF PullStatements, tables, logs
  <2> QED BY <1>0, <2>1
<1>5. ASSUME NEW n \in Node, NEW m \in Node, PullData(n, m) PROVE Quiet
  <2>1. /\ job[m]["server"].step # "log" /\ \E j : job' = [job EXCEPT ![m]["server"] = j]
        /\ UNCHANGED <<events, synclog, faults>>
    BY <1>5 DEF PullData, tables, logs
  <2> QED BY <1>0, <2>1
<1>6. ASSUME NEW n \in Node, NEW m \in Node, NEW p \in Process, Gather(n, p, m) \/ Push(n, p, m)
      PROVE  Quiet
  <2>1. /\ job[n][p].step # "log" /\ \E j : job' = [job EXCEPT ![n][p] = j]
        /\ UNCHANGED <<events, synclog, faults>>
    BY <1>6 DEF Gather, Push, tables, logs
  <2> QED BY <2>1
<1>7. ASSUME NEW n \in Node, NEW m \in Node, NEW batch \in net[n][m], Lose(n, m, batch)
      PROVE  Quiet
  BY <1>7 DEF Lose, tables, logs
<1>8. ASSUME NEW n \in Node, NEW m \in Node, NEW batch \in net[n][m], Deliver(n, m, batch)
      PROVE  Quiet
  <2>1. /\ job[m]["server"].step # "log" /\ \E j : job' = [job EXCEPT ![m]["server"] = j]
        /\ UNCHANGED <<events, synclog, faults>>
    BY <1>8 DEF Deliver, tables, logs
  <2> QED BY <1>0, <2>1
<1>9. ASSUME NEW n \in Node, NEW p \in Process,
             TakeEvent(n, p) \/ TakeStatement(n, p) \/ TakeImpact(n, p)
      PROVE  Quiet
  <2>1. ASSUME NEW table, NEW rows, NEW applied, Take(n, p, table, rows, applied)
        PROVE  Quiet
    <3>1. job[n][p].step # "log" /\ UNCHANGED <<events, synclog, faults>>
      BY <2>1 DEF Take, tables, logs
    <3>2. \E j : job' = [job EXCEPT ![n][p] = j]
      BY <2>1 DEF Take
    <3>3. \E i \in Node, q \in Process : \E j :
            job[i][q].step # "log" /\ job' = [job EXCEPT ![i][q] = j]
      BY <3>1, <3>2
    <3> QED BY <3>1, <3>3
  <2> HIDE DEF Quiet
  <2> QED BY <1>9, <2>1 DEF TakeEvent, TakeStatement, TakeImpact
<1>10. ASSUME NEW n \in Node, NEW p \in Process,
              \/ WriteStatement(n, p) \/ WriteImpact(n, p)
              \/ ForeignKeyFailure(n, p) \/ Finish(n, p)
       PROVE  Quiet
  <2>1. /\ job[n][p].step # "log" /\ \E j : job' = [job EXCEPT ![n][p] = j]
        /\ UNCHANGED <<events, synclog, faults>>
    BY <1>10 DEF WriteStatement, WriteImpact, ForeignKeyFailure, Finish, Writing, Written,
       tables, logs
  <2>2. \E i \in Node, q \in Process : \E j :
          job[i][q].step # "log" /\ job' = [job EXCEPT ![i][q] = j]
    BY <2>1
  <2> QED BY <2>1, <2>2
<1> HIDE DEF Quiet
<1>11. \/ Quiet
       \/ \E n \in Node, k \in EventId, ts \in Time : AddEvent(n, k, ts)
       \/ \E n \in Node, k \in EventId, v \in Verdict : SetEventDetected(n, k, v)
       \/ \E n \in Node, p \in Process : WriteEvent(n, p) \/ LogSync(n, p) \/ Crash(n, p)
  <2>1. ASSUME NEW n \in Node, Edit(n)
        PROVE  \/ Quiet
               \/ \E k \in EventId, ts \in Time : AddEvent(n, k, ts)
               \/ \E k \in EventId, v \in Verdict : SetEventDetected(n, k, v)
    BY <1>2, <2>1 DEF Edit
  <2>2. ASSUME NEW n \in Node, NEW p \in Process, Reconcile(n, p)
        PROVE  Quiet \/ WriteEvent(n, p) \/ LogSync(n, p)
    BY <1>9, <1>10, <2>2 DEF Reconcile
  <2> QED BY <1>1, <1>3, <1>4, <1>5, <1>6, <1>7, <1>8, <2>1, <2>2 DEF Next
<1> QED BY <1>11 DEF Quiet

\* An own event owes nothing, and a verdict does not change the version.
LEMMA EditOwes ==
  ASSUME TypeOK, NEW n \in Node, NEW i \in EventId,
         \/ \E ts \in Time : AddEvent(n, i, ts)
         \/ \E v \in Verdict : SetEventDetected(n, i, v),
         NEW m \in Node, NEW k \in EventId, Owes(m, k)'
  PROVE  Owes(m, k)
<1>0. UNCHANGED <<job, synclog>>
  BY DEF AddEvent, SetEventDetected, logs
<1>1. events \in [Node -> EventTable] /\ DOMAIN events[n] = EventId
  BY DEF TypeOK, EventTable
<1>2. ASSUME NEW row, events' = [events EXCEPT ![n][i] = row], m # n \/ k # i
      PROVE  events'[m][k] = events[m][k]
  BY <1>1, <1>2
<1>3. ASSUME NEW ts \in Time, AddEvent(n, i, ts) PROVE m # n \/ k # i
  <2> DEFINE row == [by |-> n, ts |-> ts, detected |-> "null"]
  <2>1. row.by = n
    OBVIOUS
  <2>2. events' = [events EXCEPT ![n][i] = row]
    BY <1>3 DEF AddEvent
  <2> HIDE DEF row
  <2>3. events'[n][i] = row
    BY <1>1, <2>2
  <2> QED BY <2>1, <2>3 DEF Owes
<1>4. ASSUME NEW v \in Verdict, SetEventDetected(n, i, v), m = n, k = i
      PROVE  /\ VersionOf(events'[m][k]) = VersionOf(events[m][k])
             /\ events[m][k] # NoRow /\ events'[m][k].by = events[m][k].by
  <2> DEFINE row == [events[n][i] EXCEPT !.detected = v]
  <2>1. events' = [events EXCEPT ![n][i] = row] /\ events[n][i] # NoRow
    BY <1>4 DEF SetEventDetected
  <2>2. events[n][i] \in EventRow
    BY <2>1, <1>1 DEF EventTable
  <2>3. row \in EventRow /\ row.by = events[n][i].by /\ row.ts = events[n][i].ts
    BY <2>2 DEF EventRow
  <2>4. row # NoRow
    BY <2>3, NoRowAssump
  <2> HIDE DEF row
  <2>5. events'[n][i] = row
    BY <1>1, <2>1
  <2> QED BY <1>4, <2>1, <2>3, <2>4, <2>5 DEF VersionOf
<1>5. \/ events'[m][k] = events[m][k]
      \/ /\ VersionOf(events'[m][k]) = VersionOf(events[m][k])
         /\ events[m][k] # NoRow /\ events'[m][k].by = events[m][k].by
  <2>1. CASE m # n \/ k # i
    <3>1. \E row : events' = [events EXCEPT ![n][i] = row]
      BY DEF AddEvent, SetEventDetected
    <3> QED BY <2>1, <3>1, <1>2
  <2>2. CASE m = n /\ k = i
    BY <2>2, <1>3, <1>4
  <2> QED BY <2>1, <2>2
<1> QED BY <1>0, <1>5 DEF Owes, Records, LogEntry

\* The write of an event goes on to record the version it wrote.
LEMMA WriteOwes ==
  ASSUME TypeOK, NEW n \in Node, NEW p \in Process, WriteEvent(n, p),
         NEW m \in Node, NEW k \in EventId, Owes(m, k)'
  PROVE  Owes(m, k)
<1> DEFINE j == job[n][p]  next == [j EXCEPT !.step = "log"]
<1>1. /\ j.key \in EventId /\ Incoming(j) \in EventRow /\ events[n] \in EventTable
      /\ events' = [events EXCEPT ![n] = Put(@, j.key, j.seen, Incoming(j))]
      /\ UNCHANGED synclog /\ j.step = "write" /\ j.table = "truth_events"
      /\ job' = [job EXCEPT ![n][p] = next] /\ DOMAIN j = DOMAIN IdleJob
  BY WriteEventEffect DEF WriteEvent, Writing, Written, logs, TypeOK, JobOK
<1>2. /\ next.step = "log" /\ next.table = "truth_events" /\ next.key = j.key
      /\ Incoming(next) = Incoming(j)
  <2> HIDE DEF j
  <2> QED BY <1>1 DEF Incoming, IdleJob
<1> HIDE DEF next
<1>3. job'[n][p] = next
  <2> HIDE DEF j
  <2>1. job' = [job EXCEPT ![n][p] = next]
    BY <1>1
  <2>2. ASSUME NEW x, job' = [job EXCEPT ![n][p] = x] PROVE job'[n][p] = x
    BY <2>2 DEF TypeOK
  <2> QED BY <2>1, <2>2
<1>4. ASSUME NEW q \in Process, NEW row, Records(job[m][q], k, row)
      PROVE  Records(job'[m][q], k, row)
  <2>1. job'[m][q] = job[m][q]
    BY <1>1, <1>4, OtherJobs DEF Records
  <2> QED BY <1>4, <2>1
<1>5. CASE events'[m][k] = events[m][k]
  BY <1>1, <1>4, <1>5 DEF Owes
<1>6. CASE events'[m][k] # events[m][k]
  <2> HIDE DEF j
  <2>1. m = n /\ k = j.key /\ events'[m][k] = Incoming(j)
    BY <1>1, <1>6 DEF Put, EventTable, TypeOK
  <2>2. Records(job'[m][p], k, events'[m][k])
    BY <1>2, <1>3, <2>1 DEF Records
  <2> QED BY <2>2 DEF Owes
<1> QED BY <1>5, <1>6

\* The record is made of the version that was owed.
LEMMA LogOwes ==
  ASSUME TypeOK, DOMAIN synclog = Node, NEW n \in Node, NEW p \in Process, LogSync(n, p),
         NEW m \in Node, NEW k \in EventId, Owes(m, k)'
  PROVE  Owes(m, k)
<1> DEFINE j == job[n][p]
           entry == LogEntry(j.table, j.key, Incoming(j))
<1>1. /\ UNCHANGED events
      /\ synclog' = [synclog EXCEPT ![n] = @ \cup {entry}]
      /\ \E next : job' = [job EXCEPT ![n][p] = next]
  BY DEF LogSync, tables
<1>2. synclog[m] \subseteq synclog'[m] /\ entry \in synclog'[n]
  <2> HIDE DEF entry
  <2> QED BY <1>1
<1>3. ASSUME NEW q \in Process, Records(job[m][q], k, events[m][k]) PROVE FALSE
  <2>1. CASE m = n /\ q = p
    <3>1. entry = LogEntry("truth_events", k, events[m][k])
      BY <1>3, <2>1 DEF Records, LogEntry
    <3> QED BY <1>1, <1>2, <2>1, <3>1 DEF Owes
  <2>2. CASE m # n \/ q # p
    <3>1. job'[m][q] = job[m][q]
      BY <1>1, <2>2, OtherJobs
    <3> QED BY <1>1, <1>3, <3>1 DEF Owes
  <2> QED BY <2>1, <2>2
<1> QED BY <1>1, <1>2, <1>3 DEF Owes

\* A killed process may take one record with it.
LEMMA CrashOwes ==
  ASSUME TypeOK, NEW n \in Node, NEW p \in Process, Crash(n, p),
         NEW m \in Node, NEW k \in EventId, Owes(m, k)'
  PROVE  Owes(m, k) \/ (m = n /\ k = job[n][p].key)
<1>1. /\ UNCHANGED <<events, synclog>> /\ job' = [job EXCEPT ![n][p] = IdleJob]
  BY DEF Crash, tables, logs
<1>2. ASSUME NEW q \in Process, Records(job[m][q], k, events[m][k]),
             ~(m = n /\ k = job[n][p].key)
      PROVE  Records(job'[m][q], k, events[m][k])
  <2>1. m # n \/ q # p
    BY <1>2 DEF Records
  <2> QED BY <1>1, <1>2, <2>1, OtherJobs
<1> QED BY <1>1, <1>2 DEF Owes

\* The count is inductive.
LEMMA AuditStep ==
  ASSUME TypeOK, AuditInv, [Next]_vars
  PROVE  AuditInv'
<1>1. CASE /\ UNCHANGED <<events, synclog>>
           /\ faults' \in {faults, faults + 1}
           /\ \/ UNCHANGED job
              \/ \E n \in Node, p \in Process : \E j :
                   job[n][p].step # "log" /\ job' = [job EXCEPT ![n][p] = j]
  BY <1>1, QuietJobOwes, NothingOwed DEF AuditInv
<1>2. ASSUME NEW n \in Node, NEW i \in EventId,
             \/ \E ts \in Time : AddEvent(n, i, ts)
             \/ \E v \in Verdict : SetEventDetected(n, i, v)
      PROVE  AuditInv'
  <2>1. UNCHANGED <<faults, synclog>>
    BY <1>2 DEF AddEvent, SetEventDetected, logs
  <2> QED BY <1>2, <2>1, EditOwes, NothingOwed DEF AuditInv
<1>3. ASSUME NEW n \in Node, NEW p \in Process, WriteEvent(n, p) PROVE AuditInv'
  <2>1. UNCHANGED <<faults, synclog>>
    BY <1>3 DEF WriteEvent, logs
  <2> QED BY <1>3, <2>1, WriteOwes, NothingOwed DEF AuditInv
<1>4. ASSUME NEW n \in Node, NEW p \in Process, LogSync(n, p) PROVE AuditInv'
  <2>1. UNCHANGED faults /\ DOMAIN synclog' = Node
    BY <1>4 DEF LogSync, AuditInv
  <2> QED BY <1>4, <2>1, LogOwes, NothingOwed DEF AuditInv
<1>5. ASSUME NEW n \in Node, NEW p \in Process, Crash(n, p) PROVE AuditInv'
  <2>1. faults' = faults + 1 /\ DOMAIN synclog' = Node
    BY <1>5 DEF Crash, AuditInv, logs
  <2> QED BY <1>5, <2>1, CrashOwes, OneOwed
<1> QED BY <1>1, <1>2, <1>3, <1>4, <1>5, QuietOwes

\* Whatever processes work on the databases, truthctl included, at most one applied
\* event per kill is missing from sync_log.
THEOREM AuditHolds == Spec => []AuditTrail
<1>1. Init => AuditInv
  <2> SUFFICES ASSUME Init PROVE AuditInv
    OBVIOUS
  <2>1. Owed = {}
    BY DEF Init, Owed, Owes
  <2> QED BY <2>1, FS_EmptySet DEF Init, AuditInv
<1>2. TypeOK /\ AuditInv /\ [Next]_vars => AuditInv'
  BY AuditStep
<1>3. TypeOK /\ AuditInv => AuditTrail
  <2> SUFFICES ASSUME TypeOK, AuditInv PROVE AuditTrail
    OBVIOUS
  <2> DEFINE missing == {v \in Node \X EventId : v[2] \in Unlogged(v[1])}
  <2>1. missing \subseteq Owed
    BY DEF Unlogged, Present, Owed, Owes, Records
  <2>2. Cardinality(missing) <= Cardinality(Owed) /\ IsFiniteSet(missing)
    BY <2>1, FS_Subset DEF AuditInv
  <2>3. Cardinality(missing) \in Nat /\ Cardinality(Owed) \in Nat /\ faults \in Nat
    BY <2>2, FS_CardinalityType DEF AuditInv, TypeOK
  <2> HIDE DEF missing
  <2>4. Cardinality(missing) <= faults
    BY <2>2, <2>3 DEF AuditInv
  <2> QED BY <2>4 DEF AuditTrail, missing
<1> QED BY <1>1, <1>2, <1>3, TypeCorrect, PTL DEF Spec

-----------------------------------------------------------------------------
(* Statements, on nodes whose clocks agree and that only servers work on.     *)

\* The statements of the table are stamped by now.
NotAfter(table, now) == \A k \in Present(table) : table[k].ts <= now

\* What a job applies is stamped by now; and the statement it is about to write over
\* is still the one it compared.
JobTimes(j, table, now) ==
    /\ j.step \in {"read", "write", "log"} => NotAfter(j.batch.statements, now)
    /\ j.step = "write" /\ j.table = "statements" =>
         j.seen = table[j.key] /\ Wins(Incoming(j), j.seen)

TimesInv ==
    /\ \A n, m \in Node : clock[n] = clock[m]
    /\ \A n \in Node : NotAfter(statements[n], clock[n])
    /\ \A n, m \in Node : \A b \in net[n][m] : NotAfter(b.statements, clock[n])
    /\ \A n \in Node : JobTimes(job[n]["server"], statements[n], clock[n])

\* A step of the server of n that leaves the tables alone.
LEMMA TimesJob ==
  ASSUME TypeOK, TimesInv, UNCHANGED <<clock, statements>>,
         NEW n \in Node, NEW j, job' = [job EXCEPT ![n]["server"] = j],
         JobTimes(j, statements[n], clock[n]),
         \A i, k \in Node : \A b \in net'[i][k] :
            b \in net[i][k] \/ NotAfter(b.statements, clock[i])
  PROVE  TimesInv'
<1>1. "server" \in Process
  BY DEF Process
<1>2. \A m \in Node : job'[m]["server"] = IF m = n THEN j ELSE job[m]["server"]
  BY <1>1 DEF TypeOK
<1>3. \A m \in Node : JobTimes(job'[m]["server"], statements[m], clock[m])
  BY <1>2 DEF TimesInv
<1>4. \A m \in Node : JobTimes(job[m]["server"], statements[m], clock[m])'
  BY <1>3 DEF JobTimes
<1>5. \A i, k \in Node : \A b \in net'[i][k] : NotAfter(b.statements, clock[i])
  BY DEF TimesInv
<1> QED BY <1>4, <1>5 DEF TimesInv, NotAfter

\* A step of the server of n that writes its statements.
LEMMA TimesStatements ==
  ASSUME TypeOK, TimesInv, UNCHANGED <<clock, net>>,
         NEW n \in Node, \A m \in Node \ {n} : statements'[m] = statements[m],
         NotAfter(statements'[n], clock[n]),
         NEW j, job'[n]["server"] = j,
         \A m \in Node \ {n} : job'[m]["server"] = job[m]["server"],
         JobTimes(j, statements'[n], clock[n])
  PROVE  TimesInv'
<1>1. \A m \in Node : NotAfter(statements'[m], clock[m])
  <2> TAKE m \in Node
  <2> QED BY DEF TimesInv
<1>2. \A m \in Node : JobTimes(job'[m]["server"], statements'[m], clock[m])
  <2> TAKE m \in Node
  <2>1. CASE m = n
    BY <2>1
  <2>2. CASE m # n
    BY <2>2 DEF TimesInv
  <2> QED BY <2>1, <2>2
<1>3. \A m \in Node : JobTimes(job[m]["server"], statements[m], clock[m])'
  BY <1>2 DEF JobTimes
<1>4. \A m \in Node : NotAfter(statements[m], clock[m])'
  BY <1>1 DEF NotAfter
<1>5. \A i, k \in Node : \A b \in net'[i][k] : NotAfter(b.statements, clock[i])'
  BY DEF TimesInv, NotAfter
<1> QED BY <1>3, <1>4, <1>5 DEF TimesInv

\* Nothing is known of a job that does nothing.
LEMMA IdleTimes ==
  ASSUME NEW j, j.step \in {"idle", "gather"}, NEW table, NEW now
  PROVE  JobTimes(j, table, now)
  BY DEF JobTimes

\* Time passes on all nodes alike.
LEMMA TickTimes ==
  ASSUME TypeOK, TimesInv, Tick
  PROVE  TimesInv'
<1>1. /\ UNCHANGED <<statements, net, job>>
      /\ \A n \in Node : clock'[n] = clock[n] + 1 /\ clock[n] \in Nat
  BY ConstAssump DEF Tick, tables, TypeOK, Time
<1>2. ASSUME NEW table \in StatementTable, NEW n \in Node, NotAfter(table, clock[n])
      PROVE  NotAfter(table, clock'[n])
  <2> SUFFICES ASSUME NEW k \in Present(table) PROVE table[k].ts <= clock'[n]
    BY DEF NotAfter
  <2>1. table[k].ts \in Nat
    BY ConstAssump DEF Present, StatementTable, StatementRow, Time
  <2>2. table[k].ts <= clock[n]
    BY <1>2 DEF NotAfter
  <2> QED BY <1>1, <2>1, <2>2
<1>3. \A n \in Node : NotAfter(statements[n], clock'[n])
  BY <1>2 DEF TimesInv, TypeOK
<1>4. \A n, m \in Node : \A b \in net[n][m] : NotAfter(b.statements, clock'[n])
  <2> SUFFICES ASSUME NEW n \in Node, NEW m \in Node, NEW b \in net[n][m]
               PROVE  NotAfter(b.statements, clock'[n])
    OBVIOUS
  <2>1. b.statements \in StatementTable
    BY DEF TypeOK, Batch
  <2> QED BY <1>2, <2>1 DEF TimesInv
<1>5. \A n \in Node : JobTimes(job[n]["server"], statements[n], clock'[n])
  <2> SUFFICES ASSUME NEW n \in Node
               PROVE  JobTimes(job[n]["server"], statements[n], clock'[n])
    OBVIOUS
  <2> DEFINE j == job[n]["server"]
  <2>1. JobTimes(j, statements[n], clock[n]) /\ JobOK(j)
    BY DEF TimesInv, TypeOK, Process
  <2> HIDE DEF j
  <2>2. ASSUME j.step \in {"read", "write", "log"}
        PROVE  NotAfter(j.batch.statements, clock'[n])
    <3>1. j.batch.statements \in StatementTable
      BY <2>1, <2>2 DEF JobOK, IdleJob, Batch
    <3> QED BY <1>2, <2>1, <2>2, <3>1 DEF JobTimes
  <2>3. JobTimes(j, statements[n], clock'[n])
    BY <2>1, <2>2 DEF JobTimes
  <2> QED BY <2>3 DEF j
<1>6. \A n, m \in Node : clock'[n] = clock'[m]
  BY <1>1 DEF TimesInv
<1>7. \A n \in Node : JobTimes(job[n]["server"], statements[n], clock[n])'
  BY <1>1, <1>5 DEF JobTimes
<1> QED BY <1>1, <1>3, <1>4, <1>6, <1>7 DEF TimesInv, NotAfter

\* A local operation stamps a statement with the clock, while the server waits.
LEMMA EditTimes ==
  ASSUME CliNode = {}, TypeOK, TimesInv, NEW n \in Node, Edit(n)
  PROVE  TimesInv'
<1>1. job[n]["server"].step = "idle" /\ UNCHANGED <<clock, net, job>>
  <2>1. ASSUME NEW i, NEW x, NEW y,
               \/ AddEvent(n, i, x) \/ SetEventDetected(n, i, x)
               \/ AddStatement(n, i, x, y) \/ UpdateStatementScore(n, i, x)
               \/ AddImpact(n, i, x)
        PROVE  Unlocked(n) /\ UNCHANGED <<clock, net, job>>
    BY <2>1 DEF AddEvent, SetEventDetected, AddStatement, UpdateStatementScore, AddImpact
  <2> QED BY <2>1 DEF Edit, Unlocked
<1>2. CASE UNCHANGED statements
  BY <1>1, <1>2 DEF TimesInv, NotAfter, JobTimes
<1>3. ASSUME NEW k \in StatementId, NEW row \in StatementRow, row.ts = clock[n],
             statements' = [statements EXCEPT ![n] = [statements[n] EXCEPT ![k] = row]]
      PROVE  TimesInv'
  <2>1. statements \in [Node -> StatementTable] /\ clock[n] \in Nat
    BY ConstAssump DEF TypeOK, Time
  <2>2. /\ statements'[n] = [statements[n] EXCEPT ![k] = row]
        /\ \A m \in Node \ {n} : statements'[m] = statements[m]
    BY <1>3, <2>1
  <2>3. NotAfter(statements'[n], clock[n])
    <3> SUFFICES ASSUME NEW i \in Present(statements'[n])
                 PROVE  statements'[n][i].ts <= clock[n]
      BY DEF NotAfter
    <3>1. CASE i = k
      BY <1>3, <2>1, <2>2, <3>1 DEF StatementTable
    <3>2. CASE i # k
      <4>1. i \in Present(statements[n]) /\ statements'[n][i] = statements[n][i]
        BY <2>1, <2>2, <3>2 DEF Present, StatementTable
      <4> QED BY <4>1 DEF TimesInv, NotAfter
    <3> QED BY <3>1, <3>2
  <2>4. JobTimes(job[n]["server"], statements'[n], clock[n])
    BY <1>1, IdleTimes
  <2> QED BY <1>1, <2>2, <2>3, <2>4, TimesStatements
<1>4. clock[n] \in Time /\ \A k \in StatementId : statements[n][k] \in StatementRow \cup {NoRow}
  BY DEF TypeOK, StatementTable
<1>5. ASSUME NEW k \in StatementId, NEW ev \in EventId, NEW s \in Score,
             AddStatement(n, k, ev, s)
      PROVE  TimesInv'
  <2> DEFINE row == [by |-> n, ev |-> ev, ts |-> clock[n], score |-> s]
  <2>1. row \in StatementRow /\ row.ts = clock[n]
    BY <1>4 DEF StatementRow
  <2>2. statements' = [statements EXCEPT ![n] = [statements[n] EXCEPT ![k] = row]]
    BY <1>5 DEF AddStatement
  <2> HIDE DEF row
  <2> QED BY <1>3, <2>1, <2>2
<1>6. ASSUME NEW k \in StatementId, NEW s \in Score, UpdateStatementScore(n, k, s)
      PROVE  TimesInv'
  <2> DEFINE row == [statements[n][k] EXCEPT !.score = s, !.ts = clock[n]]
  <2>1. row \in StatementRow /\ row.ts = clock[n]
    BY <1>4, <1>6 DEF StatementRow, UpdateStatementScore
  <2>2. statements' = [statements EXCEPT ![n] = [statements[n] EXCEPT ![k] = row]]
    BY <1>6 DEF UpdateStatementScore
  <2> HIDE DEF row
  <2> QED BY <1>3, <2>1, <2>2
<1> QED BY <1>2, <1>5, <1>6 DEF Edit, AddEvent, SetEventDetected, AddImpact

\* Snapshots carry what the node has, and a server takes them up as they are.
LEMMA TransportTimes ==
  ASSUME TypeOK, TimesInv, NoCli, NEW n \in Node, NEW m \in Node,
         \/ \E p \in Process : Gather(n, p, m) \/ Push(n, p, m)
         \/ \E batch \in net[n][m] : Lose(n, m, batch) \/ Deliver(n, m, batch)
  PROVE  TimesInv' \/ ~NoCli'
<1> USE DEF Process
<1>0. UNCHANGED <<clock, statements>>
  BY DEF Gather, Push, Lose, Deliver, tables
<1>1. ASSUME NEW p \in Process, Gather(n, p, m), NoCli' PROVE TimesInv'
  <2> DEFINE j == [IdleJob EXCEPT !.step = "gather", !.key = m, !.seen = events[n]]
  <2>1. job' = [job EXCEPT ![n][p] = j] /\ UNCHANGED net
    BY <1>1 DEF Gather
  <2>2. j.step = "gather" /\ IdleJob.step = "idle"
    BY DEF IdleJob
  <2> HIDE DEF j
  <2>3. job'[n][p] = j
    BY <2>1 DEF TypeOK
  <2>4. p = "server"
    BY <1>1, <2>2, <2>3 DEF NoCli
  <2>5. JobTimes(j, statements[n], clock[n])
    BY <2>2, IdleTimes
  <2> QED BY <1>0, <2>1, <2>4, <2>5, TimesJob
<1>2. ASSUME NEW p \in Process, Push(n, p, m) PROVE TimesInv'
  <2>1. job[n][p].step = "gather" /\ job[n]["cli"].step = "idle"
    BY <1>2 DEF Push, NoCli, IdleJob
  <2>2. p = "server"
    BY <2>1
  <2>3. /\ job' = [job EXCEPT ![n]["server"] = IdleJob]
        /\ net' = [net EXCEPT ![n][m] = @ \cup {Snapshot(n, "server")}]
    BY <1>2, <2>2 DEF Push
  <2>4. Snapshot(n, "server").statements = statements[n]
    BY DEF Snapshot
  <2> DEFINE b0 == Snapshot(n, "server")
  <2>5. NotAfter(b0.statements, clock[n])
    BY <2>4 DEF TimesInv
  <2> HIDE DEF b0
  <2>6. \A i, k \in Node : \A b \in net'[i][k] : b \in net[i][k] \/ (i = n /\ b = b0)
    BY <2>3 DEF TypeOK, b0
  <2>7. \A i, k \in Node : \A b \in net'[i][k] :
          b \in net[i][k] \/ NotAfter(b.statements, clock[i])
    BY <2>5, <2>6
  <2>8. JobTimes(IdleJob, statements[n], clock[n])
    BY IdleTimes DEF IdleJob
  <2> QED BY <1>0, <2>3, <2>7, <2>8, TimesJob
<1>3. ASSUME NEW batch \in net[n][m], Lose(n, m, batch) PROVE TimesInv'
  <2>1. UNCHANGED job /\ \A i, k \in Node : net'[i][k] \subseteq net[i][k]
    BY <1>3 DEF Lose, TypeOK
  <2> QED BY <1>0, <2>1 DEF TimesInv, NotAfter, JobTimes
<1>4. ASSUME NEW batch \in net[n][m], Deliver(n, m, batch) PROVE TimesInv'
  <2>1. /\ \A i, k \in Node : net'[i][k] \subseteq net[i][k]
        /\ job' = [job EXCEPT ![m]["server"] = StartJob(batch)]
    BY <1>4 DEF Deliver, TypeOK
  <2>2. StartJob(batch).step = "read" /\ StartJob(batch).batch = batch
    BY DEF StartJob, IdleJob
  <2>3. NotAfter(batch.statements, clock[m])
    BY DEF TimesInv
  <2>4. JobTimes(StartJob(batch), statements[m], clock[m])
    BY <2>2, <2>3 DEF JobTimes
  <2> QED BY <1>0, <2>1, <2>4, TimesJob
<1> QED BY <1>1, <1>2, <1>3, <1>4

\* What a row loop leaves alone.
LEMMA TakeQuiet ==
  ASSUME NEW n, NEW p, NEW table, NEW rows, NEW applied, Take(n, p, table, rows, applied)
  PROVE  job[n][p].step = "read" /\ UNCHANGED <<clock, statements, net>>
  BY DEF Take, tables

\* A row loop skips a row of the batch or takes it to write it.
LEMMA TakeCases ==
  ASSUME NEW n, NEW p, NEW table, NEW rows, NEW applied, Take(n, p, table, rows, applied)
  PROVE  \E k \in job[n][p].todo[table] :
           job' = [job EXCEPT ![n][p] =
                     IF k \in applied THEN Taken(job[n][p], table, k, rows[k])
                     ELSE Rest(job[n][p], table, k)]
  BY Zenon DEF Take, Taken, Rest

\* The row loops of a reconcile.
LEMMA TakeTimes ==
  ASSUME TypeOK, TimesInv, NEW n \in Node,
         TakeEvent(n, "server") \/ TakeStatement(n, "server") \/ TakeImpact(n, "server")
  PROVE  TimesInv'
<1> DEFINE j == job[n]["server"]
<1>0. job[n]["server"].step = "read" /\ UNCHANGED <<clock, statements, net>>
  BY TakeQuiet DEF TakeEvent, TakeStatement, TakeImpact
<1>1. /\ JobOK(j) /\ j.step = "read" /\ DOMAIN j = DOMAIN IdleJob
      /\ j.batch \in Batch /\ DOMAIN j.todo = Table
  <2>1. JobOK(j) /\ j.step = "read"
    BY <1>0 DEF TypeOK, Process
  <2> HIDE DEF j
  <2> QED BY <2>1 DEF JobOK, IdleJob
<1>2. NotAfter(j.batch.statements, clock[n])
  BY <1>1 DEF TimesInv, JobTimes
<1>3. ASSUME NEW table \in Table, NEW rows, NEW applied,
             Take(n, "server", table, rows, applied),
             table = "statements" =>
               /\ rows = statements[n]
               /\ \A k \in applied : Wins(j.batch.statements[k], rows[k])
      PROVE  TimesInv'
  <2>1. PICK k \in j.todo[table] :
          job' = [job EXCEPT ![n]["server"] =
                    IF k \in applied THEN Taken(j, table, k, rows[k])
                    ELSE Rest(j, table, k)]
    BY <1>3, TakeCases
  <2>2. CASE k \in applied
    <3> DEFINE j2 == Taken(j, table, k, rows[k])
    <3>1. /\ j2.step = "write" /\ j2.batch = j.batch /\ j2.table = table
          /\ j2.key = k /\ j2.seen = rows[k]
      BY <1>1, TakenFields
    <3>2. job' = [job EXCEPT ![n]["server"] = j2]
      BY <2>1, <2>2
    <3> HIDE DEF j2
    <3>3. table = "statements" => Incoming(j2) = j.batch.statements[k]
      BY <3>1 DEF Incoming
    <3>4. JobTimes(j2, statements[n], clock[n])
      BY <1>2, <1>3, <2>2, <3>1, <3>3 DEF JobTimes
    <3> QED BY <1>0, <3>2, <3>4, TimesJob
  <2>3. CASE k \notin applied
    <3> DEFINE j2 == Rest(j, table, k)
    <3>1. j2.step = "read" /\ j2.batch = j.batch
      BY <1>1, RestFields
    <3>2. job' = [job EXCEPT ![n]["server"] = j2]
      BY <2>1, <2>3
    <3> HIDE DEF j2
    <3>3. JobTimes(j2, statements[n], clock[n])
      BY <1>2, <3>1 DEF JobTimes
    <3> QED BY <1>0, <3>2, <3>3, TimesJob
  <2> QED BY <2>2, <2>3
<1>4. "truth_events" \in Table /\ "statements" \in Table /\ "impact" \in Table
  BY DEF Table
<1>5. CASE TakeStatement(n, "server")
  <2> DEFINE applied == {k \in j.todo["statements"] :
                           Wins(j.batch.statements[k], statements[n][k])}
  <2>1. Take(n, "server", "statements", statements[n], applied)
    BY <1>5 DEF TakeStatement
  <2>2. \A k \in applied : Wins(j.batch.statements[k], statements[n][k])
    OBVIOUS
  <2> HIDE DEF applied
  <2> QED BY <1>3, <1>4, <2>1, <2>2
<1>6. CASE TakeEvent(n, "server") \/ TakeImpact(n, "server")
  <2>1. PICK table \in {"truth_events", "impact"} :
          \E rows, applied : Take(n, "server", table, rows, applied)
    BY <1>6 DEF TakeEvent, TakeImpact
  <2>2. table \in Table /\ table # "statements"
    BY <1>4
  <2> HIDE DEF j
  <2> QED BY <1>3, <2>1, <2>2
<1> QED BY <1>5, <1>6

\* The writes of a reconcile.
LEMMA WriteTimes ==
  ASSUME TypeOK, TimesInv, NEW n \in Node,
         \/ WriteEvent(n, "server") \/ WriteStatement(n, "server")
         \/ WriteImpact(n, "server")
  PROVE  TimesInv'
<1> DEFINE j == job[n]["server"]  next == [j EXCEPT !.step = "log"]
<1>1. /\ JobOK(j) /\ DOMAIN j = DOMAIN IdleJob /\ j.step = "write"
      /\ job' = [job EXCEPT ![n]["server"] = next]
      /\ UNCHANGED <<clock, net>>
  BY DEF WriteEvent, WriteStatement, WriteImpact, Writing, Written, TypeOK, Process,
         JobOK
<1>2. NotAfter(j.batch.statements, clock[n])
  BY <1>1 DEF TimesInv, JobTimes
<1>3. next.step = "log" /\ next.batch = j.batch
  <2> HIDE DEF j
  <2> QED BY <1>1 DEF IdleJob
<1> HIDE DEF next
<1>4. \A table : JobTimes(next, table, clock[n])
  BY <1>2, <1>3 DEF JobTimes
<1>5. CASE WriteEvent(n, "server") \/ WriteImpact(n, "server")
  <2>1. UNCHANGED statements
    BY <1>5 DEF WriteEvent, WriteImpact
  <2> QED BY <1>1, <1>4, <2>1, TimesJob
<1>6. CASE WriteStatement(n, "server")
  <2>1. /\ j.table = "statements"
        /\ statements' = [statements EXCEPT ![n] = Put(@, j.key, j.seen, Incoming(j))]
    BY <1>6 DEF WriteStatement, Writing
  <2>2. /\ j.key \in Present(j.batch.statements)
        /\ Incoming(j) = j.batch.statements[j.key]
    BY <1>1, <2>1 DEF JobOK, IdleJob, Incoming
  <2>3. Incoming(j).ts <= clock[n]
    BY <1>2, <2>2 DEF NotAfter
  <2>4. statements \in [Node -> StatementTable] /\ DOMAIN statements[n] = StatementId
    BY DEF TypeOK, StatementTable
  <2> HIDE DEF j
  <2>5. /\ statements'[n] = Put(statements[n], j.key, j.seen, Incoming(j))
        /\ \A m \in Node \ {n} : statements'[m] = statements[m]
    BY <2>1, <2>4
  <2>6. NotAfter(statements'[n], clock[n])
    <3> SUFFICES ASSUME NEW i \in Present(statements'[n])
                 PROVE  statements'[n][i].ts <= clock[n]
      BY DEF NotAfter
    <3>1. CASE statements'[n][i] = Incoming(j)
      BY <2>3, <3>1
    <3>2. CASE statements'[n][i] # Incoming(j)
      <4>1. i \in Present(statements[n]) /\ statements'[n][i] = statements[n][i]
        BY <2>4, <2>5, <3>2 DEF Present, Put
      <4> QED BY <4>1 DEF TimesInv, NotAfter
    <3> QED BY <3>1, <3>2
  <2>7. /\ job'[n]["server"] = next
        /\ \A m \in Node \ {n} : job'[m]["server"] = job[m]["server"]
    BY <1>1 DEF TypeOK, Process
  <2> QED BY <1>1, <1>4, <2>5, <2>6, <2>7, TimesStatements
<1> QED BY <1>5, <1>6

\* The other steps of a job.
LEMMA OtherTimes ==
  ASSUME TypeOK, TimesInv, NEW n \in Node,
         \/ ForeignKeyFailure(n, "server") \/ LogSync(n, "server")
         \/ Finish(n, "server") \/ Crash(n, "server")
  PROVE  TimesInv'
<1> DEFINE j == job[n]["server"]
<1>0. UNCHANGED <<clock, statements, net>>
  BY DEF ForeignKeyFailure, LogSync, Finish, Crash, tables
<1>1. CASE job' = [job EXCEPT ![n]["server"] = IdleJob]
  <2>1. JobTimes(IdleJob, statements[n], clock[n])
    BY IdleTimes DEF IdleJob
  <2> QED BY <1>0, <1>1, <2>1, TimesJob
<1>2. CASE LogSync(n, "server")
  <2> DEFINE next == [StartJob(j.batch) EXCEPT !.todo = j.todo]
  <2>1. j.step = "log" /\ job' = [job EXCEPT ![n]["server"] = next]
    BY <1>2 DEF LogSync
  <2>2. next.step = "read" /\ next.batch = j.batch
    BY DEF StartJob, IdleJob
  <2>3. JobTimes(j, statements[n], clock[n])
    BY DEF TimesInv
  <2> HIDE DEF next
  <2>4. JobTimes(next, statements[n], clock[n])
    BY <2>1, <2>2, <2>3 DEF JobTimes
  <2> QED BY <1>0, <2>1, <2>4, TimesJob
<1> QED BY <1>1, <1>2 DEF ForeignKeyFailure, Finish, Crash

\* The invariant of the timestamps is inductive.
LEMMA TimesStep ==
  ASSUME CliNode = {}, TypeOK, ServerInv, TimesInv, [Next]_vars
  PROVE  TimesInv'
<1>0. NoCli /\ NoCli'
  BY NoCliStep DEF ServerInv
<1>1. CASE UNCHANGED vars
  BY <1>1 DEF vars, tables, TimesInv, NotAfter, JobTimes
<1>2. ASSUME NEW n \in Node, PullStatements(n) \/ PullFails(n) PROVE FALSE
  BY <1>0, <1>2 DEF PullStatements, PullFails, NoCli
<1>3. ASSUME NEW n \in Node, NEW m \in Node, PullData(n, m) PROVE FALSE
  BY <1>3 DEF PullData
<1>4. ASSUME NEW n \in Node, NEW m \in Node,
             \/ \E p \in Process : Gather(n, p, m) \/ Push(n, p, m)
             \/ \E batch \in net[n][m] : Lose(n, m, batch) \/ Deliver(n, m, batch)
      PROVE  TimesInv'
  BY <1>0, <1>4, TransportTimes
<1>5. ASSUME NEW n \in Node, NEW p \in Process, Reconcile(n, p) \/ Crash(n, p)
      PROVE  TimesInv'
  <2>1. job[n][p].step # "idle"
    BY <1>5, TakeQuiet DEF Reconcile, TakeEvent, TakeStatement, TakeImpact, WriteEvent,
       WriteStatement, WriteImpact, Writing, ForeignKeyFailure, LogSync, Finish, Crash
  <2>2. p = "server"
    BY <1>0, <2>1 DEF NoCli, IdleJob, Process
  <2> QED BY <1>5, <2>2, TakeTimes, WriteTimes, OtherTimes DEF Reconcile
<1> QED BY <1>1, <1>2, <1>3, <1>4, <1>5, TickTimes, EditTimes DEF Next

\* A step does not take a statement back to an older timestamp.
LEMMA NewestStep ==
  ASSUME CliNode = {}, TypeOK, ServerInv, TimesInv, [Next]_vars,
         NEW n \in Node, NEW k \in StatementId, statements[n][k] # NoRow
  PROVE  statements'[n][k] # NoRow /\ statements'[n][k].ts >= statements[n][k].ts
<1> DEFINE Goal == /\ statements'[n][k] # NoRow
                   /\ statements'[n][k].ts >= statements[n][k].ts
<1>1. /\ statements \in [Node -> StatementTable]
      /\ \A m \in Node : DOMAIN statements[m] = StatementId
      /\ statements[n][k] \in StatementRow
      /\ statements[n][k].ts \in Nat
      /\ statements[n][k].ts <= clock[n]
      /\ \A m \in Node : clock[m] \in Nat
  BY ConstAssump DEF TypeOK, StatementTable, StatementRow, Time, TimesInv, NotAfter, Present
<1>2. ASSUME statements'[n][k] = statements[n][k] PROVE Goal
  BY <1>1, <1>2
<1>3. ASSUME UNCHANGED statements PROVE Goal
  BY <1>2, <1>3
<1>4. ASSUME NEW m \in Node, NEW i \in StatementId, NEW ev \in EventId, NEW s \in Score,
             AddStatement(m, i, ev, s)
      PROVE  Goal
  <2> DEFINE row == [by |-> m, ev |-> ev, ts |-> clock[m], score |-> s]
  <2>1. statements' = [statements EXCEPT ![m] = [statements[m] EXCEPT ![i] = row]]
    BY <1>4 DEF AddStatement
  <2>2. statements[m][i] = NoRow
    <3>1. NextId(statements[m], i)
      BY <1>4 DEF AddStatement
    <3> QED BY ONLY <1>1, <3>1, i \in StatementId, m \in Node, ConstAssump
            DEF NextId, Present, StatementId
  <2> HIDE DEF row
  <2>3. statements'[n][k] = statements[n][k]
    BY <1>1, <2>1, <2>2
  <2> QED BY <1>2, <2>3
<1>5. ASSUME NEW m \in Node, NEW i \in StatementId, NEW s \in Score,
             UpdateStatementScore(m, i, s)
      PROVE  Goal
  <2> DEFINE row == [statements[m][i] EXCEPT !.score = s, !.ts = clock[m]]
  <2>1. /\ statements' = [statements EXCEPT ![m] = [statements[m] EXCEPT ![i] = row]]
        /\ statements[m][i] # NoRow
    BY <1>5 DEF UpdateStatementScore
  <2>2. statements[m][i] \in StatementRow /\ clock[m] \in Time
    BY <2>1 DEF TypeOK, StatementTable
  <2>3. row \in StatementRow /\ row.ts = clock[m]
    BY <2>2 DEF StatementRow
  <2>4. row # NoRow
    BY <2>3, NoRowAssump
  <2> HIDE DEF row
  <2>5. CASE m = n /\ i = k
    BY <1>1, <2>1, <2>3, <2>4, <2>5
  <2>6. CASE m # n \/ i # k
    <3>1. statements'[n][k] = statements[n][k]
      BY <1>1, <2>1, <2>6
    <3> QED BY <1>2, <3>1
  <2> QED BY <2>5, <2>6
<1>6. ASSUME NEW m \in Node, NEW p \in Process, WriteStatement(m, p) PROVE Goal
  <2> DEFINE j == job[m][p]
  <2>1. /\ j.step = "write" /\ j.table = "statements" /\ JobOK(j)
        /\ statements' = [statements EXCEPT ![m] = Put(@, j.key, j.seen, Incoming(j))]
    BY <1>6 DEF WriteStatement, Writing, TypeOK
  <2>2. p = "server"
    BY <2>1 DEF ServerInv, NoCli, IdleJob, Process
  <2>3. j.seen = statements[m][j.key] /\ Wins(Incoming(j), j.seen)
    BY <2>1, <2>2 DEF TimesInv, JobTimes
  <2>4. j.key \in StatementId /\ Incoming(j) \in StatementRow
    BY <2>1, IncomingRow
  <2>5. Incoming(j) # NoRow /\ Incoming(j).ts \in Nat
    BY <2>4, NoRowAssump, ConstAssump DEF StatementRow, Time
  <2> HIDE DEF j
  <2>6. statements'[m] = [statements[m] EXCEPT ![j.key] = Incoming(j)]
    BY <1>1, <2>1, <2>3 DEF Put
  <2>7. CASE m = n /\ j.key = k
    <3>1. statements'[n][k] = Incoming(j)
      BY <1>1, <2>6, <2>7
    <3> QED BY <1>1, <2>3, <2>5, <2>7, <3>1 DEF Wins
  <2>8. CASE m # n \/ j.key # k
    <3>1. statements'[n][k] = statements[n][k]
      BY <1>1, <2>1, <2>6, <2>8
    <3> QED BY <1>2, <3>1
  <2> QED BY <2>7, <2>8
<1> HIDE DEF Goal
<1>7. ASSUME NEW m \in Node, Edit(m) PROVE Goal
  <2>1. ASSUME NEW i, NEW x, \/ AddEvent(m, i, x) \/ SetEventDetected(m, i, x)
                             \/ AddImpact(m, i, x)
        PROVE  Goal
    BY <2>1, <1>3 DEF AddEvent, SetEventDetected, AddImpact
  <2> QED BY <1>4, <1>5, <1>7, <2>1 DEF Edit
<1>8. ASSUME NEW m \in Node, NEW p \in Process, WriteEvent(m, p) \/ WriteImpact(m, p)
      PROVE  Goal
  BY <1>3, <1>8 DEF WriteEvent, WriteImpact
<1>9. Goal
  BY <1>3, <1>6, <1>7, <1>8, StepKinds, QuietStepTables
<1> QED BY <1>9 DEF Goal

\* On nodes whose clocks agree and that only servers work on, no statement goes back
\* to an older updated_at, whatever snapshots arrive late, again or out of order.
THEOREM NewestStatementsWin ==
  ASSUME CliNode = {}, Skew = 0
  PROVE  Spec => NewestStatementWins
<1>1. Init => TimesInv
  <2> SUFFICES ASSUME Init PROVE TimesInv
    OBVIOUS
  <2>1. \A n \in Node : clock[n] = 1
    BY DEF Init
  <2>2. \A n \in Node : Present(statements[n]) = {}
    BY DEF Init, Present
  <2>3. \A n \in Node : job[n]["server"].step = "idle"
    BY DEF Init, Process, IdleJob
  <2>4. \A n, m \in Node : net[n][m] = {}
    BY DEF Init
  <2> QED BY <2>1, <2>2, <2>3, <2>4 DEF TimesInv, NotAfter, JobTimes
<1>2. TypeOK /\ ServerInv /\ TimesInv /\ [Next]_vars => TimesInv'
  BY TimesStep
<1>3. TypeOK /\ ServerInv /\ TimesInv /\ [Next]_vars =>
        [\A n \in Node, k \in StatementId :
           statements[n][k] # NoRow =>
             statements'[n][k] # NoRow /\ statements'[n][k].ts >= statements[n][k].ts]_vars
  BY NewestStep
<1> QED BY <1>1, <1>2, <1>3, TypeCorrect, ServerInvHolds, PTL
        DEF Spec, NewestStatementWins

===============================================================================
