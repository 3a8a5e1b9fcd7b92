---------------------------- MODULE PeerSyncProofs ----------------------------
(***************************************************************************)
(* Proofs about PeerSync, for any number of processes, requests, peers and   *)
(* recounts: what the relay rate of a peer is made of, that a broadcast      *)
(* sends one snapshot, that its answer tells the truth, that sync-all        *)
(* records every peer, and that the history counts every attempt once.       *)
(***************************************************************************)
EXTENDS PeerSync, SequenceFacts, TLAPS

Busy(c) == job[c].at \notin {"idle", "done"}

\* The peers sync-all works through are those of peers.json, each once.
LEMMA TargetsOnce ==
  Targets \in Seq(Peer) /\ IsInjective(Targets)
BY PeerAssump, RemoveFirstKeeps DEF Targets

\* RowOf gives a row of the history, or 0.
LEMMA RowFound ==
  ASSUME history \in Seq(Row), NEW p \in Peer
  PROVE  RowOf(p) \in Nat /\ (RowOf(p) # 0 => history[RowOf(p)] \in Row)
<1> DEFINE I == {i \in 1..Len(history) : history[i].peer = p}
<1>1. RowOf(p) = IF I # {} THEN Min(I) ELSE 0
  BY DEF RowOf, SelectInSeq
<1>2. Len(history) \in Nat
  OBVIOUS
<1>3. CASE I # {}
  <2>1. Min(I) \in I
    BY <1>2, <1>3, MinOfIndices
  <2>2. Min(I) \in 1..Len(history)
    BY <2>1
  <2> QED BY <1>1, <1>2, <1>3, <2>2
<1> QED BY <1>1, <1>3

\* A process that goes on to the next peer has dealt with the head of its list.
LEMMA NextPeerShape ==
  ASSUME NEW j \in Job, j.todo # <<>>
  PROVE  /\ NextPeer(j) \in Job /\ NextPeer(j).kind = j.kind
         /\ NextPeer(j).todo = Tail(j.todo)
         /\ NextPeer(j).at \in {"done", "log", "send"}
         /\ NextPeer(j).at # "done" => NextPeer(j).todo # <<>>
<1>1. Tail(j.todo) \in Seq(Peer)
  BY DEF Job
<1> QED BY <1>1 DEF NextPeer, Job

\* What a process is after a peer: with the next, or at its end.
LEMMA AfterShape ==
  ASSUME NEW j \in Job, j.todo # <<>>
  PROVE  /\ After(j) \in Job /\ After(j).kind = j.kind
         /\ After(j).at \in {"done", "log", "send"}
         /\ After(j).at # "done" => After(j).todo # <<>>
         /\ \/ After(j).todo = Tail(j.todo)
            \/ After(j).at = "done" /\ After(j).todo = j.todo
<1>1. [j EXCEPT !.at = "done"] \in Job
  BY DEF Job
<1>2. /\ [j EXCEPT !.at = "done"].todo = j.todo /\ [j EXCEPT !.at = "done"].kind = j.kind
      /\ [j EXCEPT !.at = "done"].at = "done"
  BY DEF Job
<1> QED BY <1>1, <1>2, NextPeerShape DEF After

-----------------------------------------------------------------------------
(* Type correctness.                                                          *)

\* A process that has not started.
LEMMA NoJobType == NoJob \in Job /\ NoJob.at = "idle"
BY DEF NoJob, Job, Mode

\* A request that has not been made.
LEMMA NoCastType == NoCast \in Broadcast
BY DEF NoCast, Broadcast

\* A node starts with empty tables and nobody at work.
LEMMA TypeInit == Init => TypeOK
<1> SUFFICES ASSUME Init PROVE TypeOK
  OBVIOUS
<1>1. NoJob \in Job /\ NoJob.at = "idle"
  BY NoJobType
<1>2. NoCast \in Broadcast
  BY NoCastType
<1>3. None \in Tally
  BY DEF None, Tally
<1> QED BY <1>1, <1>2, <1>3 DEF Init, TypeOK

\* A command starts with a job of its kind.
LEMMA StartType ==
  ASSUME TypeOK, NEW c \in Client, NEW kind \in {"one", "all", "app"}, NEW mode \in Mode,
         NEW todo \in Seq(Peer), NEW at \in {"send", "log"}, Start(c, kind, mode, todo, at)
  PROVE  TypeOK'
<1> DEFINE j == [NoJob EXCEPT !.kind = kind, !.mode = mode, !.todo = todo,
                              !.at = IF todo = <<>> THEN "done" ELSE at]
<1>1. j \in Job /\ j.todo = todo /\ j.at = IF todo = <<>> THEN "done" ELSE at
  BY DEF NoJob, Job
<1> HIDE DEF j
<1>2. job' = [job EXCEPT ![c] = j]
  BY DEF Start, j
<1>3. job' \in [Client -> Job] /\ \A d \in Client : Busy(d)' => job'[d].todo # <<>>
  BY <1>1, <1>2 DEF TypeOK, Busy
<1>4. runs' \in Nat /\ UNCHANGED <<tables, memory, caster, ghosts>>
  BY DEF Start, TypeOK
<1> QED BY <1>3, <1>4 DEF TypeOK, tables, caster, ghosts, Busy

\* An action that gives one process a job of the right shape.
LEMMA JobType ==
  ASSUME TypeOK, NEW c \in Client, NEW j \in Job, job' = [job EXCEPT ![c] = j],
         j.at \notin {"idle", "done"} => j.todo # <<>>
  PROVE  job' \in [Client -> Job] /\ \A d \in Client : Busy(d)' => job'[d].todo # <<>>
BY DEF TypeOK, Busy

\* Starting a command keeps the types.
LEMMA ClientType ==
  ASSUME TypeOK, NEW c \in Client, Busy(c)
  PROVE  job[c] \in Job /\ job[c].todo \in Seq(Peer) /\ job[c].todo # <<>> /\ Target(c) \in Peer
BY DEF TypeOK, Busy, Target, Job

\* Each of the commands starts one such job.
LEMMA CommandType ==
  ASSUME TypeOK, NEW c \in Client,
         \/ \E p \in Peer : \E mode \in Mode : SyncOne(c, p, mode)
         \/ \E mode \in Mode : SyncAll(c, mode)
         \/ DryRun(c)
         \/ \E pullOnly \in BOOLEAN : AppSync(c, pullOnly)
  PROVE  TypeOK'
<1>1. ASSUME NEW p \in Peer, NEW mode \in Mode, SyncOne(c, p, mode) PROVE TypeOK'
  <2>1. <<p>> \in Seq(Peer)
    OBVIOUS
  <2> QED BY <1>1, <2>1, StartType DEF SyncOne
<1>2. ASSUME NEW mode \in Mode, SyncAll(c, mode) PROVE TypeOK'
  BY <1>2, TargetsOnce, StartType DEF SyncAll
<1>3. CASE DryRun(c)
  BY <1>3, PeerAssump, StartType DEF DryRun, Mode
<1>4. ASSUME NEW pullOnly \in BOOLEAN, AppSync(c, pullOnly) PROVE TypeOK'
  BY <1>4, PeerAssump, StartType DEF AppSync, Mode
<1> QED BY <1>1, <1>2, <1>3, <1>4

\* Sending to a peer keeps the types.
LEMMA SendType ==
  ASSUME TypeOK, NEW c \in Client, Send(c)
  PROVE  TypeOK'
<1>1. Busy(c)
  BY DEF Send, At, Busy
<1>2. job[c] \in Job /\ job[c].todo # <<>> /\ Target(c) \in Peer
  BY <1>1, ClientType
<1>3. PICK good \in BOOLEAN, status \in BOOLEAN :
        /\ job' = [job EXCEPT ![c] =
               CASE @.mode = "pull" -> After([@ EXCEPT !.ok = good])
                 [] @.mode = "push" /\ ~status -> After([@ EXCEPT !.ok = FALSE])
                 [] OTHER -> [@ EXCEPT !.ok = good, !.at = "record"]]
        /\ ended' = IF job[c].mode \in {"full", "incremental"}
                    THEN [ended EXCEPT ![Target(c)] = Tried(@, good)]
                    ELSE ended
  BY Zenon DEF Send
<1>4. \A ok \in BOOLEAN : [job[c] EXCEPT !.ok = ok] \in Job /\ [job[c] EXCEPT !.ok = ok].todo # <<>>
  BY <1>2 DEF Job
<1>5. PICK j \in Job : job' = [job EXCEPT ![c] = j] /\ (j.at \notin {"idle", "done"} => j.todo # <<>>)
  <2>1. CASE job[c].mode = "pull"
    BY <1>3, <1>4, <2>1, AfterShape
  <2>2. CASE job[c].mode = "push" /\ ~status
    BY <1>3, <1>4, <2>2, AfterShape
  <2>3. CASE job[c].mode # "pull" /\ ~(job[c].mode = "push" /\ ~status)
    <3> DEFINE j == [job[c] EXCEPT !.ok = good, !.at = "record"]
    <3>1. j \in Job /\ j.todo # <<>>
      BY <1>2 DEF Job
    <3>2. job' = [job EXCEPT ![c] = j]
      BY <1>3, <2>3
    <3> QED BY <3>1, <3>2
  <2> QED BY <1>3, <2>1, <2>2, <2>3
<1>6. job' \in [Client -> Job] /\ \A d \in Client : Busy(d)' => job'[d].todo # <<>>
  BY <1>5, JobType
<1>7. ended' \in [Peer -> [ok : Nat, failed : Nat]]
  <2>1. ended[Target(c)] \in [ok : Nat, failed : Nat]
    BY <1>2 DEF TypeOK
  <2>2. Tried(ended[Target(c)], good) \in [ok : Nat, failed : Nat]
    BY <2>1 DEF Tried
  <2>3. PICK e \in [ok : Nat, failed : Nat] : ended' = [ended EXCEPT ![Target(c)] = e] \/ ended' = ended
    BY <1>3, <2>1, <2>2
  <2> QED BY <2>3 DEF TypeOK
<1> QED BY <1>6, <1>7 DEF Send, TypeOK, tables, caster, Busy

\* Counting the result in the relay metrics keeps the types.
LEMMA RecordType ==
  ASSUME TypeOK, NEW c \in Client, RecordRelayResult(c)
  PROVE  TypeOK'
<1>1. Busy(c)
  BY DEF RecordRelayResult, At, Busy
<1>2. job[c] \in Job /\ job[c].todo # <<>> /\ Target(c) \in Peer
  BY <1>1, ClientType
<1>3. PICK j \in Job : job' = [job EXCEPT ![c] = j] /\ (j.at \notin {"idle", "done"} => j.todo # <<>>)
  <2>1. CASE job[c].mode = "push"
    <3>1. job' = [job EXCEPT ![c] = After(job[c])]
      BY <2>1 DEF RecordRelayResult
    <3> QED BY <1>2, <3>1, AfterShape
  <2>2. CASE job[c].mode # "push"
    <3> DEFINE j == [job[c] EXCEPT !.at = IF job[c].ok THEN "flush" ELSE "read"]
    <3>1. j \in Job /\ j.todo # <<>>
      BY <1>2 DEF Job
    <3>2. job' = [job EXCEPT ![c] = j]
      BY <2>2 DEF RecordRelayResult
    <3> QED BY <3>1, <3>2
  <2> QED BY <2>1, <2>2
<1>4. job' \in [Client -> Job] /\ \A d \in Client : Busy(d)' => job'[d].todo # <<>>
  BY <1>3, JobType
<1>5. memory' \in [Client -> [Peer -> Tally]]
  <2>1. memory[c] \in [Peer -> Tally] /\ memory[c][Target(c)] \in Tally
    BY <1>2 DEF TypeOK
  <2>2. Counted(memory[c][Target(c)], job[c].ok) \in Tally
    BY <2>1 DEF Counted, Tally
  <2>3. memory' = [memory EXCEPT ![c] = [@ EXCEPT ![Target(c)] =
                                            Counted(memory[c][Target(c)], job[c].ok)]]
    BY <1>2, <2>1 DEF RecordRelayResult
  <2> QED BY <1>2, <2>1, <2>2, <2>3 DEF TypeOK
<1> QED BY <1>4, <1>5 DEF RecordRelayResult, TypeOK, tables, caster, ghosts, Busy

\* Writing the metrics to peer_history keeps the types.
LEMMA FlushType ==
  ASSUME TypeOK, NEW c \in Client, FlushRelayMetrics(c)
  PROVE  TypeOK'
<1>1. Busy(c)
  BY DEF FlushRelayMetrics, At, Busy
<1>2. job[c] \in Job /\ job[c].todo # <<>>
  BY <1>1, ClientType
<1>3. [job[c] EXCEPT !.at = "read"] \in Job /\ [job[c] EXCEPT !.at = "read"].todo # <<>>
  BY <1>2 DEF Job
<1>4. job' = [job EXCEPT ![c] = [job[c] EXCEPT !.at = "read"]]
  BY DEF FlushRelayMetrics
<1>5. job' \in [Client -> Job] /\ \A d \in Client : Busy(d)' => job'[d].todo # <<>>
  BY <1>3, <1>4, JobType
<1>6. rate' \in [Peer -> Tally \cup {NoRow}]
  BY DEF FlushRelayMetrics, TypeOK
<1> QED BY <1>5, <1>6 DEF FlushRelayMetrics, TypeOK, caster, ghosts, Busy

\* Reading the counters of a peer keeps the types.
LEMMA ReadType ==
  ASSUME TypeOK, NEW c \in Client, ReadHistory(c)
  PROVE  TypeOK'
<1>1. Busy(c)
  BY DEF ReadHistory, At, Busy
<1>2. job[c] \in Job /\ job[c].todo # <<>> /\ Target(c) \in Peer
  BY <1>1, ClientType
<1> DEFINE i == RowOf(Target(c))
           j == [job[c] EXCEPT !.at = "write", !.id = i,
                               !.seen = IF i = 0 THEN NoRow ELSE history[i]]
<1>3. i \in Nat /\ (i # 0 => history[i] \in Row)
  BY <1>2, RowFound DEF TypeOK
<1>4. job' = [job EXCEPT ![c] = j]
  BY DEF ReadHistory
<1>5. j \in Job /\ j.todo # <<>>
  <2> HIDE DEF i
  <2> QED BY <1>2, <1>3 DEF Job
<1> HIDE DEF j
<1>6. job' \in [Client -> Job] /\ \A d \in Client : Busy(d)' => job'[d].todo # <<>>
  BY <1>4, <1>5, JobType
<1> QED BY <1>6 DEF ReadHistory, TypeOK, tables, caster, ghosts, Busy

\* Writing them back keeps the types.
LEMMA WriteType ==
  ASSUME TypeOK, NEW c \in Client, WriteHistory(c)
  PROVE  TypeOK'
<1>1. Busy(c)
  BY DEF WriteHistory, At, Busy
<1>2. job[c] \in Job /\ job[c].todo # <<>> /\ Target(c) \in Peer
  BY <1>1, ClientType
<1> DEFINE row == IF job[c].seen = NoRow THEN [peer |-> Target(c), succ |-> 0, fail |-> 0]
                  ELSE job[c].seen
<1>3. row \in Row
  BY <1>2 DEF Row, Job
<1>4. Bumped(row, job[c].ok) \in Row
  <2> HIDE DEF row
  <2> QED BY <1>3 DEF Bumped, Row
<1>5. history' \in Seq(Row)
  <2>1. \/ history' = Append(history, Bumped(row, job[c].ok))
        \/ history' = [history EXCEPT ![job[c].id] = Bumped(row, job[c].ok)]
    BY DEF WriteHistory
  <2>2. history \in Seq(Row)
    BY DEF TypeOK
  <2> HIDE DEF row
  <2> QED BY <1>4, <2>1, <2>2
<1>6. PICK j \in Job : job' = [job EXCEPT ![c] = j] /\ (j.at \notin {"idle", "done"} => j.todo # <<>>)
  <2>1. CASE job[c].kind = "all"
    <3>1. [job[c] EXCEPT !.at = "log"] \in Job /\ [job[c] EXCEPT !.at = "log"].todo # <<>>
      BY <1>2 DEF Job
    <3> QED BY <2>1, <3>1 DEF WriteHistory
  <2>2. CASE job[c].kind # "all"
    BY <1>2, <2>2, AfterShape DEF WriteHistory
  <2> QED BY <2>1, <2>2
<1>7. job' \in [Client -> Job] /\ \A d \in Client : Busy(d)' => job'[d].todo # <<>>
  BY <1>6, JobType
<1>8. raced' \subseteq Peer
  BY <1>2 DEF WriteHistory, TypeOK
<1>9. UNCHANGED <<rate, synclogs, memory, caster, runs, ended, cut>>
  BY DEF WriteHistory
<1> QED BY <1>5, <1>7, <1>8, <1>9 DEF TypeOK, caster, Busy

\* An entry of the journal keeps the types.
LEMMA LogType ==
  ASSUME TypeOK, NEW c \in Client, LogSyncEvent(c)
  PROVE  TypeOK'
<1>1. Busy(c)
  BY DEF LogSyncEvent, At, Busy
<1>2. job[c] \in Job /\ job[c].todo # <<>> /\ Target(c) \in Peer
  BY <1>1, ClientType
<1>3. job' \in [Client -> Job] /\ \A d \in Client : Busy(d)' => job'[d].todo # <<>>
  BY <1>2, AfterShape, JobType DEF LogSyncEvent
<1>4. synclogs' \in Seq(LogRow)
  <2> DEFINE row == [by |-> c, peer |-> Target(c), mode |-> job[c].mode,
                     status |-> IF job[c].mode = "dry-run" THEN "dry-run"
                                ELSE IF job[c].ok THEN "success" ELSE "error"]
  <2>1. row \in LogRow
    BY <1>2 DEF LogRow, Job
  <2>2. synclogs' = Append(synclogs, row)
    BY DEF LogSyncEvent
  <2> HIDE DEF row
  <2> QED BY <2>1, <2>2 DEF TypeOK
<1> QED BY <1>3, <1>4 DEF LogSyncEvent, TypeOK, caster, ghosts, Busy

\* A killed command keeps the types.
LEMMA KillType ==
  ASSUME TypeOK, NEW c \in Client, Kill(c)
  PROVE  TypeOK'
<1>1. Busy(c)
  BY DEF Kill, Busy
<1>2. Target(c) \in Peer
  BY <1>1, ClientType
<1> DEFINE j == [NoJob EXCEPT !.kind = "gone", !.at = "done"]
<1>3. j \in Job /\ j.at = "done"
  BY NoJobType DEF Job
<1>4. job' = [job EXCEPT ![c] = j]
  BY DEF Kill
<1> HIDE DEF j
<1>5. job' \in [Client -> Job] /\ \A d \in Client : Busy(d)' => job'[d].todo # <<>>
  BY <1>3, <1>4, JobType
<1>6. memory' \in [Client -> [Peer -> Tally]]
  BY DEF Kill, TypeOK, None, Tally
<1>7. cut' \subseteq Peer
  BY <1>2 DEF Kill, TypeOK
<1> QED BY <1>5, <1>6, <1>7 DEF Kill, TypeOK, tables, caster, Busy

\* The steps of a broadcast keep the shape of the requests and of what peers have.
LEMMA CastType ==
  ASSUME TypeOK,
         \/ Recount
         \/ \E r \in Request : RatingsSync(r) \/ RankPeer(r) \/ SortPeers(r) \/ PostRatings(r)
  PROVE  TypeOK'
<1>1. CASE Recount
  <2>1. version' \in Nat
    BY <1>1 DEF Recount, TypeOK
  <2>2. prio' \in BOOLEAN /\ UNCHANGED <<tables, client, cast, got, runs, ghosts>>
    BY <1>1 DEF Recount
  <2> QED BY <2>1, <2>2 DEF TypeOK, tables, client, ghosts
<1>2. ASSUME NEW r \in Request, RatingsSync(r) PROVE TypeOK'
  <2> DEFINE b == [NoCast EXCEPT !.todo = PeerList, !.payload = version, !.asked = version,
                                 !.answer = "rank"]
  <2>1. b \in Broadcast
    <3>1. PeerList \in Seq(Peer) /\ version \in Nat
      BY PeerAssump DEF TypeOK
    <3> QED BY <3>1, NoCastType DEF Broadcast
  <2>2. cast' = [cast EXCEPT ![r] = b]
    BY <1>2 DEF RatingsSync
  <2> HIDE DEF b
  <2>3. cast' \in [Request -> Broadcast]
    BY <2>1, <2>2 DEF TypeOK
  <2>4. runs' \in Nat /\ UNCHANGED <<tables, client, version, prio, got, ghosts>>
    BY <1>2 DEF RatingsSync, TypeOK
  <2> QED BY <2>3, <2>4 DEF TypeOK, tables, client, ghosts
<1>3. ASSUME NEW r \in Request, RankPeer(r) PROVE TypeOK'
  <2>1. cast[r] \in Broadcast /\ cast[r].todo # <<>>
    BY <1>3 DEF RankPeer, TypeOK
  <2> DEFINE b == [cast[r] EXCEPT !.todo = Tail(@),
                      !.order = IF prio THEN Append(@, Head(cast[r].todo)) ELSE @,
                      !.late  = IF prio THEN @ ELSE Append(@, Head(cast[r].todo))]
  <2>2. b \in Broadcast
    <3>1. /\ Tail(cast[r].todo) \in Seq(Peer) /\ Head(cast[r].todo) \in Peer
          /\ cast[r].order \in Seq(Peer) /\ cast[r].late \in Seq(Peer)
      BY <2>1, ToSetTail DEF Broadcast
    <3>2. /\ Append(cast[r].order, Head(cast[r].todo)) \in Seq(Peer)
          /\ Append(cast[r].late, Head(cast[r].todo)) \in Seq(Peer)
      BY <3>1
    <3> QED BY <2>1, <3>1, <3>2 DEF Broadcast
  <2>3. cast' = [cast EXCEPT ![r] = b]
    BY <1>3 DEF RankPeer
  <2> HIDE DEF b
  <2>4. cast' \in [Request -> Broadcast]
    BY <2>2, <2>3 DEF TypeOK
  <2>5. UNCHANGED <<tables, client, version, prio, got, runs, ghosts>>
    BY <1>3 DEF RankPeer
  <2> QED BY <2>4, <2>5 DEF TypeOK, tables, client, ghosts
<1>4. ASSUME NEW r \in Request, SortPeers(r) PROVE TypeOK'
  <2>1. cast[r] \in Broadcast
    BY DEF TypeOK
  <2> DEFINE b == [cast[r] EXCEPT !.todo = cast[r].order \o cast[r].late, !.order = <<>>,
                                  !.late = <<>>, !.answer = "post"]
  <2>2. b \in Broadcast
    <3> DEFINE all == cast[r].order \o cast[r].late
    <3>1. all \in Seq(Peer)
      BY <2>1 DEF Broadcast
    <3>2. <<>> \in Seq(Peer)
      OBVIOUS
    <3> HIDE DEF all
    <3>3. [cast[r] EXCEPT !.todo = all, !.order = <<>>, !.late = <<>>, !.answer = "post"] \in Broadcast
      BY <2>1, <3>1, <3>2 DEF Broadcast
    <3> QED BY <3>3 DEF all
  <2>3. cast' = [cast EXCEPT ![r] = b]
    BY <1>4 DEF SortPeers
  <2> HIDE DEF b
  <2>4. cast' \in [Request -> Broadcast]
    BY <2>2, <2>3 DEF TypeOK
  <2>5. UNCHANGED <<tables, client, version, prio, got, runs, ghosts>>
    BY <1>4 DEF SortPeers
  <2> QED BY <2>4, <2>5 DEF TypeOK, tables, client, ghosts
<1>5. ASSUME NEW r \in Request, PostRatings(r) PROVE TypeOK'
  <2>1. /\ cast[r] \in Broadcast /\ cast[r].todo # <<>> /\ cast[r].payload \in Nat
        /\ Head(cast[r].todo) \in Peer /\ Tail(cast[r].todo) \in Seq(Peer)
    <3>1. cast[r] \in Broadcast /\ cast[r].todo # <<>>
      BY <1>5 DEF PostRatings, TypeOK
    <3> QED BY <3>1, ToSetTail DEF Broadcast
  <2> DEFINE m == [by |-> r, version |-> cast[r].payload]
  <2>2. m \in [by : Request, version : Nat]
    BY <2>1
  <2>3. PICK handled, good \in BOOLEAN :
          /\ got' = IF handled THEN [got EXCEPT ![Head(cast[r].todo)] = Append(@, m)] ELSE got
          /\ cast' = [cast EXCEPT ![r] = Posted(cast[r], good)]
    BY <1>5 DEF PostRatings, Payload
  <2> HIDE DEF m
  <2>4. Posted(cast[r], good) \in Broadcast
    BY <2>1 DEF Posted, Broadcast
  <2>5. cast' \in [Request -> Broadcast]
    BY <2>3, <2>4 DEF TypeOK
  <2>6. got' \in [Peer -> Seq([by : Request, version : Nat])]
    <3> DEFINE M == [by : Request, version : Nat]
    <3>1. got \in [Peer -> Seq(M)] /\ m \in M
      BY <2>2 DEF TypeOK
    <3> HIDE DEF M
    <3>2. got[Head(cast[r].todo)] \in Seq(M)
      BY <2>1, <3>1
    <3>3. Append(got[Head(cast[r].todo)], m) \in Seq(M)
      BY <3>1, <3>2
    <3>4. got' \in [Peer -> Seq(M)]
      BY <2>1, <2>3, <3>1, <3>3
    <3> QED BY <3>4 DEF M
  <2>7. UNCHANGED <<tables, client, version, prio, runs, ghosts>>
    BY <1>5 DEF PostRatings
  <2> QED BY <2>5, <2>6, <2>7 DEF TypeOK, tables, client, ghosts
<1> QED BY <1>1, <1>2, <1>3, <1>4, <1>5

\* Every step keeps the types.
LEMMA TypeStep ==
  ASSUME TypeOK, [Next]_vars
  PROVE  TypeOK'
<1>1. CASE UNCHANGED vars
  BY <1>1 DEF vars, tables, client, caster, ghosts, TypeOK
<1>2. ASSUME NEW c \in Client,
             \/ \E p \in Peer : \E mode \in Mode : SyncOne(c, p, mode)
             \/ \E mode \in Mode : SyncAll(c, mode)
             \/ DryRun(c)
             \/ \E pullOnly \in BOOLEAN : AppSync(c, pullOnly)
      PROVE  TypeOK'
  BY <1>2, CommandType
<1>3. ASSUME NEW c \in Client, \/ Send(c) \/ RecordRelayResult(c) \/ FlushRelayMetrics(c)
                               \/ ReadHistory(c) \/ WriteHistory(c) \/ LogSyncEvent(c) \/ Kill(c)
      PROVE  TypeOK'
  BY <1>3, SendType, RecordType, FlushType, ReadType, WriteType, LogType, KillType
<1> QED BY <1>1, <1>2, <1>3, CastType DEF Next

\* Every table, process and request of PeerSync holds values of its kind, and a process
\* that is not at its end has a peer to deal with.
THEOREM PeerTypeCorrect == Spec => []TypeOK
<1>1. Init => TypeOK
  BY TypeInit
<1>2. TypeOK /\ [Next]_vars => TypeOK'
  BY TypeStep
<1> QED BY <1>1, <1>2, PTL DEF Spec

-----------------------------------------------------------------------------
(* The relay rate. A process works through a list without repetitions with a   *)
(* RELAY_METRICS that starts empty: when it tries a peer it has no outcome for  *)
(* it, and none for those after it.                                            *)

Tallied(j, mem) ==
    /\ IsInjective(j.todo)
    /\ j.kind = "none" => j.at = "idle" /\ \A p \in Peer : mem[p] = None
    /\ \A p \in Peer : mem[p] # None => mem[p].relayed + mem[p].dropped = 1
    /\ j.todo # <<>> => \A p \in ToSet(Tail(j.todo)) : mem[p] = None

Untried(j, mem) == j.at \in {"send", "record"} => mem[Head(j.todo)] = None

TriedOnce == \A c \in Client : Tallied(job[c], memory[c]) /\ Untried(job[c], memory[c])

\* Going on to the next peer finds it untried.
LEMMA AfterTallied ==
  ASSUME NEW j \in Job, j.todo # <<>>, j.kind # "none", NEW mem, Tallied(j, mem)
  PROVE  Tallied(After(j), mem) /\ Untried(After(j), mem)
<1>1. j.todo \in Seq(Peer)
  BY DEF Job
<1>2. /\ Tail(j.todo) \in Seq(Peer) /\ IsInjective(Tail(j.todo))
      /\ \A p \in ToSet(Tail(j.todo)) : mem[p] = None
  BY <1>1, ToSetTail DEF Tallied
<1>3. After(j).kind = j.kind /\ (After(j).at = "send" => After(j).todo # <<>>) /\ After(j).at # "record"
  BY AfterShape
<1>4. CASE After(j).todo = Tail(j.todo)
  <2>1. Tail(j.todo) # <<>> =>
           /\ mem[Head(Tail(j.todo))] = None
           /\ \A p \in ToSet(Tail(Tail(j.todo))) : mem[p] = None
    <3> SUFFICES ASSUME Tail(j.todo) # <<>>
                 PROVE  /\ mem[Head(Tail(j.todo))] = None
                        /\ \A p \in ToSet(Tail(Tail(j.todo))) : mem[p] = None
      OBVIOUS
    <3>1. ToSet(Tail(j.todo)) = {Head(Tail(j.todo))} \cup ToSet(Tail(Tail(j.todo)))
      BY <1>2, ToSetTail
    <3> QED BY <1>2, <3>1
  <2> QED BY <1>2, <1>3, <1>4, <2>1 DEF Tallied, Untried
<1>5. CASE After(j).at = "done" /\ After(j).todo = j.todo
  BY <1>3, <1>5 DEF Tallied, Untried
<1> QED BY <1>4, <1>5, AfterShape

\* A step that leaves the other processes alone has only its own to look after.
LEMMA OneTallied ==
  ASSUME TypeOK, TriedOnce, NEW c \in Client, NEW j, NEW mem,
         job' = [job EXCEPT ![c] = j], memory' = [memory EXCEPT ![c] = mem],
         Tallied(j, mem), Untried(j, mem)
  PROVE  TriedOnce'
<1> SUFFICES ASSUME NEW d \in Client
             PROVE  Tallied(job'[d], memory'[d]) /\ Untried(job'[d], memory'[d])
  BY DEF TriedOnce, Tallied, Untried
<1>1. CASE d = c
  <2>1. job'[d] = j /\ memory'[d] = mem
    BY <1>1 DEF TypeOK
  <2> QED BY <2>1
<1>2. CASE d # c
  <2>1. job'[d] = job[d] /\ memory'[d] = memory[d]
    BY <1>2 DEF TypeOK
  <2> QED BY <2>1 DEF TriedOnce
<1> QED BY <1>1, <1>2

\* The same when the outcomes stay as they are.
LEMMA SameTallies ==
  ASSUME TypeOK, TriedOnce, NEW c \in Client, NEW j, job' = [job EXCEPT ![c] = j],
         UNCHANGED memory, Tallied(j, memory[c]), Untried(j, memory[c])
  PROVE  TriedOnce'
<1>1. memory' = [memory EXCEPT ![c] = memory[c]]
  BY DEF TypeOK
<1> QED BY <1>1, OneTallied

\* A step within a peer changes neither the list nor the command.
LEMMA WithinTallied ==
  ASSUME NEW j, NEW k, NEW mem, Tallied(j, mem), j.at # "idle", k.kind = j.kind, k.todo = j.todo
  PROVE  Tallied(k, mem)
BY DEF Tallied

\* A command that starts has tried no peer yet.
LEMMA StartTried ==
  ASSUME TypeOK, TriedOnce, NEW c \in Client, NEW kind \in {"one", "all", "app"},
         NEW mode \in Mode, NEW todo \in Seq(Peer), IsInjective(todo),
         NEW at \in {"send", "log"}, Start(c, kind, mode, todo, at)
  PROVE  TriedOnce'
<1> DEFINE j == [NoJob EXCEPT !.kind = kind, !.mode = mode, !.todo = todo,
                              !.at = IF todo = <<>> THEN "done" ELSE at]
<1>1. /\ j.kind = kind /\ j.todo = todo
      /\ j.at = IF todo = <<>> THEN "done" ELSE at
  BY NoJobType DEF Job
<1> HIDE DEF j
<1>2. job' = [job EXCEPT ![c] = j] /\ UNCHANGED memory /\ job[c].kind = "none"
  BY DEF Start, j
<1>3. \A p \in Peer : memory[c][p] = None
  BY <1>2 DEF TriedOnce, Tallied
<1>4. todo # <<>> => Head(todo) \in Peer /\ ToSet(Tail(todo)) \subseteq Peer
  BY ToSetTail, ToSetElements
<1>5. Tallied(j, memory[c]) /\ Untried(j, memory[c])
  BY <1>1, <1>3, <1>4 DEF Tallied, Untried
<1> QED BY <1>2, <1>5, SameTallies

\* A peer that is sent to is tried once, and is off the list.
LEMMA SendTried ==
  ASSUME TypeOK, TriedOnce, NEW c \in Client, Send(c)
  PROVE  TriedOnce'
<1> DEFINE Answered(ok) == [job[c] EXCEPT !.ok = ok]
<1>1. job[c].at = "send"
  BY DEF Send, At
<1>2. job[c] \in Job /\ job[c].todo # <<>> /\ job[c].kind # "none"
  BY <1>1, ClientType DEF Busy, TriedOnce, Tallied
<1>3. ASSUME NEW ok \in BOOLEAN
      PROVE  /\ Answered(ok) \in Job /\ Answered(ok).todo # <<>> /\ Answered(ok).kind # "none"
             /\ Tallied(Answered(ok), memory[c])
  <2>1. /\ Answered(ok) \in Job /\ Answered(ok).todo = job[c].todo
        /\ Answered(ok).kind = job[c].kind
    BY <1>2 DEF Job
  <2> HIDE DEF Answered
  <2> QED BY <1>1, <1>2, <2>1, WithinTallied DEF TriedOnce
<1>4. PICK good \in BOOLEAN, status \in BOOLEAN :
        job' = [job EXCEPT ![c] =
               CASE @.mode = "pull" -> After([@ EXCEPT !.ok = good])
                 [] @.mode = "push" /\ ~status -> After([@ EXCEPT !.ok = FALSE])
                 [] OTHER -> [@ EXCEPT !.ok = good, !.at = "record"]]
  BY Zenon DEF Send
<1>5. PICK j : job' = [job EXCEPT ![c] = j] /\ Tallied(j, memory[c]) /\ Untried(j, memory[c])
  <2>1. CASE job[c].mode = "pull"
    <3>1. job' = [job EXCEPT ![c] = After(Answered(good))]
      BY <1>4, <2>1
    <3> QED BY <1>3, <3>1, AfterTallied
  <2>2. CASE job[c].mode = "push" /\ ~status
    <3>1. job' = [job EXCEPT ![c] = After(Answered(FALSE))]
      BY <1>4, <2>2
    <3> QED BY <1>3, <3>1, AfterTallied
  <2>3. CASE job[c].mode # "pull" /\ ~(job[c].mode = "push" /\ ~status)
    <3> DEFINE j == [job[c] EXCEPT !.ok = good, !.at = "record"]
    <3>1. job' = [job EXCEPT ![c] = j]
      BY <1>4, <2>3
    <3>2. j.todo = job[c].todo /\ j.kind = job[c].kind
      BY <1>2 DEF Job
    <3> HIDE DEF j
    <3>3. Tallied(j, memory[c]) /\ Untried(j, memory[c])
      BY <1>1, <3>2, WithinTallied DEF TriedOnce, Untried
    <3> QED BY <3>1, <3>3
  <2> QED BY <2>1, <2>2, <2>3
<1>6. UNCHANGED memory
  BY DEF Send
<1> QED BY <1>5, <1>6, SameTallies

\* A result is counted for the attempt it belongs to.
LEMMA RecordTried ==
  ASSUME TypeOK, TriedOnce, NEW c \in Client, RecordRelayResult(c)
  PROVE  TriedOnce'
<1> DEFINE t   == Target(c)
           mem == [memory[c] EXCEPT ![t] = Counted(memory[c][t], job[c].ok)]
<1>1. job[c].at = "record"
  BY DEF RecordRelayResult, At
<1>2. job[c] \in Job /\ job[c].todo \in Seq(Peer) /\ job[c].todo # <<>> /\ t \in Peer /\ job[c].kind # "none"
  BY <1>1, ClientType DEF Busy, TriedOnce, Tallied
<1>3. memory' = [memory EXCEPT ![c] = mem]
  BY <1>2 DEF RecordRelayResult, TypeOK
<1>4. memory[c] \in [Peer -> Tally]
  BY DEF TypeOK
<1>5. memory[c][t] = None
  BY <1>1 DEF TriedOnce, Untried, Target
<1>6. Counted(memory[c][t], job[c].ok).relayed + Counted(memory[c][t], job[c].ok).dropped = 1
  BY <1>5 DEF Counted, None
<1>7. mem[t] = Counted(memory[c][t], job[c].ok) /\ \A p \in Peer \ {t} : mem[p] = memory[c][p]
  BY <1>2, <1>4
<1> HIDE DEF mem
<1>8. Tallied(job[c], mem)
  <2>1. \A p \in Peer : mem[p] # None => mem[p].relayed + mem[p].dropped = 1
    BY <1>6, <1>7 DEF TriedOnce, Tallied
  <2>2. t \notin ToSet(Tail(job[c].todo)) /\ ToSet(Tail(job[c].todo)) \subseteq Peer
    BY <1>2, ToSetTail, ToSetElements DEF TriedOnce, Tallied, Target
  <2>3. \A p \in ToSet(Tail(job[c].todo)) : mem[p] = None
    BY <1>2, <1>7, <2>2 DEF TriedOnce, Tallied
  <2> QED BY <1>2, <2>1, <2>3 DEF TriedOnce, Tallied
<1>9. PICK j : job' = [job EXCEPT ![c] = j] /\ Tallied(j, mem) /\ Untried(j, mem)
  <2>1. CASE job[c].mode = "push"
    <3>1. job' = [job EXCEPT ![c] = After(job[c])]
      BY <2>1 DEF RecordRelayResult
    <3> QED BY <1>2, <1>8, <3>1, AfterTallied
  <2>2. CASE job[c].mode # "push"
    <3> DEFINE j == [job[c] EXCEPT !.at = IF job[c].ok THEN "flush" ELSE "read"]
    <3>1. job' = [job EXCEPT ![c] = j]
      BY <2>2 DEF RecordRelayResult
    <3>2. j.todo = job[c].todo /\ j.kind = job[c].kind /\ j.at \notin {"send", "record"}
      BY <1>2 DEF Job
    <3> HIDE DEF j
    <3> QED BY <1>1, <1>8, <3>1, <3>2, WithinTallied DEF Untried
  <2> QED BY <2>1, <2>2
<1> QED BY <1>3, <1>9, OneTallied

\* Steps that only move a process on, within a peer or to the next.
LEMMA MovedTried ==
  ASSUME TypeOK, TriedOnce, NEW c \in Client, UNCHANGED memory, Busy(c),
         job[c].at # "send", job[c].at # "record",
         NEW k, job' = [job EXCEPT ![c] = k],
         \/ k = After(job[c])
         \/ k.kind = job[c].kind /\ k.todo = job[c].todo /\ k.at \notin {"send", "record"}
  PROVE  TriedOnce'
<1>1. /\ job[c] \in Job /\ job[c].todo # <<>> /\ job[c].kind # "none"
      /\ Tallied(job[c], memory[c]) /\ job[c].at # "idle"
  BY ClientType DEF Busy, TriedOnce, Tallied
<1>2. CASE k = After(job[c])
  BY <1>1, <1>2, AfterTallied, SameTallies
<1>3. CASE k.kind = job[c].kind /\ k.todo = job[c].todo /\ k.at \notin {"send", "record"}
  <2>1. Tallied(k, memory[c]) /\ Untried(k, memory[c])
    BY <1>1, <1>3, WithinTallied DEF Untried
  <2> QED BY <2>1, SameTallies
<1> QED BY <1>2, <1>3

\* Every step keeps the attempts and the metrics in agreement.
LEMMA TriedStep ==
  ASSUME TypeOK, TriedOnce, [Next]_vars
  PROVE  TriedOnce'
<1>1. CASE UNCHANGED client
  BY <1>1 DEF client, TriedOnce, Tallied, Untried
<1>2. ASSUME NEW c \in Client, NEW p \in Peer, NEW mode \in Mode, SyncOne(c, p, mode) PROVE TriedOnce'
  <2>1. <<p>> \in Seq(Peer) /\ IsInjective(<<p>>)
    BY DEF IsInjective
  <2> QED BY <1>2, <2>1, StartTried DEF SyncOne
<1>3. ASSUME NEW c \in Client, NEW mode \in Mode, SyncAll(c, mode) PROVE TriedOnce'
  BY <1>3, TargetsOnce, StartTried DEF SyncAll
<1>4. ASSUME NEW c \in Client, DryRun(c) PROVE TriedOnce'
  BY <1>4, PeerAssump, StartTried DEF DryRun, Mode
<1>5. ASSUME NEW c \in Client, NEW pullOnly \in BOOLEAN, AppSync(c, pullOnly) PROVE TriedOnce'
  BY <1>5, PeerAssump, StartTried DEF AppSync, Mode
<1>6. ASSUME NEW c \in Client, FlushRelayMetrics(c) PROVE TriedOnce'
  <2> DEFINE k == [job[c] EXCEPT !.at = "read"]
  <2>1. Busy(c) /\ job[c].at = "flush" /\ job' = [job EXCEPT ![c] = k] /\ UNCHANGED memory
    BY <1>6 DEF FlushRelayMetrics, At, Busy
  <2>2. k.kind = job[c].kind /\ k.todo = job[c].todo /\ k.at = "read"
    BY DEF TypeOK, Job
  <2> HIDE DEF k
  <2> QED BY <2>1, <2>2, MovedTried
<1>7. ASSUME NEW c \in Client, ReadHistory(c) PROVE TriedOnce'
  <2> DEFINE i == RowOf(Target(c))
             k == [job[c] EXCEPT !.at = "write", !.id = i,
                                 !.seen = IF i = 0 THEN NoRow ELSE history[i]]
  <2>1. Busy(c) /\ job[c].at = "read" /\ job' = [job EXCEPT ![c] = k] /\ UNCHANGED memory
    BY <1>7 DEF ReadHistory, At, Busy
  <2>2. k.kind = job[c].kind /\ k.todo = job[c].todo /\ k.at = "write"
    BY DEF TypeOK, Job
  <2> HIDE DEF k
  <2> QED BY <2>1, <2>2, MovedTried
<1>8. ASSUME NEW c \in Client, WriteHistory(c) PROVE TriedOnce'
  <2>1. Busy(c) /\ job[c].at = "write" /\ UNCHANGED memory
    BY <1>8 DEF WriteHistory, At, Busy
  <2>2. CASE job[c].kind = "all"
    <3> DEFINE k == [job[c] EXCEPT !.at = "log"]
    <3>1. job' = [job EXCEPT ![c] = k]
      BY <1>8, <2>2 DEF WriteHistory
    <3>2. k.kind = job[c].kind /\ k.todo = job[c].todo /\ k.at = "log"
      BY DEF TypeOK, Job
    <3> HIDE DEF k
    <3> QED BY <2>1, <3>1, <3>2, MovedTried
  <2>3. CASE job[c].kind # "all"
    <3>1. job' = [job EXCEPT ![c] = After(job[c])]
      BY <1>8, <2>3 DEF WriteHistory
    <3> QED BY <2>1, <3>1, MovedTried
  <2> QED BY <2>2, <2>3
<1>9. ASSUME NEW c \in Client, LogSyncEvent(c) PROVE TriedOnce'
  <2>1. /\ Busy(c) /\ job[c].at = "log" /\ job' = [job EXCEPT ![c] = After(job[c])]
        /\ UNCHANGED memory
    BY <1>9 DEF LogSyncEvent, At, Busy
  <2> QED BY <2>1, MovedTried
<1>10. ASSUME NEW c \in Client, Kill(c) PROVE TriedOnce'
  <2> DEFINE j   == [NoJob EXCEPT !.kind = "gone", !.at = "done"]
             mem == [p \in Peer |-> None]
  <2>1. job' = [job EXCEPT ![c] = j] /\ memory' = [memory EXCEPT ![c] = mem]
    BY <1>10 DEF Kill
  <2>2. j.kind = "gone" /\ j.at = "done" /\ j.todo = <<>> /\ \A p \in Peer : mem[p] = None
    BY DEF NoJob
  <2> HIDE DEF j, mem
  <2>3. Tallied(j, mem) /\ Untried(j, mem)
    BY <2>2, ToSetEmpty DEF Tallied, Untried
  <2> QED BY <2>1, <2>3, OneTallied
<1>11. ASSUME NEW r \in Request, RatingsSync(r) \/ RankPeer(r) \/ SortPeers(r) \/ PostRatings(r)
       PROVE  UNCHANGED client
  BY <1>11 DEF RatingsSync, RankPeer, SortPeers, PostRatings
<1>12. CASE Recount
  BY <1>1, <1>12 DEF Recount
<1>13. CASE UNCHANGED vars
  BY <1>1, <1>13 DEF vars
<1> QED BY <1>1, <1>2, <1>3, <1>4, <1>5, <1>6, <1>7, <1>8, <1>9, <1>10, <1>11, <1>12, <1>13,
           SendTried, RecordTried DEF Next

\* The relay rate that reaches node_metrics is the outcome of one attempt, whatever
\* number of processes there are and however they interleave.
THEOREM RatesAreOneAttempt == Spec => []RateIsOneAttempt
<1>1. Init => TypeOK /\ TriedOnce /\ RateIsOneAttempt
  <2>1. NoJob.todo = <<>> /\ NoJob.at = "idle"
    BY DEF NoJob
  <2>2. Init => TriedOnce
    BY <2>1, ToSetEmpty DEF Init, TriedOnce, Tallied, Untried
  <2>3. Init => RateIsOneAttempt
    BY DEF Init, RateIsOneAttempt
  <2> QED BY <2>2, <2>3, TypeInit
<1>2. TypeOK /\ TriedOnce /\ RateIsOneAttempt /\ [Next]_vars
        => TypeOK' /\ TriedOnce' /\ RateIsOneAttempt'
  <2> SUFFICES ASSUME TypeOK, TriedOnce, RateIsOneAttempt, [Next]_vars
               PROVE  RateIsOneAttempt'
    BY TypeStep, TriedStep
  <2>1. CASE UNCHANGED rate
    BY <2>1 DEF RateIsOneAttempt
  <2>2. ASSUME NEW c \in Client, FlushRelayMetrics(c) PROVE RateIsOneAttempt'
    <3>1. \A p \in Peer : rate'[p] = IF memory[c][p] = None THEN rate[p] ELSE memory[c][p]
      BY <2>2 DEF FlushRelayMetrics
    <3>2. \A p \in Peer : memory[c][p] # None => memory[c][p].relayed + memory[c][p].dropped = 1
      BY DEF TriedOnce, Tallied
    <3> QED BY <3>1, <3>2 DEF RateIsOneAttempt
  <2>3. \/ UNCHANGED rate
        \/ \E c \in Client : FlushRelayMetrics(c)
    BY DEF Next, vars, tables, SyncOne, SyncAll, DryRun, AppSync, Start, Send, RecordRelayResult,
           ReadHistory, WriteHistory, LogSyncEvent, Kill, Recount, RatingsSync, RankPeer, SortPeers,
           PostRatings
  <2> QED BY <2>1, <2>2, <2>3
<1> QED BY <1>1, <1>2, PTL DEF Spec

-----------------------------------------------------------------------------
(* Broadcasts. What a request has reached and what it has ahead of it are the   *)
(* peers of peers.json, each once.                                             *)

\* The peers a request still has to rank, or has ranked.
InHand(b) == ToSet(b.todo) \cup ToSet(b.order) \cup ToSet(b.late)

Ranking(b) ==
    /\ IsInjective(b.todo) /\ IsInjective(b.order) /\ IsInjective(b.late)
    /\ ToSet(b.todo) \cap ToSet(b.order) = {}
    /\ ToSet(b.todo) \cap ToSet(b.late) = {}
    /\ ToSet(b.order) \cap ToSet(b.late) = {}
    /\ InHand(b) = ToSet(PeerList)

Posting(b, reached) ==
    /\ IsInjective(b.todo)
    /\ reached \cap ToSet(b.todo) = {}
    /\ reached \cup ToSet(b.todo) = ToSet(PeerList)
    /\ b.todo = <<>> => reached = {}

Failed(b, reached) ==
    /\ b.todo # <<>>
    /\ ToSet(PeerList) \ ToSet(b.todo) \subseteq reached
    /\ reached \cap ToSet(Tail(b.todo)) = {}

Progress(b, reached) ==
    /\ b.answer \in {"none", "rank"} => reached = {}
    /\ b.answer = "rank" => Ranking(b)
    /\ b.answer = "post" => Posting(b, reached)
    /\ b.answer = "error" => Failed(b, reached)
    /\ b.answer = "ok" => reached = ToSet(PeerList)

InProgress == \A r \in Request : Progress(cast[r], Reached(r))

\* What a peer has got was asked for, and is what it was asked for.
Snapshots ==
    /\ \A r \in Request : cast[r].payload = cast[r].asked
    /\ \A p \in Peer : \A i \in DOMAIN got[p] :
          /\ cast[got[p][i].by].answer # "none"
          /\ got[p][i].version = cast[got[p][i].by].asked

\* What a peer has got came from a request.
LEMMA GotFromRequests ==
  ASSUME TypeOK
  PROVE  \A p \in Peer : \A i \in DOMAIN got[p] : got[p][i].by \in Request
<1> DEFINE M == [by : Request, version : Nat]
<1> SUFFICES ASSUME NEW p \in Peer, NEW i \in DOMAIN got[p] PROVE got[p][i] \in M
  OBVIOUS
<1>1. got \in [Peer -> Seq(M)]
  BY DEF TypeOK
<1> HIDE DEF M
<1>2. got[p] \in Seq(M)
  BY <1>1
<1> QED BY <1>2

\* Posting sends the peer at the head of the list what the request holds.
LEMMA PostEffect ==
  ASSUME TypeOK, NEW r \in Request, PostRatings(r)
  PROVE  /\ cast[r] \in Broadcast /\ cast[r].answer = "post" /\ cast[r].todo # <<>>
         /\ Head(cast[r].todo) \in Peer /\ Tail(cast[r].todo) \in Seq(Peer)
         /\ \E handled, good \in BOOLEAN :
              /\ good => handled
              /\ cast' = [cast EXCEPT ![r] = Posted(cast[r], good)]
              /\ \A s \in Request : Reached(s)' = IF s = r /\ handled
                                                  THEN Reached(s) \cup {Head(cast[r].todo)}
                                                  ELSE Reached(s)
              /\ \A p \in Peer : \A i \in DOMAIN got'[p] :
                    \/ i \in DOMAIN got[p] /\ got'[p][i] = got[p][i]
                    \/ got'[p][i] = [by |-> r, version |-> cast[r].payload]
<1>1. cast[r] \in Broadcast /\ cast[r].answer = "post" /\ cast[r].todo # <<>>
  BY DEF PostRatings, TypeOK
<1>2. Head(cast[r].todo) \in Peer /\ Tail(cast[r].todo) \in Seq(Peer)
  BY <1>1, ToSetTail DEF Broadcast
<1> DEFINE m == [by |-> r, version |-> cast[r].payload]
           M == [by : Request, version : Nat]
           h == Head(cast[r].todo)
<1>3. PICK handled, good \in BOOLEAN :
        /\ good => handled
        /\ got' = IF handled THEN [got EXCEPT ![h] = Append(@, m)] ELSE got
        /\ cast' = [cast EXCEPT ![r] = Posted(cast[r], good)]
  BY DEF PostRatings, Payload
<1>4. got \in [Peer -> Seq(M)] /\ m \in M /\ m.by = r
  BY <1>1 DEF TypeOK, Broadcast
<1> HIDE DEF m, M, h
<1>5. CASE ~handled
  BY <1>1, <1>2, <1>3, <1>5 DEF Reached
<1>6. CASE handled
  <2>1. h \in Peer /\ got[h] \in Seq(M)
    BY <1>2, <1>4 DEF h
  <2>2. /\ DOMAIN Append(got[h], m) = 1..(Len(got[h]) + 1) /\ DOMAIN got[h] = 1..Len(got[h])
        /\ Len(got[h]) \in Nat
        /\ \A i \in 1..Len(got[h]) : Append(got[h], m)[i] = got[h][i]
        /\ Append(got[h], m)[Len(got[h]) + 1] = m
    BY <1>4, <2>1
  <2>3. got'[h] = Append(got[h], m) /\ \A p \in Peer \ {h} : got'[p] = got[p]
    BY <1>3, <1>4, <1>6, <2>1
  <2>4. \A i \in DOMAIN got'[h] :
           \/ (i \in DOMAIN got[h] /\ got'[h][i] = got[h][i])
           \/ got'[h][i] = m
    BY <2>2, <2>3
  <2>5. \A i \in DOMAIN got[h] : i \in DOMAIN got'[h] /\ got'[h][i] = got[h][i]
    BY <2>2, <2>3
  <2>6. \E i \in DOMAIN got'[h] : got'[h][i] = m
    <3>1. Len(got[h]) + 1 \in DOMAIN got'[h]
      BY <2>2, <2>3
    <3> QED BY <2>2, <2>3, <3>1
  <2>7. ASSUME NEW s \in Request
        PROVE  Reached(s)' = IF s = r THEN Reached(s) \cup {h} ELSE Reached(s)
    <3>1. h \in Reached(s)' <=> (s = r \/ h \in Reached(s))
      BY <1>4, <2>1, <2>4, <2>5, <2>6 DEF Reached
    <3>2. \A p \in Peer \ {h} : p \in Reached(s)' <=> p \in Reached(s)
      BY <2>3 DEF Reached
    <3>3. Reached(s) \subseteq Peer /\ Reached(s)' \subseteq Peer
      BY DEF Reached
    <3>4. CASE s = r
      <4>1. \A p : p \in Reached(s)' <=> p \in Reached(s) \cup {h}
        BY <2>1, <3>1, <3>2, <3>3, <3>4
      <4> HIDE DEF h
      <4> QED BY <3>4, <4>1
    <3>5. CASE s # r
      <4>1. \A p : p \in Reached(s)' <=> p \in Reached(s)
        BY <2>1, <3>1, <3>2, <3>3, <3>5
      <4> QED BY <3>5, <4>1
    <3> QED BY <3>4, <3>5
  <2>8. \A p \in Peer : \A i \in DOMAIN got'[p] :
            (i \in DOMAIN got[p] /\ got'[p][i] = got[p][i]) \/ got'[p][i] = m
    BY <2>3, <2>4
  <2> QED BY <1>1, <1>2, <1>3, <1>6, <2>7, <2>8 DEF m, h
<1> QED BY <1>5, <1>6

\* A step that touches no request and no peer keeps what is said of them.
LEMMA CastIdle ==
  ASSUME InProgress, Snapshots, UNCHANGED <<cast, got>>
  PROVE  InProgress' /\ Snapshots'
BY DEF InProgress, Progress, Ranking, InHand, Posting, Failed, Reached, Snapshots

\* What holds of the other requests stays when one changes and they reach no one new.
LEMMA OneProgress ==
  ASSUME TypeOK, InProgress, NEW r \in Request, NEW b, cast' = [cast EXCEPT ![r] = b],
         \A s \in Request \ {r} : Reached(s)' = Reached(s),
         Progress(b, Reached(r)')
  PROVE  InProgress'
<1> SUFFICES ASSUME NEW s \in Request PROVE Progress(cast'[s], Reached(s)')
  BY DEF InProgress, Progress, Ranking, InHand, Posting, Failed
<1>1. CASE s = r
  <2>1. cast'[s] = b
    BY <1>1 DEF TypeOK
  <2> QED BY <1>1, <2>1
<1>2. CASE s # r
  <2>1. cast'[s] = cast[s] /\ Reached(s)' = Reached(s)
    BY <1>2 DEF TypeOK
  <2> QED BY <2>1 DEF InProgress
<1> QED BY <1>1, <1>2

\* A request reads the peers and the ratings.
LEMMA AskedStep ==
  ASSUME TypeOK, InProgress, Snapshots, NEW r \in Request, RatingsSync(r)
  PROVE  InProgress' /\ Snapshots'
<1> DEFINE b == [NoCast EXCEPT !.todo = PeerList, !.payload = version, !.asked = version,
                               !.answer = "rank"]
<1>1. /\ cast' = [cast EXCEPT ![r] = b] /\ got' = got /\ cast[r].answer = "none"
  BY DEF RatingsSync, NoCast
<1>2. /\ b.todo = PeerList /\ b.order = <<>> /\ b.late = <<>> /\ b.answer = "rank"
      /\ b.payload = b.asked
  BY DEF NoCast
<1> HIDE DEF b
<1>3. \A s \in Request : Reached(s)' = Reached(s)
  BY <1>1 DEF Reached
<1>4. Reached(r) = {}
  BY <1>1 DEF InProgress, Progress
<1>5. Progress(b, Reached(r)')
  BY <1>2, <1>3, <1>4, PeerAssump, ToSetEmpty DEF Progress, Ranking, InHand
<1>6. InProgress'
  BY <1>1, <1>3, <1>5, OneProgress
<1>7. Snapshots'
  <2>1. \A s \in Request : cast'[s] = IF s = r THEN b ELSE cast[s]
    BY <1>1 DEF TypeOK
  <2>2. \A p \in Peer : \A i \in DOMAIN got[p] : got[p][i].by \in Request /\ got[p][i].by # r
    BY <1>1, GotFromRequests DEF Snapshots
  <2> QED BY <1>1, <1>2, <2>1, <2>2 DEF Snapshots
<1> QED BY <1>6, <1>7

\* Only the ranking of a request changes.
LEMMA Reordered ==
  ASSUME TypeOK, Snapshots, NEW r \in Request, NEW b, cast' = [cast EXCEPT ![r] = b], got' = got,
         b.payload = cast[r].payload, b.asked = cast[r].asked, b.answer # "none"
  PROVE  Snapshots' /\ \A s \in Request : Reached(s)' = Reached(s)
<1>1. \A s \in Request : cast'[s] = IF s = r THEN b ELSE cast[s]
  BY DEF TypeOK
<1>2. \A p \in Peer : \A i \in DOMAIN got[p] : got[p][i].by \in Request
  BY GotFromRequests
<1>3. Snapshots'
  BY <1>1, <1>2 DEF Snapshots
<1> QED BY <1>3 DEF Reached

\* Reading the priority of a peer moves it from one list to the other.
LEMMA RankStep ==
  ASSUME TypeOK, InProgress, Snapshots, NEW r \in Request, RankPeer(r)
  PROVE  InProgress' /\ Snapshots'
<1>1. /\ cast[r] \in Broadcast /\ cast[r].todo \in Seq(Peer) /\ cast[r].todo # <<>>
      /\ cast[r].order \in Seq(Peer) /\ cast[r].late \in Seq(Peer) /\ cast[r].answer = "rank"
  BY DEF RankPeer, TypeOK, Broadcast
<1> DEFINE h == Head(cast[r].todo)
           b == [cast[r] EXCEPT !.todo = Tail(@),
                   !.order = IF prio THEN Append(@, h) ELSE @,
                   !.late  = IF prio THEN @ ELSE Append(@, h)]
<1>2. cast' = [cast EXCEPT ![r] = b] /\ got' = got
  BY DEF RankPeer
<1>3. /\ b.todo = Tail(cast[r].todo) /\ b.answer = "rank"
      /\ b.payload = cast[r].payload /\ b.asked = cast[r].asked
      /\ b.order = IF prio THEN Append(cast[r].order, h) ELSE cast[r].order
      /\ b.late = IF prio THEN cast[r].late ELSE Append(cast[r].late, h)
  BY <1>1 DEF Broadcast
<1> HIDE DEF b
<1>4. Snapshots' /\ \A s \in Request : Reached(s)' = Reached(s)
  BY <1>2, <1>3, Reordered
<1>5. Ranking(cast[r]) /\ Reached(r) = {}
  BY <1>1 DEF InProgress, Progress
<1>6. /\ h \in Peer /\ Tail(cast[r].todo) \in Seq(Peer)
      /\ ToSet(cast[r].todo) = {h} \cup ToSet(Tail(cast[r].todo))
      /\ h \notin ToSet(Tail(cast[r].todo)) /\ IsInjective(Tail(cast[r].todo))
  BY <1>1, <1>5, ToSetTail DEF Ranking
<1> HIDE DEF h
<1>7. h \notin ToSet(cast[r].order) /\ h \notin ToSet(cast[r].late)
  BY <1>5, <1>6 DEF Ranking
<1>8. /\ ToSet(Append(cast[r].order, h)) = ToSet(cast[r].order) \cup {h}
      /\ IsInjective(Append(cast[r].order, h))
      /\ ToSet(Append(cast[r].late, h)) = ToSet(cast[r].late) \cup {h}
      /\ IsInjective(Append(cast[r].late, h))
  BY <1>1, <1>5, <1>6, <1>7, ToSetAppend DEF Ranking
<1>9. Ranking(b)
  <2>1. CASE prio
    BY <1>3, <1>5, <1>6, <1>7, <1>8, <2>1 DEF Ranking, InHand
  <2>2. CASE ~prio
    BY <1>3, <1>5, <1>6, <1>7, <1>8, <2>2 DEF Ranking, InHand
  <2> QED BY <2>1, <2>2
<1>10. Progress(b, Reached(r)')
  BY <1>3, <1>4, <1>5, <1>9 DEF Progress
<1> QED BY <1>2, <1>4, <1>10, OneProgress

\* Sorting keeps the peers.
LEMMA SortStep ==
  ASSUME TypeOK, InProgress, Snapshots, NEW r \in Request, SortPeers(r)
  PROVE  InProgress' /\ Snapshots'
<1>1. /\ cast[r] \in Broadcast /\ cast[r].todo = <<>> /\ cast[r].answer = "rank"
      /\ cast[r].order \in Seq(Peer) /\ cast[r].late \in Seq(Peer)
  BY DEF SortPeers, TypeOK, Broadcast
<1> DEFINE all == cast[r].order \o cast[r].late
           b   == [cast[r] EXCEPT !.todo = all, !.order = <<>>, !.late = <<>>, !.answer = "post"]
<1>2. cast' = [cast EXCEPT ![r] = b] /\ got' = got
  BY DEF SortPeers
<1>3. /\ b.todo = all /\ b.answer = "post" /\ b.payload = cast[r].payload
      /\ b.asked = cast[r].asked
  BY <1>1 DEF Broadcast
<1>4. Ranking(cast[r]) /\ Reached(r) = {} /\ ToSet(cast[r].todo) = {}
  BY <1>1, ToSetEmpty DEF InProgress, Progress
<1>5. ToSet(all) = ToSet(cast[r].order) \cup ToSet(cast[r].late) /\ IsInjective(all)
  BY <1>1, <1>4, ToSetConcat DEF Ranking
<1> HIDE DEF b, all
<1>6. Snapshots' /\ \A s \in Request : Reached(s)' = Reached(s)
  BY <1>2, <1>3, Reordered
<1>7. Progress(b, Reached(r)')
  BY <1>3, <1>4, <1>5, <1>6 DEF Progress, Ranking, InHand, Posting
<1> QED BY <1>2, <1>6, <1>7, OneProgress

\* A peer is posted the ratings that were read.
LEMMA PostStep ==
  ASSUME TypeOK, InProgress, Snapshots, NEW r \in Request, PostRatings(r)
  PROVE  InProgress' /\ Snapshots'
<1> DEFINE h == Head(cast[r].todo)
<1>1. /\ cast[r] \in Broadcast /\ cast[r].todo \in Seq(Peer) /\ cast[r].todo # <<>>
      /\ cast[r].answer = "post" /\ Tail(cast[r].todo) \in Seq(Peer)
  BY PostEffect DEF Broadcast
<1>2. PICK handled, good \in BOOLEAN :
        /\ good => handled
        /\ cast' = [cast EXCEPT ![r] = Posted(cast[r], good)]
        /\ \A s \in Request : Reached(s)' = IF s = r /\ handled THEN Reached(s) \cup {h}
                                            ELSE Reached(s)
        /\ \A p \in Peer : \A i \in DOMAIN got'[p] :
              \/ i \in DOMAIN got[p] /\ got'[p][i] = got[p][i]
              \/ got'[p][i] = [by |-> r, version |-> cast[r].payload]
  BY PostEffect
<1>3. Posting(cast[r], Reached(r))
  BY <1>1 DEF InProgress, Progress
<1>4. /\ ToSet(cast[r].todo) = {h} \cup ToSet(Tail(cast[r].todo))
      /\ h \notin ToSet(Tail(cast[r].todo)) /\ IsInjective(Tail(cast[r].todo))
  BY <1>1, <1>3, ToSetTail DEF Posting
<1> HIDE DEF h
<1> DEFINE b == Posted(cast[r], good)
<1>5. /\ b.payload = cast[r].payload /\ b.asked = cast[r].asked
      /\ ~good => b.todo = cast[r].todo /\ b.answer = "error"
      /\ good => /\ b.todo = Tail(cast[r].todo)
                 /\ b.answer = IF Len(cast[r].todo) = 1 THEN "ok" ELSE "post"
  BY <1>1 DEF Posted, Broadcast
<1> HIDE DEF b
<1>6. Progress(b, Reached(r)')
  <2>1. CASE ~good
    BY <1>1, <1>2, <1>3, <1>4, <1>5, <2>1 DEF Progress, Posting, Failed
  <2>2. CASE good /\ Len(cast[r].todo) # 1
    <3>1. Reached(r)' = Reached(r) \cup {h} /\ Tail(cast[r].todo) # <<>>
      BY <1>1, <1>2, <2>2, TailOfOne
    <3> QED BY <1>3, <1>4, <1>5, <2>2, <3>1 DEF Progress, Posting
  <2>3. CASE good /\ Len(cast[r].todo) = 1
    <3>1. Reached(r)' = Reached(r) \cup {h} /\ ToSet(Tail(cast[r].todo)) = {}
      BY <1>1, <1>2, <2>3, TailOfOne
    <3> QED BY <1>3, <1>4, <1>5, <2>3, <3>1 DEF Progress, Posting
  <2> QED BY <2>1, <2>2, <2>3
<1>7. InProgress'
  <2>1. cast' = [cast EXCEPT ![r] = b]
    BY <1>2 DEF b
  <2> QED BY <1>2, <1>6, <2>1, OneProgress
<1>8. Snapshots'
  <2>1. \A s \in Request : /\ cast'[s].payload = cast[s].payload
                           /\ cast'[s].asked = cast[s].asked
                           /\ cast[s].answer # "none" => cast'[s].answer # "none"
                           /\ s = r => cast'[s].answer # "none"
    <3>1. \A s \in Request : cast'[s] = IF s = r THEN b ELSE cast[s]
      BY <1>2 DEF TypeOK, b
    <3> QED BY <1>5, <3>1
  <2>2. \A p \in Peer : \A i \in DOMAIN got[p] : got[p][i].by \in Request
    BY GotFromRequests
  <2>3. ASSUME NEW p \in Peer, NEW i \in DOMAIN got'[p]
        PROVE  /\ cast'[got'[p][i].by].answer # "none"
               /\ got'[p][i].version = cast'[got'[p][i].by].asked
    <3>1. CASE i \in DOMAIN got[p] /\ got'[p][i] = got[p][i]
      BY <2>1, <2>2, <3>1 DEF Snapshots
    <3>2. CASE got'[p][i] = [by |-> r, version |-> cast[r].payload]
      <4>1. got'[p][i].by = r /\ got'[p][i].version = cast[r].payload
        BY <3>2
      <4> QED BY <2>1, <4>1 DEF Snapshots
    <3> QED BY <1>2, <3>1, <3>2
  <2> QED BY <2>1, <2>3 DEF Snapshots
<1> QED BY <1>7, <1>8

\* Every step keeps the broadcasts to one snapshot and to their answers.
LEMMA BroadcastStep ==
  ASSUME TypeOK, InProgress, Snapshots, [Next]_vars
  PROVE  InProgress' /\ Snapshots'
<1>1. \/ UNCHANGED <<cast, got>>
      \/ \E r \in Request : RatingsSync(r) \/ RankPeer(r) \/ SortPeers(r) \/ PostRatings(r)
  BY DEF Next, vars, caster, SyncOne, SyncAll, DryRun, AppSync, Start, Send, RecordRelayResult,
         FlushRelayMetrics, ReadHistory, WriteHistory, LogSyncEvent, Kill, Recount
<1> QED BY <1>1, CastIdle, AskedStep, RankStep, SortStep, PostStep

\* No broadcast is under way at the start.
LEMMA BroadcastInit == Init => InProgress /\ Snapshots
<1> SUFFICES ASSUME Init PROVE InProgress /\ Snapshots
  OBVIOUS
<1>1. \A r \in Request : cast[r].answer = "none" /\ cast[r].payload = cast[r].asked
  BY DEF Init, NoCast
<1>2. \A p \in Peer : got[p] = <<>> /\ DOMAIN got[p] = {}
  BY DEF Init
<1>3. \A r \in Request : Reached(r) = {}
  BY <1>2 DEF Reached
<1> QED BY <1>1, <1>2, <1>3 DEF InProgress, Progress, Snapshots

\* Every peer of a broadcast gets the ratings of the moment it was asked for.
THEOREM BroadcastIsOneSnapshot == Spec => []OneSnapshot
<1>1. Init => TypeOK /\ InProgress /\ Snapshots
  BY TypeInit, BroadcastInit
<1>2. TypeOK /\ InProgress /\ Snapshots /\ [Next]_vars => TypeOK' /\ InProgress' /\ Snapshots'
  BY TypeStep, BroadcastStep
<1>3. Snapshots => OneSnapshot
  BY DEF Snapshots, OneSnapshot
<1> QED BY <1>1, <1>2, <1>3, PTL DEF Spec

\* The answer of POST /ratings/sync tells which peers have the ratings.
THEOREM AnswersTell == Spec => []AnswerTells
<1>1. Init => TypeOK /\ InProgress /\ Snapshots
  BY TypeInit, BroadcastInit
<1>2. TypeOK /\ InProgress /\ Snapshots /\ [Next]_vars => TypeOK' /\ InProgress' /\ Snapshots'
  BY TypeStep, BroadcastStep
<1>3. TypeOK /\ InProgress => AnswerTells
  <2> SUFFICES ASSUME TypeOK, InProgress, NEW r \in Request, cast[r].answer = "post"
               PROVE  /\ ToSet(PeerList) \ ToSet(cast[r].todo) \subseteq Reached(r)
                      /\ Reached(r) \cap ToSet(Tail(cast[r].todo)) = {}
    BY DEF AnswerTells, InProgress, Progress, Failed
  <2>1. Posting(cast[r], Reached(r))
    BY DEF InProgress, Progress
  <2>2. CASE cast[r].todo # <<>>
    <3>1. ToSet(cast[r].todo) = {Head(cast[r].todo)} \cup ToSet(Tail(cast[r].todo))
      BY <2>2, ToSetTail DEF TypeOK, Broadcast
    <3> QED BY <2>1, <3>1 DEF Posting
  <2>3. CASE cast[r].todo = <<>>
    BY <2>1, <2>3, ToSetEmpty DEF Posting
  <2> QED BY <2>2, <2>3
<1> QED BY <1>1, <1>2, <1>3, PTL DEF Spec

-----------------------------------------------------------------------------
(* The records of peers sync-all. A process has recorded the peers it is done   *)
(* with, in their order, and has the others on its list.                       *)

\* The targets are the entries of peers.json but the node's own, in its order.
LEMMA TargetsInOrder ==
  /\ ToSet(Targets) = ToSet(PeerList) \ {Self}
  /\ \A i, k \in DOMAIN Targets : i < k => Earlier(Targets[i], Targets[k])
<1>1. /\ PeerList \in Seq(Peer) /\ Len(PeerList) \in Nat /\ DOMAIN PeerList = 1..Len(PeerList)
      /\ IsInjective(PeerList)
  BY PeerAssump
<1>2. CASE Targets = PeerList /\ ~ \E i \in 1..Len(PeerList) : PeerList[i] = Self
  <2>1. Self \notin ToSet(PeerList)
    BY <1>1, <1>2 DEF ToSet
  <2>2. \A i, k \in DOMAIN PeerList : i < k => Earlier(PeerList[i], PeerList[k])
    BY DEF Earlier
  <2> QED BY <1>2, <2>1, <2>2
<1>3. ASSUME NEW a \in 1..Len(PeerList), PeerList[a] = Self,
             DOMAIN Targets = 1..(Len(PeerList) - 1),
             \A i \in 1..(a - 1) : Targets[i] = PeerList[i],
             \A i \in a..(Len(PeerList) - 1) : Targets[i] = PeerList[i + 1]
      PROVE  /\ ToSet(Targets) = ToSet(PeerList) \ {Self}
             /\ \A i, k \in DOMAIN Targets : i < k => Earlier(Targets[i], Targets[k])
  <2> DEFINE old(i) == IF i < a THEN i ELSE i + 1
  <2>1. ASSUME NEW i \in DOMAIN Targets
        PROVE  old(i) \in DOMAIN PeerList /\ old(i) # a /\ Targets[i] = PeerList[old(i)]
    <3>1. \/ i \in 1..(a - 1) /\ i < a
          \/ i \in a..(Len(PeerList) - 1) /\ ~(i < a)
      BY <1>1, <1>3
    <3> QED BY <1>1, <1>3, <3>1
  <2>2. ASSUME NEW x \in DOMAIN PeerList, x # a
        PROVE  \E i \in DOMAIN Targets : Targets[i] = PeerList[x]
    <3>1. CASE x < a
      <4>1. x \in 1..(a - 1) /\ x \in DOMAIN Targets
        BY <1>1, <1>3, <3>1
      <4> QED BY <1>3, <4>1
    <3>2. CASE x > a
      <4>1. x - 1 \in a..(Len(PeerList) - 1) /\ x - 1 \in DOMAIN Targets /\ (x - 1) + 1 = x
        BY <1>1, <1>3, <3>2
      <4>2. Targets[x - 1] = PeerList[(x - 1) + 1]
        BY <1>3, <4>1
      <4> QED BY <4>1, <4>2
    <3> QED BY <1>1, <2>2, <3>1, <3>2
  <2>3. \A x \in DOMAIN PeerList : PeerList[x] = Self <=> x = a
    BY <1>1, <1>3 DEF IsInjective
  <2>4. ToSet(Targets) = ToSet(PeerList) \ {Self}
    <3>1. ASSUME NEW p \in ToSet(Targets) PROVE p \in ToSet(PeerList) \ {Self}
      <4>1. PICK i \in DOMAIN Targets : Targets[i] = p
        BY DEF ToSet
      <4> HIDE DEF old
      <4> QED BY <2>1, <2>3, <4>1 DEF ToSet
    <3>2. ASSUME NEW p \in ToSet(PeerList) \ {Self} PROVE p \in ToSet(Targets)
      <4>1. PICK x \in DOMAIN PeerList : PeerList[x] = p
        BY DEF ToSet
      <4>2. x # a
        BY <2>3, <4>1
      <4> QED BY <2>2, <4>1, <4>2 DEF ToSet
    <3> QED BY <3>1, <3>2
  <2>5. ASSUME NEW i \in DOMAIN Targets, NEW k \in DOMAIN Targets, i < k
        PROVE  Earlier(Targets[i], Targets[k])
    <3>1. old(i) < old(k)
      BY <1>1, <1>3, <2>5
    <3> HIDE DEF old
    <3> QED BY <2>1, <3>1 DEF Earlier
  <2> QED BY <2>4, <2>5
<1> QED BY <1>1, <1>2, <1>3, RemoveFirstGap DEF Targets

\* What process c with job j has recorded; log: the table sync_logs.
Mine(c, log) == {i \in DOMAIN log : log[i].by = c}

\* The first m peers of the list have been dealt with.
Halfway(c, j, log, m) ==
    /\ j.todo = SubSeq(Targets, m + 1, Len(Targets))
    /\ {log[i].peer : i \in Mine(c, log)} = {Targets[x] : x \in 1..m}
    /\ \A i, k \in Mine(c, log) : i < k => Earlier(log[i].peer, log[k].peer)

\* A process that has not started has recorded nothing; one of sync-all is half way
\* through its list, and ends at the end of it.
AllInOrder(c, j, log) ==
    /\ j.kind = "none" => j.at = "idle" /\ Mine(c, log) = {}
    /\ j.at = "log" \/ j.mode = "dry-run" => j.kind = "all"
    /\ j.kind = "all" => j.mode \in {"full", "incremental", "dry-run"}
    /\ j.kind = "all" /\ j.mode # "dry-run" =>
         /\ j.at = "done" => j.todo = <<>>
         /\ \E m \in 0..Len(Targets) : Halfway(c, j, log, m)

SyncAllInv == \A c \in Client : AllInOrder(c, job[c], synclogs)

\* A step of process c that records nothing.
LEMMA OneInOrder ==
  ASSUME TypeOK, SyncAllInv, NEW c \in Client, NEW j, job' = [job EXCEPT ![c] = j],
         UNCHANGED synclogs, AllInOrder(c, j, synclogs)
  PROVE  SyncAllInv'
<1>1. \A d \in Client : AllInOrder(d, job'[d], synclogs)
  BY DEF TypeOK, SyncAllInv
<1>2. \A d \in Client : AllInOrder(d, job'[d], synclogs')
  BY <1>1
<1> QED BY ONLY <1>2, Zenon DEF SyncAllInv

\* A step within a peer.
LEMMA WithinInOrder ==
  ASSUME NEW c, NEW j, NEW k, NEW log, AllInOrder(c, j, log), j.at \notin {"idle", "done"},
         k.kind = j.kind, k.mode = j.mode, k.todo = j.todo, k.at \notin {"idle", "done"},
         k.at = "log" => k.kind = "all"
  PROVE  AllInOrder(c, k, log)
BY DEF AllInOrder, Halfway

\* A process of another command goes on to its next peer.
LEMMA AfterInOrder ==
  ASSUME NEW c, NEW j \in Job, j.todo # <<>>, NEW log, j.kind \notin {"none", "all"}, j.mode # "dry-run"
  PROVE  AllInOrder(c, After(j), log)
<1>1. After(j).kind = j.kind
  BY AfterShape
<1>2. After(j).at # "log"
  <2>1. [j EXCEPT !.at = "done"].at = "done"
    BY DEF Job
  <2>2. NextPeer(j).at # "log"
    BY DEF NextPeer, Job
  <2> QED BY <2>1, <2>2 DEF After
<1>3. After(j).mode = j.mode
  BY DEF After, NextPeer, Job
<1> QED BY <1>1, <1>2, <1>3 DEF AllInOrder

\* A command starts, and has recorded nothing.
LEMMA StartInOrder ==
  ASSUME TypeOK, SyncAllInv, NEW c \in Client, NEW kind \in {"one", "all", "app"},
         NEW mode \in Mode, NEW todo \in Seq(Peer), NEW at \in {"send", "log"},
         Start(c, kind, mode, todo, at),
         at = "log" \/ mode = "dry-run" => kind = "all",
         kind = "all" => /\ mode \in {"full", "incremental", "dry-run"}
                         /\ mode # "dry-run" => todo = Targets
  PROVE  SyncAllInv'
<1> DEFINE j == [NoJob EXCEPT !.kind = kind, !.mode = mode, !.todo = todo,
                              !.at = IF todo = <<>> THEN "done" ELSE at]
<1>1. /\ j.kind = kind /\ j.todo = todo /\ j.mode = mode
      /\ j.at = IF todo = <<>> THEN "done" ELSE at
  BY NoJobType DEF Job
<1> HIDE DEF j
<1>2. job' = [job EXCEPT ![c] = j] /\ UNCHANGED synclogs /\ job[c].kind = "none"
  BY DEF Start, j, tables
<1>3. Mine(c, synclogs) = {}
  BY <1>2 DEF SyncAllInv, AllInOrder
<1>4. kind = "all" /\ mode # "dry-run" => Halfway(c, j, synclogs, 0)
  <2>1. SubSeq(Targets, 0 + 1, Len(Targets)) = Targets
    BY TargetsOnce
  <2> QED BY <1>1, <1>3, <2>1 DEF Halfway
<1>5. 0 \in 0..Len(Targets)
  BY TargetsOnce
<1>6. AllInOrder(c, j, synclogs)
  BY <1>1, <1>4, <1>5 DEF AllInOrder
<1> QED BY <1>2, <1>6, OneInOrder

\* A request to a peer ends another command, or goes on with the peer.
LEMMA SendInOrder ==
  ASSUME TypeOK, SyncAllInv, NEW c \in Client, Send(c)
  PROVE  SyncAllInv'
<1> DEFINE Answered(ok) == [job[c] EXCEPT !.ok = ok]
<1>1. job[c].at = "send" /\ UNCHANGED synclogs
  BY DEF Send, At, tables
<1>2. job[c] \in Job /\ job[c].todo # <<>> /\ AllInOrder(c, job[c], synclogs)
  BY <1>1, ClientType DEF Busy, SyncAllInv
<1>3. ASSUME NEW ok \in BOOLEAN
      PROVE  /\ Answered(ok) \in Job /\ Answered(ok).todo # <<>>
             /\ Answered(ok).kind = job[c].kind /\ Answered(ok).mode = job[c].mode
  BY <1>2 DEF Job
<1>4. PICK good \in BOOLEAN, status \in BOOLEAN :
        job' = [job EXCEPT ![c] =
               CASE @.mode = "pull" -> After([@ EXCEPT !.ok = good])
                 [] @.mode = "push" /\ ~status -> After([@ EXCEPT !.ok = FALSE])
                 [] OTHER -> [@ EXCEPT !.ok = good, !.at = "record"]]
  BY Zenon DEF Send
<1>5. job[c].mode \in {"pull", "push"} => job[c].kind \notin {"none", "all"}
  BY <1>1, <1>2 DEF AllInOrder
<1>6. PICK j : job' = [job EXCEPT ![c] = j] /\ AllInOrder(c, j, synclogs)
  <2>1. CASE job[c].mode = "pull"
    <3>1. job' = [job EXCEPT ![c] = After(Answered(good))]
      BY <1>4, <2>1
    <3> HIDE DEF Answered
    <3>2. AllInOrder(c, After(Answered(good)), synclogs)
      BY <1>3, <1>5, <2>1, AfterInOrder
    <3> QED BY <3>1, <3>2
  <2>2. CASE job[c].mode = "push" /\ ~status
    <3>1. job' = [job EXCEPT ![c] = After(Answered(FALSE))]
      BY <1>4, <2>2
    <3> HIDE DEF Answered
    <3>2. AllInOrder(c, After(Answered(FALSE)), synclogs)
      BY <1>3, <1>5, <2>2, AfterInOrder
    <3> QED BY <3>1, <3>2
  <2>3. CASE job[c].mode # "pull" /\ ~(job[c].mode = "push" /\ ~status)
    <3> DEFINE j == [job[c] EXCEPT !.ok = good, !.at = "record"]
    <3>1. job' = [job EXCEPT ![c] = j]
      BY <1>4, <2>3
    <3>2. j.todo = job[c].todo /\ j.kind = job[c].kind /\ j.mode = job[c].mode /\ j.at = "record"
      BY <1>2 DEF Job
    <3> HIDE DEF j
    <3>3. AllInOrder(c, j, synclogs)
      BY <1>1, <1>2, <3>2, WithinInOrder
    <3> QED BY <3>1, <3>3
  <2> QED BY <2>1, <2>2, <2>3
<1> QED BY <1>1, <1>6, OneInOrder

\* The steps between the request and the record.
LEMMA MovedInOrder ==
  ASSUME TypeOK, SyncAllInv, NEW c \in Client,
         \/ RecordRelayResult(c) \/ FlushRelayMetrics(c) \/ ReadHistory(c) \/ WriteHistory(c)
  PROVE  SyncAllInv'
<1>1. job[c].at \in {"record", "flush", "read", "write"} /\ UNCHANGED synclogs
  BY DEF RecordRelayResult, FlushRelayMetrics, ReadHistory, WriteHistory, At, tables
<1>2. job[c] \in Job /\ job[c].todo # <<>> /\ AllInOrder(c, job[c], synclogs) /\ job[c].kind # "none"
  BY <1>1, ClientType DEF Busy, SyncAllInv, AllInOrder
<1>3. ASSUME NEW k, job' = [job EXCEPT ![c] = k],
             k.kind = job[c].kind, k.mode = job[c].mode, k.todo = job[c].todo,
             k.at \notin {"idle", "done"}, k.at = "log" => k.kind = "all"
      PROVE  SyncAllInv'
  BY <1>1, <1>2, <1>3, WithinInOrder, OneInOrder
<1>4. ASSUME job' = [job EXCEPT ![c] = After(job[c])], job[c].kind # "all", job[c].mode # "dry-run"
      PROVE  SyncAllInv'
  BY <1>1, <1>2, <1>4, AfterInOrder, OneInOrder
<1>5. CASE RecordRelayResult(c)
  <2>1. CASE job[c].mode = "push"
    <3>1. job' = [job EXCEPT ![c] = After(job[c])]
      BY <1>5, <2>1 DEF RecordRelayResult
    <3> QED BY <1>2, <1>4, <2>1, <3>1 DEF AllInOrder
  <2>2. CASE job[c].mode # "push"
    <3> DEFINE k == [job[c] EXCEPT !.at = IF job[c].ok THEN "flush" ELSE "read"]
    <3>1. job' = [job EXCEPT ![c] = k]
      BY <1>5, <2>2 DEF RecordRelayResult
    <3>2. /\ k.kind = job[c].kind /\ k.mode = job[c].mode /\ k.todo = job[c].todo
          /\ k.at \in {"flush", "read"}
      BY <1>2 DEF Job
    <3> HIDE DEF k
    <3> QED BY <1>3, <3>1, <3>2
  <2> QED BY <2>1, <2>2
<1>6. CASE FlushRelayMetrics(c)
  <2> DEFINE k == [job[c] EXCEPT !.at = "read"]
  <2>1. job' = [job EXCEPT ![c] = k]
    BY <1>6 DEF FlushRelayMetrics
  <2>2. k.kind = job[c].kind /\ k.mode = job[c].mode /\ k.todo = job[c].todo /\ k.at = "read"
    BY <1>2 DEF Job
  <2> HIDE DEF k
  <2> QED BY <1>3, <2>1, <2>2
<1>7. CASE ReadHistory(c)
  <2> DEFINE i == RowOf(Target(c))
             k == [job[c] EXCEPT !.at = "write", !.id = i,
                                 !.seen = IF i = 0 THEN NoRow ELSE history[i]]
  <2>1. job' = [job EXCEPT ![c] = k]
    BY <1>7 DEF ReadHistory
  <2>2. k.kind = job[c].kind /\ k.mode = job[c].mode /\ k.todo = job[c].todo /\ k.at = "write"
    BY <1>2 DEF Job
  <2> HIDE DEF k
  <2> QED BY <1>3, <2>1, <2>2
<1>8. CASE WriteHistory(c)
  <2>1. CASE job[c].kind = "all"
    <3> DEFINE k == [job[c] EXCEPT !.at = "log"]
    <3>1. job' = [job EXCEPT ![c] = k]
      BY <1>8, <2>1 DEF WriteHistory
    <3>2. k.kind = job[c].kind /\ k.mode = job[c].mode /\ k.todo = job[c].todo /\ k.at = "log"
      BY <1>2 DEF Job
    <3> HIDE DEF k
    <3> QED BY <1>3, <2>1, <3>1, <3>2
  <2>2. CASE job[c].kind # "all"
    <3>1. job' = [job EXCEPT ![c] = After(job[c])]
      BY <1>8, <2>2 DEF WriteHistory
    <3>2. job[c].mode # "dry-run"
      BY <1>2, <2>2 DEF AllInOrder
    <3> QED BY <1>4, <2>2, <3>1, <3>2
  <2> QED BY <2>1, <2>2
<1> QED BY <1>5, <1>6, <1>7, <1>8

\* A record of sync-all is of the peer ahead, and the process goes on to the next.
LEMMA LogInOrder ==
  ASSUME TypeOK, SyncAllInv, NEW c \in Client, LogSyncEvent(c)
  PROVE  SyncAllInv'
<1> DEFINE j == job[c]
           n == Len(synclogs)
<1>1. /\ j.at = "log" /\ job' = [job EXCEPT ![c] = After(j)]
      /\ \E row : row.by = c /\ row.peer = Target(c) /\ synclogs' = Append(synclogs, row)
  BY DEF LogSyncEvent, At
<1>2. /\ j \in Job /\ j.todo # <<>> /\ j.todo \in Seq(Peer)
      /\ AllInOrder(c, j, synclogs) /\ j.kind = "all"
  BY <1>1, ClientType DEF Busy, SyncAllInv, AllInOrder
<1>3. synclogs \in Seq(LogRow) /\ n \in Nat
  BY DEF TypeOK
<1>4. /\ DOMAIN synclogs = 1..n /\ DOMAIN synclogs' = 1..(n + 1)
      /\ \A i \in 1..n : synclogs'[i] = synclogs[i]
      /\ synclogs'[n + 1].by = c /\ synclogs'[n + 1].peer = Head(j.todo)
  BY <1>1, <1>3 DEF Target
<1>5. Mine(c, synclogs') = Mine(c, synclogs) \cup {n + 1}
  BY <1>3, <1>4 DEF Mine
<1>6. ASSUME NEW d \in Client, d # c
      PROVE  Mine(d, synclogs') = Mine(d, synclogs)
  BY <1>3, <1>4, <1>6 DEF Mine
<1>7. ASSUME NEW d \in Client, d # c
      PROVE  AllInOrder(d, job'[d], synclogs')
  <2>1. job'[d] = job[d]
    BY <1>1, <1>7 DEF TypeOK
  <2>2. \A i \in Mine(d, synclogs) : synclogs'[i] = synclogs[i]
    BY <1>4 DEF Mine
  <2>3. {synclogs'[i].peer : i \in Mine(d, synclogs')} = {synclogs[i].peer : i \in Mine(d, synclogs)}
    BY <1>6, <1>7, <2>2
  <2>4. \A m : Halfway(d, job[d], synclogs, m) => Halfway(d, job[d], synclogs', m)
    BY <1>6, <1>7, <2>2, <2>3 DEF Halfway
  <2>5. AllInOrder(d, job[d], synclogs)
    BY DEF SyncAllInv
  <2> QED BY <1>6, <1>7, <2>1, <2>4, <2>5 DEF AllInOrder
<1>8. /\ After(j) = NextPeer(j) /\ NextPeer(j).kind = "all" /\ NextPeer(j).mode = j.mode
      /\ NextPeer(j).todo = Tail(j.todo)
      /\ NextPeer(j).at = "done" => Tail(j.todo) = <<>>
  <2> HIDE DEF j
  <2>1. After(j) = NextPeer(j)
    BY <1>2 DEF After
  <2>2. /\ NextPeer(j).mode = j.mode
        /\ NextPeer(j).at = "done" => Tail(j.todo) = <<>>
    BY <1>2 DEF NextPeer, Job
  <2> QED BY <1>2, <2>1, <2>2, NextPeerShape
<1>9. AllInOrder(c, After(j), synclogs')
  <2> HIDE DEF j, n
  <2>1. CASE j.mode = "dry-run"
    BY <1>2, <1>8, <2>1 DEF AllInOrder
  <2>2. CASE j.mode # "dry-run"
    <3>1. PICK m \in 0..Len(Targets) : Halfway(c, j, synclogs, m)
      BY <1>2, <2>2 DEF AllInOrder
    <3>2. Targets \in Seq(Peer) /\ Len(Targets) \in Nat /\ DOMAIN Targets = 1..Len(Targets)
      BY TargetsOnce
    <3>3. j.todo = SubSeq(Targets, m + 1, Len(Targets))
      BY <3>1 DEF Halfway
    <3>4. m < Len(Targets)
      BY <1>2, <3>2, <3>3
    <3>5. m + 1 \in 0..Len(Targets) /\ m + 1 \in DOMAIN Targets
      BY <3>2, <3>4
    <3>6. Head(j.todo) = Targets[m + 1] /\ Tail(j.todo) = SubSeq(Targets, (m + 1) + 1, Len(Targets))
      BY <3>2, <3>3, <3>4
    <3>7. \A i \in Mine(c, synclogs) : i \in 1..n /\ synclogs'[i] = synclogs[i]
      BY <1>4 DEF Mine
    <3>8. {synclogs'[i].peer : i \in Mine(c, synclogs')} = {Targets[x] : x \in 1..(m + 1)}
      <4>1. {synclogs'[i].peer : i \in Mine(c, synclogs')}
              = {synclogs[i].peer : i \in Mine(c, synclogs)} \cup {Targets[m + 1]}
        BY <1>4, <1>5, <3>6, <3>7
      <4>2. 1..(m + 1) = 1..m \cup {m + 1}
        BY <3>2
      <4>3. {Targets[x] : x \in 1..(m + 1)} = {Targets[x] : x \in 1..m} \cup {Targets[m + 1]}
        BY <4>2
      <4>4. {synclogs[i].peer : i \in Mine(c, synclogs)} = {Targets[x] : x \in 1..m}
        BY <3>1 DEF Halfway
      <4> QED BY <4>1, <4>3, <4>4
    <3>9. ASSUME NEW i \in Mine(c, synclogs'), NEW k \in Mine(c, synclogs'), i < k
          PROVE  Earlier(synclogs'[i].peer, synclogs'[k].peer)
      <4>1. CASE i \in Mine(c, synclogs) /\ k \in Mine(c, synclogs)
        BY <3>1, <3>7, <3>9, <4>1 DEF Halfway
      <4>2. CASE i \in Mine(c, synclogs) /\ k = n + 1
        <5>1. synclogs'[i].peer \in {Targets[x] : x \in 1..m}
          BY <3>1, <3>7, <4>2 DEF Halfway
        <5>2. PICK x \in 1..m : synclogs'[i].peer = Targets[x]
          BY <5>1
        <5>3. x \in DOMAIN Targets /\ x < m + 1
          BY <3>2, <3>4
        <5>4. synclogs'[k].peer = Targets[m + 1]
          BY <1>4, <3>6, <4>2
        <5> QED BY <3>5, <5>2, <5>3, <5>4, TargetsInOrder
      <4>3. CASE i = n + 1
        <5>1. k \in 1..(n + 1)
          BY <1>3, <1>4, <1>5, <3>7
        <5> QED BY <1>3, <3>9, <4>3, <5>1
      <4> QED BY <1>5, <4>1, <4>2, <4>3
    <3>10. Halfway(c, After(j), synclogs', m + 1)
      BY <1>8, <3>6, <3>8, <3>9 DEF Halfway
    <3> DEFINE k == After(j)
    <3>11. /\ k.kind = "all" /\ k.mode = j.mode /\ j.mode \in {"full", "incremental", "dry-run"}
           /\ k.at = "done" => k.todo = <<>>
           /\ Halfway(c, k, synclogs', m + 1)
      BY <1>2, <1>8, <3>10 DEF AllInOrder
    <3> HIDE DEF k
    <3>12. AllInOrder(c, k, synclogs')
      BY ONLY <3>5, <3>11 DEF AllInOrder
    <3> QED BY <3>12 DEF k
  <2> QED BY <2>1, <2>2
<1>10. \A d \in Client : AllInOrder(d, job'[d], synclogs')
  <2>1. job'[c] = After(j)
    BY <1>1 DEF TypeOK
  <2> QED BY <1>7, <1>9, <2>1
<1> QED BY ONLY <1>10, Zenon DEF SyncAllInv

\* Every step keeps the records in order.
LEMMA InOrderStep ==
  ASSUME TypeOK, SyncAllInv, [Next]_vars
  PROVE  SyncAllInv'
<1>1. ASSUME UNCHANGED <<job, synclogs>> PROVE SyncAllInv'
  <2>1. \A c \in Client : AllInOrder(c, job'[c], synclogs')
    <3>1. job' = job /\ synclogs' = synclogs
      BY <1>1
    <3> QED BY <3>1 DEF SyncAllInv
  <2> QED BY ONLY <2>1, Zenon DEF SyncAllInv
<1>2. ASSUME NEW c \in Client, NEW p \in Peer, NEW mode \in Mode, SyncOne(c, p, mode) PROVE SyncAllInv'
  <2>1. Start(c, "one", mode, <<p>>, "send") /\ mode # "dry-run" /\ <<p>> \in Seq(Peer)
    BY <1>2 DEF SyncOne
  <2>2. /\ "one" \in {"one", "all", "app"} /\ "send" \in {"send", "log"}
        /\ "send" = "log" \/ mode = "dry-run" => "one" = "all"
        /\ "one" = "all" => /\ mode \in {"full", "incremental", "dry-run"}
                            /\ mode # "dry-run" => <<p>> = Targets
    BY <2>1
  <2> QED BY <2>1, <2>2, StartInOrder
<1>3. ASSUME NEW c \in Client, NEW mode \in Mode, SyncAll(c, mode) PROVE SyncAllInv'
  BY <1>3, TargetsOnce, StartInOrder DEF SyncAll
<1>4. ASSUME NEW c \in Client, DryRun(c) PROVE SyncAllInv'
  BY <1>4, PeerAssump, StartInOrder DEF DryRun, Mode
<1>5. ASSUME NEW c \in Client, NEW pullOnly \in BOOLEAN, AppSync(c, pullOnly) PROVE SyncAllInv'
  BY <1>5, PeerAssump, StartInOrder DEF AppSync, Mode
<1>6. ASSUME NEW c \in Client, Kill(c) PROVE SyncAllInv'
  <2> DEFINE j == [NoJob EXCEPT !.kind = "gone", !.at = "done"]
  <2>1. job' = [job EXCEPT ![c] = j] /\ UNCHANGED synclogs
    BY <1>6 DEF Kill, tables
  <2>2. j.kind = "gone" /\ j.at = "done" /\ j.mode = "full"
    BY DEF NoJob
  <2> HIDE DEF j
  <2>3. AllInOrder(c, j, synclogs)
    BY <2>2 DEF AllInOrder
  <2> QED BY <2>1, <2>3, OneInOrder
<1>7. ASSUME NEW r \in Request, RatingsSync(r) \/ RankPeer(r) \/ SortPeers(r) \/ PostRatings(r)
      PROVE  UNCHANGED <<job, synclogs>>
  BY <1>7 DEF RatingsSync, RankPeer, SortPeers, PostRatings, tables, client
<1>8. CASE Recount
  BY <1>1, <1>8 DEF Recount, tables, client
<1>9. CASE UNCHANGED vars
  BY <1>1, <1>9 DEF vars, tables, client
<1> QED BY <1>1, <1>2, <1>3, <1>4, <1>5, <1>6, <1>7, <1>8, <1>9,
           SendInOrder, MovedInOrder, LogInOrder DEF Next

\* Whatever peers fail on the way and whatever else runs, peers sync-all has tried and
\* recorded every entry but the node's own when it ends, in the order of peers.json.
THEOREM SyncAllReaches == Spec => []SyncAllReachesEveryone
<1>1. Init => SyncAllInv
  <2> SUFFICES ASSUME Init PROVE SyncAllInv
    OBVIOUS
  <2>1. NoJob.kind = "none" /\ NoJob.at = "idle" /\ NoJob.mode = "full"
    BY DEF NoJob
  <2>2. \A c \in Client : job[c] = NoJob /\ Mine(c, synclogs) = {}
    BY DEF Init, Mine
  <2> QED BY <2>1, <2>2 DEF SyncAllInv, AllInOrder
<1>2. TypeOK /\ SyncAllInv /\ [Next]_vars => SyncAllInv'
  BY InOrderStep
<1>3. SyncAllInv => SyncAllReachesEveryone
  <2> SUFFICES ASSUME SyncAllInv, NEW c \in Client,
                      job[c].kind = "all", job[c].mode # "dry-run", job[c].at = "done"
               PROVE  /\ {synclogs[i].peer : i \in RecordsOf(c)} = ToSet(PeerList) \ {Self}
                      /\ \A i, k \in RecordsOf(c) :
                           i < k => Earlier(synclogs[i].peer, synclogs[k].peer)
    BY DEF SyncAllReachesEveryone, At
  <2>1. RecordsOf(c) = Mine(c, synclogs)
    BY DEF RecordsOf, Mine
  <2>2. PICK m \in 0..Len(Targets) : Halfway(c, job[c], synclogs, m)
    BY DEF SyncAllInv, AllInOrder
  <2>3. job[c].todo = <<>> /\ job[c].todo = SubSeq(Targets, m + 1, Len(Targets))
    BY <2>2 DEF SyncAllInv, AllInOrder, Halfway
  <2>4. m = Len(Targets) /\ DOMAIN Targets = 1..Len(Targets)
    <3>1. Targets \in Seq(Peer) /\ Len(Targets) \in Nat
      BY TargetsOnce
    <3>2. SubSeq(Targets, m + 1, Len(Targets)) = <<>>
      BY <2>3
    <3>3. PICK n \in Nat : n = Len(Targets)
      BY <3>1
    <3>4. ASSUME m < n PROVE FALSE
      <4>1. Len(SubSeq(Targets, m + 1, n)) = n - m
        BY <3>1, <3>3, <3>4
      <4>2. Len(SubSeq(Targets, m + 1, n)) = 0
        BY <3>2, <3>3
      <4> QED BY <3>3, <3>4, <4>1, <4>2
    <3> QED BY <3>1, <3>3, <3>4
  <2>5. {Targets[x] : x \in 1..m} = ToSet(Targets)
    BY <2>4 DEF ToSet
  <2> QED BY <2>1, <2>2, <2>5, TargetsInOrder DEF Halfway
<1> QED BY <1>1, <1>2, <1>3, PeerTypeCorrect, PTL DEF Spec

-----------------------------------------------------------------------------
(* The history. The rows of a peer and the outcomes on their way to them are    *)
(* no more than the attempts; without a race or a kill they are all of them.    *)

\* The counter of a row for outcomes x, and their sum over the rows of p in table h.
Count(row, x)  == IF x THEN row.succ ELSE row.fail
RowsOf(h, p)   == {i \in DOMAIN h : h[i].peer = p}
Total(h, p, x) == SumFunctionOnSet([i \in DOMAIN h |-> Count(h[i], x)], RowsOf(h, p))

\* The attempts with outcome x.
Tries(e, x) == IF x THEN e.ok ELSE e.failed

\* A process with job j has an outcome x for p that is not in the history; jobs: of all.
Dealing(j, p, x) ==
    /\ j.at \in {"record", "flush", "read", "write"}
    /\ j.mode \in {"full", "incremental"}
    /\ Head(j.todo) = p /\ (j.ok <=> x)
Waiting(jobs, p, x) == {c \in Client : Dealing(jobs[c], p, x)}

\* i is the first row of p.
FirstRow(h, p, i) == i \in RowsOf(h, p) /\ \A k \in RowsOf(h, p) : i <= k

\* A process that has not started does nothing; push and pull never come to the history,
\* a dry run to none of the steps of a peer.
ModeFits(j) ==
    /\ j.kind = "none" => j.at = "idle"
    /\ j.at \in {"send", "record"} => j.mode # "dry-run"
    /\ j.at = "record" => j.mode # "pull"
    /\ j.at \in {"flush", "read", "write"} => j.mode \in {"full", "incremental"}

\* With the row that a process is about to write, the counters are no more than the attempts.
WriteFits(j, h, jobs, e) ==
    j.at = "write" /\ j.seen # NoRow =>
      /\ FirstRow(h, Head(j.todo), j.id) /\ j.seen.peer = Head(j.todo)
      /\ \A x \in BOOLEAN :
           Total(h, Head(j.todo), x) - Count(h[j.id], x) + Count(j.seen, x)
             + Cardinality(Waiting(jobs, Head(j.todo), x)) <= Tries(e[Head(j.todo)], x)

\* What a process has read is still there.
Fresh(j, h) ==
    j.at = "write" => IF j.seen = NoRow THEN RowsOf(h, Head(j.todo)) = {} ELSE j.seen = h[j.id]

\* The counters of p.
Counts(p, h, jobs, e) ==
    \A x \in BOOLEAN :
      /\ IsFiniteSet(Waiting(jobs, p, x))
      /\ Total(h, p, x) + Cardinality(Waiting(jobs, p, x)) <= Tries(e[p], x)

\* The counters of p are complete.
Complete(p, h, jobs, e) ==
    \A x \in BOOLEAN : Total(h, p, x) + Cardinality(Waiting(jobs, p, x)) = Tries(e[p], x)

OneRow(p, h) == \A i, k \in RowsOf(h, p) : i = k

CountsInv ==
    /\ \A c \in Client : ModeFits(job[c]) /\ WriteFits(job[c], history, job, ended)
    /\ \A c \in Client : job[c].at = "write" /\ Head(job[c].todo) \notin raced => Fresh(job[c], history)
    /\ \A p \in Peer : /\ Counts(p, history, job, ended)
                       /\ p \notin raced \cup cut => Complete(p, history, job, ended)
                       /\ p \notin raced => OneRow(p, history)

\* The properties count what the invariant counts.
LEMMA TotalsOfHistory ==
  ASSUME NEW p \in Peer
  PROVE  Successes(p) = Total(history, p, TRUE) /\ Failures(p) = Total(history, p, FALSE)
BY DEF Successes, Failures, Total, Seen, RowsOf, Count

\* The rows of a peer, and what they add up to.
LEMMA TotalFacts ==
  ASSUME NEW h \in Seq(Row), NEW p, NEW x \in BOOLEAN
  PROVE  /\ IsFiniteSet(RowsOf(h, p)) /\ RowsOf(h, p) \subseteq DOMAIN h
         /\ \A i \in DOMAIN h : Count(h[i], x) \in Nat
         /\ Total(h, p, x) \in Int
         /\ RowsOf(h, p) = {} => Total(h, p, x) = 0
<1> DEFINE col == [i \in DOMAIN h |-> Count(h[i], x)]
<1>1. Len(h) \in Nat /\ DOMAIN h = 1..Len(h)
  OBVIOUS
<1>2. IsFiniteSet(DOMAIN h) /\ RowsOf(h, p) \in SUBSET DOMAIN h
  BY <1>1, FS_Interval DEF RowsOf
<1>3. IsFiniteSet(RowsOf(h, p))
  BY <1>2, FS_Subset
<1>4. ASSUME NEW i \in DOMAIN h PROVE Count(h[i], x) \in Nat
  <2>1. h[i] \in Row
    BY <1>1
  <2> QED BY <2>1 DEF Count, Row
<1>5. \A i \in RowsOf(h, p) : col[i] \in Int
  BY <1>2, <1>4
<1>6. Total(h, p, x) = SumFunctionOnSet(col, RowsOf(h, p))
  BY DEF Total
<1> HIDE DEF col
<1>7. Total(h, p, x) \in Int /\ (RowsOf(h, p) = {} => Total(h, p, x) = 0)
  BY <1>3, <1>5, <1>6, SumFacts
<1> QED BY <1>2, <1>3, <1>4, <1>7

\* Tables that agree on the rows of p have the same totals of p.
LEMMA TotalAgrees ==
  ASSUME NEW h \in Seq(Row), NEW g \in Seq(Row), NEW p, NEW x \in BOOLEAN,
         RowsOf(g, p) = RowsOf(h, p), \A i \in RowsOf(h, p) : g[i] = h[i]
  PROVE  Total(g, p, x) = Total(h, p, x)
<1> DEFINE a == [i \in DOMAIN h |-> Count(h[i], x)]
           b == [i \in DOMAIN g |-> Count(g[i], x)]
<1>1. IsFiniteSet(RowsOf(h, p)) /\ RowsOf(h, p) \subseteq DOMAIN h /\ RowsOf(g, p) \subseteq DOMAIN g
      /\ \A i \in DOMAIN h : Count(h[i], x) \in Nat
  BY TotalFacts
<1>2. \A i \in RowsOf(h, p) : a[i] \in Int /\ b[i] = a[i]
  BY <1>1
<1>3. Total(h, p, x) = SumFunctionOnSet(a, RowsOf(h, p)) /\ Total(g, p, x) = SumFunctionOnSet(b, RowsOf(h, p))
  BY DEF Total
<1> HIDE DEF a, b
<1> QED BY <1>1, <1>2, <1>3, SumFacts

\* The totals of p without row k are those of the other rows.
LEMMA TotalWithout ==
  ASSUME NEW h \in Seq(Row), NEW g \in Seq(Row), NEW p, NEW x \in BOOLEAN, NEW k \in RowsOf(g, p),
         RowsOf(g, p) \ {k} = RowsOf(h, p) \ {k}, \A i \in RowsOf(g, p) \ {k} : g[i] = h[i]
  PROVE  /\ k \in RowsOf(h, p) => Total(g, p, x) = Count(g[k], x) + (Total(h, p, x) - Count(h[k], x))
         /\ k \notin RowsOf(h, p) => Total(g, p, x) = Count(g[k], x) + Total(h, p, x)
<1> DEFINE a == [i \in DOMAIN h |-> Count(h[i], x)]
           b == [i \in DOMAIN g |-> Count(g[i], x)]
           R == RowsOf(h, p) \ {k}
<1>1. /\ IsFiniteSet(RowsOf(h, p)) /\ RowsOf(h, p) \subseteq DOMAIN h
      /\ IsFiniteSet(RowsOf(g, p)) /\ RowsOf(g, p) \subseteq DOMAIN g
      /\ \A i \in DOMAIN h : Count(h[i], x) \in Nat
      /\ \A i \in DOMAIN g : Count(g[i], x) \in Nat
  BY TotalFacts
<1>2. /\ \A i \in RowsOf(h, p) : a[i] = Count(h[i], x) /\ a[i] \in Int
      /\ \A i \in RowsOf(g, p) : b[i] = Count(g[i], x) /\ b[i] \in Int
      /\ \A i \in R : b[i] = a[i]
  BY <1>1
<1>3. Total(h, p, x) = SumFunctionOnSet(a, RowsOf(h, p)) /\ Total(g, p, x) = SumFunctionOnSet(b, RowsOf(g, p))
  BY DEF Total
<1> HIDE DEF a, b
<1>4. IsFiniteSet(R) /\ R \subseteq RowsOf(h, p)
  BY <1>1, FS_RemoveElement
<1>5. SumFunctionOnSet(b, R) = SumFunctionOnSet(a, R) /\ SumFunctionOnSet(a, R) \in Int
  BY <1>2, <1>4, SumFacts
<1>6. SumFunctionOnSet(b, RowsOf(g, p)) = b[k] + SumFunctionOnSet(b, R)
  <2>1. IsFiniteSet(RowsOf(g, p)) /\ (\A i \in RowsOf(g, p) : b[i] \in Int) /\ k \in RowsOf(g, p)
    BY <1>1, <1>2
  <2>2. SumFunctionOnSet(b, RowsOf(g, p)) = b[k] + SumFunctionOnSet(b, RowsOf(g, p) \ {k})
    BY ONLY <2>1, SumTakes
  <2> QED BY <2>2
<1>7. CASE k \in RowsOf(h, p)
  <2>1. SumFunctionOnSet(a, RowsOf(h, p)) = a[k] + SumFunctionOnSet(a, R)
    BY <1>1, <1>2, <1>7, SumTakes
  <2> HIDE DEF R
  <2> QED BY <1>2, <1>3, <1>5, <1>6, <1>7, <2>1
<1>8. CASE k \notin RowsOf(h, p)
  <2>1. R = RowsOf(h, p)
    BY <1>8
  <2> HIDE DEF R
  <2> QED BY <1>2, <1>3, <1>5, <1>6, <1>8, <2>1
<1> QED BY <1>7, <1>8

\* Table g after the INSERT of a row into table h.
Inserted(g, h, row) == g = Append(h, row)

\* An INSERT adds the counters of the new row to those of its peer.
LEMMA InsertTotals ==
  ASSUME NEW h \in Seq(Row), NEW row \in Row, NEW g, Inserted(g, h, row),
         NEW q, NEW x \in BOOLEAN
  PROVE  /\ g \in Seq(Row)
         /\ \A i \in DOMAIN h : g[i] = h[i] /\ i < Len(h) + 1
         /\ row.peer = q => /\ RowsOf(g, q) = RowsOf(h, q) \cup {Len(h) + 1}
                            /\ Total(g, q, x) = Total(h, q, x) + Count(row, x)
         /\ row.peer # q => /\ RowsOf(g, q) = RowsOf(h, q)
                            /\ Total(g, q, x) = Total(h, q, x)
<1> DEFINE n == Len(h) + 1
<1>1. /\ Len(h) \in Nat /\ n \in Nat /\ DOMAIN h = 1..Len(h) /\ g \in Seq(Row) /\ DOMAIN g = 1..n
      /\ g[n] = row /\ \A i \in DOMAIN h : g[i] = h[i] /\ i < n
  BY DEF Inserted
<1>2. \A i : i \in DOMAIN g <=> i \in DOMAIN h \/ i = n
  BY <1>1
<1> HIDE DEF n
<1>3. /\ row.peer = q => RowsOf(g, q) = RowsOf(h, q) \cup {n}
      /\ row.peer # q => RowsOf(g, q) = RowsOf(h, q)
  BY <1>1, <1>2 DEF RowsOf
<1>4. /\ row.peer = q => Total(g, q, x) = Total(h, q, x) + Count(row, x)
      /\ row.peer # q => Total(g, q, x) = Total(h, q, x)
  <2>1. RowsOf(h, q) \subseteq DOMAIN h /\ Total(h, q, x) \in Int
    BY TotalFacts
  <2>2. Count(row, x) \in Nat
    BY DEF Count, Row
  <2>3. n \notin DOMAIN h
    BY <1>1
  <2>4. CASE row.peer = q
    <3>1. n \in RowsOf(g, q) /\ n \notin RowsOf(h, q) /\ RowsOf(g, q) \ {n} = RowsOf(h, q) \ {n}
          /\ \A i \in RowsOf(g, q) \ {n} : g[i] = h[i]
      BY <1>1, <1>3, <2>1, <2>3, <2>4
    <3>2. h \in Seq(Row) /\ g \in Seq(Row) /\ x \in BOOLEAN
      BY <1>1
    <3>3. Total(g, q, x) = Count(g[n], x) + Total(h, q, x)
      BY ONLY <3>1, <3>2, TotalWithout
    <3> QED BY <1>1, <2>1, <2>2, <2>4, <3>3
  <2>5. CASE row.peer # q
    <3>1. RowsOf(g, q) = RowsOf(h, q) /\ \A i \in RowsOf(h, q) : g[i] = h[i]
      BY <1>1, <1>3, <2>1, <2>5
    <3>2. Total(g, q, x) = Total(h, q, x)
      BY <1>1, <3>1, TotalAgrees
    <3> QED BY <2>1, <2>5, <3>2
  <2> QED BY <2>4, <2>5
<1> QED BY <1>1, <1>3, <1>4 DEF n

\* A step of process c changes what is on its way only by what c deals with.
LEMMA WaitingStep ==
  ASSUME NEW c \in Client, \A d \in Client : d # c => job'[d] = job[d], NEW p, NEW x,
         IsFiniteSet(Waiting(job, p, x))
  PROVE  /\ IsFiniteSet(Waiting(job', p, x))
         /\ Cardinality(Waiting(job, p, x)) \in Nat /\ Cardinality(Waiting(job', p, x)) \in Nat
         /\ (Dealing(job[c], p, x) <=> Dealing(job'[c], p, x)) =>
              Cardinality(Waiting(job', p, x)) = Cardinality(Waiting(job, p, x))
         /\ Dealing(job[c], p, x) /\ ~ Dealing(job'[c], p, x) =>
              Cardinality(Waiting(job', p, x)) = Cardinality(Waiting(job, p, x)) - 1
         /\ ~ Dealing(job[c], p, x) /\ Dealing(job'[c], p, x) =>
              Cardinality(Waiting(job', p, x)) = Cardinality(Waiting(job, p, x)) + 1
<1> DEFINE W == Waiting(job, p, x)
           V == Waiting(job', p, x)
<1>1. /\ \A d : d # c => (d \in V <=> d \in W)
      /\ (c \in W <=> Dealing(job[c], p, x)) /\ (c \in V <=> Dealing(job'[c], p, x))
  BY DEF Waiting
<1>2. IsFiniteSet(W)
  OBVIOUS
<1> HIDE DEF W, V
<1>3. CASE Dealing(job[c], p, x) <=> Dealing(job'[c], p, x)
  <2>1. V = W
    BY <1>1, <1>3
  <2> QED BY <1>2, <1>3, <2>1, FS_CardinalityType DEF W, V
<1>4. CASE Dealing(job[c], p, x) /\ ~ Dealing(job'[c], p, x)
  <2>1. V = W \ {c} /\ c \in W
    BY <1>1, <1>4
  <2>2. IsFiniteSet(V) /\ Cardinality(V) = Cardinality(W) - 1
    BY <1>2, <2>1, FS_RemoveElement
  <2> QED BY <1>2, <1>4, <2>2, FS_CardinalityType DEF W, V
<1>5. CASE ~ Dealing(job[c], p, x) /\ Dealing(job'[c], p, x)
  <2>1. V = W \cup {c} /\ c \notin W
    BY <1>1, <1>5
  <2>2. IsFiniteSet(V) /\ Cardinality(V) = Cardinality(W) + 1
    BY <1>2, <2>1, FS_AddElement
  <2> QED BY <1>2, <1>5, <2>2, FS_CardinalityType DEF W, V
<1> QED BY <1>3, <1>4, <1>5

\* The numbers of the invariant.
LEMMA CountTypes ==
  ASSUME TypeOK, CountsInv, NEW p \in Peer, NEW x \in BOOLEAN
  PROVE  /\ Total(history, p, x) \in Int /\ Tries(ended[p], x) \in Nat
         /\ IsFiniteSet(Waiting(job, p, x)) /\ Cardinality(Waiting(job, p, x)) \in Nat
<1>1. history \in Seq(Row) /\ ended[p] \in [ok : Nat, failed : Nat]
  BY DEF TypeOK
<1>2. Total(history, p, x) \in Int
  BY <1>1, TotalFacts
<1>3. Tries(ended[p], x) \in Nat
  BY <1>1 DEF Tries
<1>4. IsFiniteSet(Waiting(job, p, x))
  BY DEF CountsInv, Counts
<1> QED BY <1>2, <1>3, <1>4, FS_CardinalityType

\* A process that is about to write over a row: the row, its counters and those it writes.
LEMMA WriterTypes ==
  ASSUME TypeOK, CountsInv, NEW d \in Client, job[d].at = "write"
  PROVE  /\ job[d] \in Job /\ Head(job[d].todo) \in Peer
         /\ job[d].seen # NoRow =>
              /\ job[d].seen \in Row /\ job[d].id \in DOMAIN history
              /\ history[job[d].id] \in Row /\ history[job[d].id].peer = Head(job[d].todo)
              /\ \A x \in BOOLEAN : Count(job[d].seen, x) \in Nat /\ Count(history[job[d].id], x) \in Nat
<1>1. job[d] \in Job /\ Head(job[d].todo) \in Peer
  BY ClientType DEF Busy, Target
<1>2. CASE job[d].seen # NoRow
  <2>1. job[d].seen \in Row
    BY <1>1, <1>2 DEF Job
  <2>2. FirstRow(history, Head(job[d].todo), job[d].id)
    BY <1>2 DEF CountsInv, WriteFits
  <2>3. job[d].id \in DOMAIN history /\ history[job[d].id].peer = Head(job[d].todo)
    BY <2>2 DEF FirstRow, RowsOf
  <2>4. history[job[d].id] \in Row
    BY <2>3 DEF TypeOK
  <2>5. \A x \in BOOLEAN : Count(job[d].seen, x) \in Nat /\ Count(history[job[d].id], x) \in Nat
    BY <2>1, <2>4 DEF Count, Row
  <2> QED BY <1>1, <2>1, <2>3, <2>4, <2>5
<1> QED BY <1>1, <1>2

\* A step of process c that does not write: what is on its way grows by no more than the
\* attempts, and by as much for a peer that no kill has cut off.
LEMMA CountWithin ==
  ASSUME TypeOK, CountsInv, NEW c \in Client, NEW j, job' = [job EXCEPT ![c] = j],
         UNCHANGED <<history, raced>>, cut \subseteq cut', ModeFits(j),
         j.at = "write" => WriteFits(j, history, job', ended') /\ Fresh(j, history),
         \A p \in Peer, x \in BOOLEAN :
           /\ IsFiniteSet(Waiting(job', p, x)) /\ Cardinality(Waiting(job', p, x)) \in Nat
           /\ Tries(ended'[p], x) \in Nat
           /\ Cardinality(Waiting(job', p, x)) - Cardinality(Waiting(job, p, x))
                <= Tries(ended'[p], x) - Tries(ended[p], x)
           /\ p \notin cut' => Cardinality(Waiting(job', p, x)) - Cardinality(Waiting(job, p, x))
                                 = Tries(ended'[p], x) - Tries(ended[p], x)
  PROVE  CountsInv'
<1>1. job'[c] = j /\ \A d \in Client : d # c => job'[d] = job[d]
  BY DEF TypeOK
<1>2. \A d \in Client : ModeFits(job'[d])
  BY <1>1 DEF CountsInv
<1>3. ASSUME NEW d \in Client PROVE WriteFits(job'[d], history, job', ended')
  <2>1. CASE d = c
    BY <1>1, <2>1 DEF WriteFits
  <2>2. CASE d # c
    <3>1. SUFFICES ASSUME job[d].at = "write", job[d].seen # NoRow
                   PROVE  WriteFits(job[d], history, job', ended')
      BY <1>1, <2>2 DEF WriteFits
    <3> DEFINE p == Head(job[d].todo)
    <3>2. /\ p \in Peer
          /\ \A x \in BOOLEAN : Count(job[d].seen, x) \in Nat /\ Count(history[job[d].id], x) \in Nat
      BY <3>1, WriterTypes
    <3>3. WriteFits(job[d], history, job, ended)
      BY DEF CountsInv
    <3>4. ASSUME NEW x \in BOOLEAN
          PROVE  Total(history, p, x) - Count(history[job[d].id], x) + Count(job[d].seen, x)
                   + Cardinality(Waiting(job', p, x)) <= Tries(ended'[p], x)
      <4>1. Total(history, p, x) - Count(history[job[d].id], x) + Count(job[d].seen, x)
              + Cardinality(Waiting(job, p, x)) <= Tries(ended[p], x)
        BY <3>1, <3>3 DEF WriteFits
      <4>2. /\ Total(history, p, x) \in Int /\ Tries(ended[p], x) \in Nat
            /\ Cardinality(Waiting(job, p, x)) \in Nat
        BY <3>2, CountTypes
      <4>3. /\ Cardinality(Waiting(job', p, x)) \in Nat /\ Tries(ended'[p], x) \in Nat
            /\ Cardinality(Waiting(job', p, x)) - Cardinality(Waiting(job, p, x))
                 <= Tries(ended'[p], x) - Tries(ended[p], x)
        BY <3>2
      <4>4. Count(job[d].seen, x) \in Nat /\ Count(history[job[d].id], x) \in Nat
        BY <3>2
      <4> HIDE DEF p
      <4> QED BY ONLY <4>1, <4>2, <4>3, <4>4
    <3> QED BY <3>1, <3>3, <3>4 DEF WriteFits
  <2> QED BY <2>1, <2>2
<1>4. ASSUME NEW d \in Client, job'[d].at = "write", Head(job'[d].todo) \notin raced'
      PROVE  Fresh(job'[d], history)
  BY <1>1, <1>4 DEF CountsInv
<1>5. ASSUME NEW p \in Peer
      PROVE  /\ Counts(p, history, job', ended')
             /\ p \notin raced' \cup cut' => Complete(p, history, job', ended')
             /\ p \notin raced' => OneRow(p, history)
  <2>1. ASSUME NEW x \in BOOLEAN
        PROVE  /\ Total(history, p, x) + Cardinality(Waiting(job', p, x)) <= Tries(ended'[p], x)
               /\ p \notin raced' \cup cut' =>
                    Total(history, p, x) + Cardinality(Waiting(job', p, x)) = Tries(ended'[p], x)
    <3>1. /\ Total(history, p, x) + Cardinality(Waiting(job, p, x)) <= Tries(ended[p], x)
          /\ p \notin raced \cup cut =>
               Total(history, p, x) + Cardinality(Waiting(job, p, x)) = Tries(ended[p], x)
      BY DEF CountsInv, Counts, Complete
    <3>2. /\ Total(history, p, x) \in Int /\ Tries(ended[p], x) \in Nat
          /\ Cardinality(Waiting(job, p, x)) \in Nat
      BY CountTypes
    <3>3. /\ Cardinality(Waiting(job', p, x)) \in Nat /\ Tries(ended'[p], x) \in Nat
          /\ Cardinality(Waiting(job', p, x)) - Cardinality(Waiting(job, p, x))
               <= Tries(ended'[p], x) - Tries(ended[p], x)
          /\ p \notin cut' => Cardinality(Waiting(job', p, x)) - Cardinality(Waiting(job, p, x))
                                = Tries(ended'[p], x) - Tries(ended[p], x)
      OBVIOUS
    <3>4. p \notin raced' \cup cut' => p \notin raced \cup cut /\ p \notin cut'
      OBVIOUS
    <3> QED BY ONLY <3>1, <3>2, <3>3, <3>4
  <2>2. p \notin raced' => OneRow(p, history)
    BY DEF CountsInv
  <2> QED BY <2>1, <2>2 DEF Counts, Complete
<1>6. history' = history
  OBVIOUS
<1> QED BY ONLY <1>2, <1>3, <1>4, <1>5, <1>6, Zenon DEF CountsInv

\* A step of process c that deals with the same as before.
LEMMA CountQuiet ==
  ASSUME TypeOK, CountsInv, NEW c \in Client, NEW j, job' = [job EXCEPT ![c] = j],
         UNCHANGED <<history, raced, ended, cut>>, ModeFits(j),
         j.at = "write" => WriteFits(j, history, job', ended) /\ Fresh(j, history),
         \A p \in Peer, x \in BOOLEAN : Dealing(job[c], p, x) <=> Dealing(j, p, x)
  PROVE  CountsInv'
<1>1. ASSUME NEW p \in Peer, NEW x \in BOOLEAN
      PROVE  /\ IsFiniteSet(Waiting(job', p, x)) /\ Cardinality(Waiting(job', p, x)) \in Nat
             /\ Tries(ended'[p], x) \in Nat
             /\ Cardinality(Waiting(job', p, x)) - Cardinality(Waiting(job, p, x))
                  <= Tries(ended'[p], x) - Tries(ended[p], x)
             /\ p \notin cut' => Cardinality(Waiting(job', p, x)) - Cardinality(Waiting(job, p, x))
                                   = Tries(ended'[p], x) - Tries(ended[p], x)
  <2>1. /\ IsFiniteSet(Waiting(job, p, x)) /\ Tries(ended[p], x) \in Nat
        /\ Cardinality(Waiting(job, p, x)) \in Nat
    BY CountTypes
  <2>2. /\ job'[c] = j /\ \A d \in Client : d # c => job'[d] = job[d]
        /\ Dealing(job[c], p, x) <=> Dealing(j, p, x)
    BY DEF TypeOK
  <2>3. /\ IsFiniteSet(Waiting(job', p, x)) /\ Cardinality(Waiting(job', p, x)) \in Nat
        /\ Cardinality(Waiting(job', p, x)) = Cardinality(Waiting(job, p, x))
    BY ONLY c \in Client, <2>1, <2>2, WaitingStep
  <2>4. ended' = ended
    OBVIOUS
  <2> QED BY ONLY <2>1, <2>3, <2>4
<1>2. \A p \in Peer, x \in BOOLEAN :
        /\ IsFiniteSet(Waiting(job', p, x)) /\ Cardinality(Waiting(job', p, x)) \in Nat
        /\ Tries(ended'[p], x) \in Nat
        /\ Cardinality(Waiting(job', p, x)) - Cardinality(Waiting(job, p, x))
             <= Tries(ended'[p], x) - Tries(ended[p], x)
        /\ p \notin cut' => Cardinality(Waiting(job', p, x)) - Cardinality(Waiting(job, p, x))
                              = Tries(ended'[p], x) - Tries(ended[p], x)
  BY ONLY <1>1
<1>3. cut \subseteq cut' /\ UNCHANGED <<history, raced>> /\ ended' = ended
  OBVIOUS
<1>4. j.at = "write" => WriteFits(j, history, job', ended') /\ Fresh(j, history)
  BY <1>3
<1> QED BY <1>2, <1>3, <1>4, CountWithin

\* What a process goes on to after a peer has no outcome on its way.
LEMMA AfterCounts ==
  ASSUME NEW j \in Job, j.todo # <<>>, j.kind # "none"
  PROVE  /\ ModeFits(After(j)) /\ After(j).at # "write"
         /\ \A p, x : ~ Dealing(After(j), p, x)
<1>1. After(j).kind = j.kind /\ After(j).at \in {"done", "log", "send"}
  BY AfterShape
<1>2. After(j).at = "send" => After(j).mode # "dry-run"
  <2>1. [j EXCEPT !.at = "done"].at = "done"
    BY DEF Job
  <2>2. NextPeer(j).at = "send" => NextPeer(j).mode # "dry-run"
    BY DEF NextPeer, Job
  <2> QED BY <2>1, <2>2 DEF After
<1> HIDE DEF After
<1> QED BY <1>1, <1>2 DEF ModeFits, Dealing

\* A process with a peer ahead has started.
LEMMA BusyCounts ==
  ASSUME TypeOK, CountsInv, NEW c \in Client, Busy(c)
  PROVE  /\ job[c] \in Job /\ job[c].todo # <<>> /\ job[c].kind # "none" /\ Target(c) \in Peer
         /\ ModeFits(job[c])
BY ClientType DEF Busy, CountsInv, ModeFits

\* A command that starts has nothing on its way.
LEMMA StartCounts ==
  ASSUME TypeOK, CountsInv, NEW c \in Client, NEW kind \in {"one", "all", "app"},
         NEW mode \in Mode, NEW todo \in Seq(Peer), NEW at \in {"send", "log"},
         Start(c, kind, mode, todo, at), at = "send" => mode # "dry-run"
  PROVE  CountsInv'
<1> DEFINE j == [NoJob EXCEPT !.kind = kind, !.mode = mode, !.todo = todo,
                              !.at = IF todo = <<>> THEN "done" ELSE at]
<1>1. /\ j.kind = kind /\ j.mode = mode
      /\ j.at = IF todo = <<>> THEN "done" ELSE at
  BY NoJobType DEF Job
<1> HIDE DEF j
<1>2. job' = [job EXCEPT ![c] = j] /\ UNCHANGED <<history, raced, ended, cut>> /\ job[c].kind = "none"
  BY DEF Start, j, tables, ghosts
<1>3. ModeFits(j) /\ j.at # "write" /\ \A p, x : ~ Dealing(j, p, x)
  BY <1>1 DEF ModeFits, Dealing
<1>4. \A p, x : ~ Dealing(job[c], p, x)
  BY <1>2 DEF CountsInv, ModeFits, Dealing
<1> QED BY <1>2, <1>3, <1>4, CountQuiet

\* An answer is on its way when it is counted as an attempt.
LEMMA SendCounts ==
  ASSUME TypeOK, CountsInv, NEW c \in Client, Send(c)
  PROVE  CountsInv'
<1> DEFINE Answered(ok) == [job[c] EXCEPT !.ok = ok]
           t == Target(c)
<1>1. job[c].at = "send" /\ UNCHANGED <<history, raced, cut>>
  BY DEF Send, At, tables
<1>2. /\ job[c] \in Job /\ job[c].todo # <<>> /\ job[c].kind # "none" /\ t \in Peer
      /\ ModeFits(job[c])
  BY <1>1, BusyCounts DEF Busy
<1>3. \A p, x : ~ Dealing(job[c], p, x)
  BY <1>1 DEF Dealing
<1>4. PICK good \in BOOLEAN, status \in BOOLEAN :
        /\ job' = [job EXCEPT ![c] =
               CASE @.mode = "pull" -> After([@ EXCEPT !.ok = good])
                 [] @.mode = "push" /\ ~status -> After([@ EXCEPT !.ok = FALSE])
                 [] OTHER -> [@ EXCEPT !.ok = good, !.at = "record"]]
        /\ ended' = IF job[c].mode \in {"full", "incremental"}
                    THEN [ended EXCEPT ![Target(c)] = Tried(@, good)]
                    ELSE ended
  BY Zenon DEF Send
<1>5. ASSUME NEW ok \in BOOLEAN
      PROVE  /\ Answered(ok) \in Job /\ Answered(ok).todo # <<>> /\ Answered(ok).kind # "none"
  BY <1>2 DEF Job
<1> DEFINE sent == [job[c] EXCEPT !.ok = good, !.at = "record"]
<1>6. /\ sent.mode = job[c].mode /\ sent.kind = job[c].kind /\ sent.todo = job[c].todo
      /\ sent.ok = good /\ sent.at = "record"
  BY <1>2 DEF Job
<1> HIDE DEF Answered, sent
<1>7. CASE job[c].mode = "pull" \/ (job[c].mode = "push" /\ ~ status)
  <2>1. PICK ok \in BOOLEAN : job' = [job EXCEPT ![c] = After(Answered(ok))] /\ ended' = ended
    <3>1. CASE job[c].mode = "pull"
      BY <1>4, <3>1 DEF Answered
    <3>2. CASE job[c].mode = "push" /\ ~ status
      BY <1>4, <3>2 DEF Answered
    <3> QED BY <1>7, <3>1, <3>2
  <2>2. /\ ModeFits(After(Answered(ok))) /\ After(Answered(ok)).at # "write"
        /\ \A p, x : ~ Dealing(After(Answered(ok)), p, x)
    BY <1>5, AfterCounts
  <2> DEFINE k == After(Answered(ok))
  <2>3. /\ job' = [job EXCEPT ![c] = k] /\ UNCHANGED <<history, raced, ended, cut>>
        /\ ModeFits(k) /\ k.at # "write" /\ \A p, x : ~ Dealing(k, p, x)
    BY <1>1, <2>1, <2>2
  <2> HIDE DEF k
  <2> QED BY <1>3, <2>3, CountQuiet
<1>8. CASE job[c].mode = "push" /\ status
  <2>1. job' = [job EXCEPT ![c] = sent] /\ ended' = ended
    BY <1>4, <1>8 DEF sent
  <2>2. ModeFits(sent) /\ sent.at # "write" /\ \A p, x : ~ Dealing(sent, p, x)
    BY <1>2, <1>6, <1>8 DEF ModeFits, Dealing
  <2> QED BY <1>1, <1>3, <2>1, <2>2, CountQuiet
<1>9. CASE job[c].mode \in {"full", "incremental"}
  <2>1. job' = [job EXCEPT ![c] = sent] /\ ended' = [ended EXCEPT ![t] = Tried(@, good)]
    BY <1>4, <1>9 DEF sent
  <2>2. ModeFits(sent) /\ sent.at # "write"
    BY <1>2, <1>6, <1>9 DEF ModeFits
  <2>3. ASSUME NEW p, NEW x \in BOOLEAN PROVE Dealing(sent, p, x) <=> (p = t /\ (good <=> x))
    BY <1>6, <1>9 DEF Dealing, Target
  <2>4. ASSUME NEW p \in Peer, NEW x \in BOOLEAN
        PROVE  /\ Tries(ended'[p], x) \in Nat
               /\ p = t /\ (good <=> x) => Tries(ended'[p], x) = Tries(ended[p], x) + 1
               /\ ~ (p = t /\ (good <=> x)) => Tries(ended'[p], x) = Tries(ended[p], x)
    <3>1. ended \in [Peer -> [ok : Nat, failed : Nat]]
      BY DEF TypeOK
    <3> QED BY <1>2, <2>1, <3>1 DEF Tries, Tried
  <2>5. ASSUME NEW p \in Peer, NEW x \in BOOLEAN
        PROVE  /\ IsFiniteSet(Waiting(job', p, x)) /\ Cardinality(Waiting(job', p, x)) \in Nat
               /\ Tries(ended'[p], x) \in Nat
               /\ Cardinality(Waiting(job', p, x)) - Cardinality(Waiting(job, p, x))
                    <= Tries(ended'[p], x) - Tries(ended[p], x)
               /\ p \notin cut' => Cardinality(Waiting(job', p, x)) - Cardinality(Waiting(job, p, x))
                                     = Tries(ended'[p], x) - Tries(ended[p], x)
    <3>1. /\ IsFiniteSet(Waiting(job, p, x)) /\ Tries(ended[p], x) \in Nat
          /\ Cardinality(Waiting(job, p, x)) \in Nat
      BY CountTypes
    <3>2. /\ job'[c] = sent /\ \A d \in Client : d # c => job'[d] = job[d]
          /\ ~ Dealing(job[c], p, x)
      BY <1>3, <2>1 DEF TypeOK
    <3>3. /\ IsFiniteSet(Waiting(job', p, x)) /\ Cardinality(Waiting(job', p, x)) \in Nat
          /\ Dealing(sent, p, x) =>
               Cardinality(Waiting(job', p, x)) = Cardinality(Waiting(job, p, x)) + 1
          /\ ~ Dealing(sent, p, x) =>
               Cardinality(Waiting(job', p, x)) = Cardinality(Waiting(job, p, x))
      BY ONLY c \in Client, <3>1, <3>2, WaitingStep
    <3> QED BY ONLY <2>3, <2>4, <3>1, <3>3, p \in Peer, x \in BOOLEAN
  <2>6. cut \subseteq cut' /\ UNCHANGED <<history, raced>>
    BY <1>1
  <2> QED BY <2>1, <2>2, <2>5, <2>6, CountWithin
<1>10. job[c].mode \in {"pull", "push", "full", "incremental"}
  BY <1>1, <1>2 DEF ModeFits, Job, Mode
<1> QED BY <1>7, <1>8, <1>9, <1>10

\* A kill takes what the process was dealing with with it.
LEMMA KillCounts ==
  ASSUME TypeOK, CountsInv, NEW c \in Client, Kill(c)
  PROVE  CountsInv'
<1> DEFINE j == [NoJob EXCEPT !.kind = "gone", !.at = "done"]
           t == Target(c)
<1>1. /\ job' = [job EXCEPT ![c] = j] /\ UNCHANGED <<history, raced, ended>>
      /\ cut' = cut \cup {t}
  BY DEF Kill, tables
<1>2. ModeFits(j) /\ j.at # "write" /\ \A p, x : ~ Dealing(j, p, x)
  BY DEF NoJob, ModeFits, Dealing
<1> HIDE DEF j
<1>3. ASSUME NEW p \in Peer, NEW x \in BOOLEAN
      PROVE  /\ IsFiniteSet(Waiting(job', p, x)) /\ Cardinality(Waiting(job', p, x)) \in Nat
             /\ Tries(ended'[p], x) \in Nat
             /\ Cardinality(Waiting(job', p, x)) - Cardinality(Waiting(job, p, x))
                  <= Tries(ended'[p], x) - Tries(ended[p], x)
             /\ p \notin cut' => Cardinality(Waiting(job', p, x)) - Cardinality(Waiting(job, p, x))
                                   = Tries(ended'[p], x) - Tries(ended[p], x)
  <2>1. /\ IsFiniteSet(Waiting(job, p, x)) /\ Tries(ended[p], x) \in Nat
        /\ Cardinality(Waiting(job, p, x)) \in Nat
    BY CountTypes
  <2>2. /\ job'[c] = j /\ \A d \in Client : d # c => job'[d] = job[d]
        /\ ~ Dealing(j, p, x)
    BY <1>1, <1>2 DEF TypeOK
  <2>3. /\ IsFiniteSet(Waiting(job', p, x)) /\ Cardinality(Waiting(job', p, x)) \in Nat
        /\ Dealing(job[c], p, x) =>
             Cardinality(Waiting(job', p, x)) = Cardinality(Waiting(job, p, x)) - 1
        /\ ~ Dealing(job[c], p, x) =>
             Cardinality(Waiting(job', p, x)) = Cardinality(Waiting(job, p, x))
    BY ONLY c \in Client, <2>1, <2>2, WaitingStep
  <2>4. p \notin cut' => ~ Dealing(job[c], p, x)
    BY <1>1 DEF Dealing, Target
  <2>5. ended' = ended
    BY <1>1
  <2> QED BY ONLY <2>1, <2>3, <2>4, <2>5
<1>4. cut \subseteq cut' /\ UNCHANGED <<history, raced>>
  BY <1>1
<1> QED BY <1>1, <1>2, <1>3, <1>4, CountWithin

\* The row that is read is the first of its peer, if it has one.
LEMMA RowOfFirst ==
  ASSUME history \in Seq(Row), NEW p \in Peer
  PROVE  /\ RowOf(p) = 0 => RowsOf(history, p) = {}
         /\ RowOf(p) # 0 => FirstRow(history, p, RowOf(p))
<1> DEFINE I == {i \in 1..Len(history) : history[i].peer = p}
<1>1. RowOf(p) = IF I # {} THEN Min(I) ELSE 0
  BY DEF RowOf, SelectInSeq
<1>2. Len(history) \in Nat /\ I \subseteq 1..Len(history) /\ RowsOf(history, p) = I
  BY DEF RowsOf
<1>3. CASE I # {}
  <2> HIDE DEF I
  <2>1. Min(I) \in I /\ \A k \in I : Min(I) <= k
    BY <1>2, <1>3, MinOfIndices
  <2>2. Min(I) # 0
    BY <1>2, <2>1
  <2> QED BY <1>1, <1>2, <1>3, <2>1, <2>2 DEF FirstRow
<1> QED BY <1>1, <1>2, <1>3

\* The steps between the request and the history, but the SELECT, move within a peer.
LEMMA RecordCounts ==
  ASSUME TypeOK, CountsInv, NEW c \in Client,
         RecordRelayResult(c) \/ FlushRelayMetrics(c) \/ LogSyncEvent(c)
  PROVE  CountsInv'
<1>1. /\ job[c].at \in {"record", "flush", "log"} /\ UNCHANGED <<history, raced, ended, cut>>
  BY DEF RecordRelayResult, FlushRelayMetrics, LogSyncEvent, At, tables, ghosts
<1>2. /\ job[c] \in Job /\ job[c].todo # <<>> /\ job[c].kind # "none" /\ ModeFits(job[c])
  BY <1>1, BusyCounts DEF Busy
<1>3. ASSUME job' = [job EXCEPT ![c] = After(job[c])],
             \A p, x : ~ Dealing(job[c], p, x)
      PROVE  CountsInv'
  <2> DEFINE k == After(job[c])
  <2>1. job' = [job EXCEPT ![c] = k] /\ ModeFits(k) /\ k.at # "write" /\ \A p, x : ~ Dealing(k, p, x)
    BY <1>2, <1>3, AfterCounts
  <2> HIDE DEF k
  <2> QED BY <1>1, <1>3, <2>1, CountQuiet
<1>4. ASSUME NEW k, job' = [job EXCEPT ![c] = k], k.kind = job[c].kind, k.mode = job[c].mode,
             k.todo = job[c].todo, k.ok = job[c].ok, k.at \in {"flush", "read"},
             job[c].mode \in {"full", "incremental"}, job[c].at # "log"
      PROVE  CountsInv'
  <2>1. ModeFits(k) /\ k.at # "write"
    BY <1>2, <1>4 DEF ModeFits
  <2>2. ASSUME NEW p, NEW x PROVE Dealing(job[c], p, x) <=> Dealing(k, p, x)
    BY <1>1, <1>4 DEF Dealing
  <2> QED BY <1>1, <1>4, <2>1, <2>2, CountQuiet
<1>5. CASE RecordRelayResult(c)
  <2>1. CASE job[c].mode = "push"
    <3>1. job' = [job EXCEPT ![c] = After(job[c])]
      BY <1>5, <2>1 DEF RecordRelayResult
    <3> QED BY <1>3, <2>1, <3>1 DEF Dealing
  <2>2. CASE job[c].mode # "push"
    <3> DEFINE k == [job[c] EXCEPT !.at = IF job[c].ok THEN "flush" ELSE "read"]
    <3>1. job' = [job EXCEPT ![c] = k] /\ job[c].at = "record"
      BY <1>5, <2>2 DEF RecordRelayResult, At
    <3>2. /\ k.kind = job[c].kind /\ k.mode = job[c].mode /\ k.todo = job[c].todo
          /\ k.at \in {"flush", "read"} /\ k.ok = job[c].ok
      BY <1>2 DEF Job
    <3>3. job[c].mode \in {"full", "incremental"}
      BY <1>2, <2>2, <3>1 DEF ModeFits, Job, Mode
    <3> HIDE DEF k
    <3> QED BY <1>4, <3>1, <3>2, <3>3
  <2> QED BY <2>1, <2>2
<1>6. CASE FlushRelayMetrics(c)
  <2> DEFINE k == [job[c] EXCEPT !.at = "read"]
  <2>1. job' = [job EXCEPT ![c] = k] /\ job[c].at = "flush"
    BY <1>6 DEF FlushRelayMetrics, At
  <2>2. /\ k.kind = job[c].kind /\ k.mode = job[c].mode /\ k.todo = job[c].todo
        /\ k.at = "read" /\ k.ok = job[c].ok
    BY <1>2 DEF Job
  <2>3. job[c].mode \in {"full", "incremental"}
    BY <1>2, <2>1 DEF ModeFits
  <2> HIDE DEF k
  <2> QED BY <1>4, <2>1, <2>2, <2>3
<1>7. CASE LogSyncEvent(c)
  <2>1. job' = [job EXCEPT ![c] = After(job[c])] /\ job[c].at = "log"
    BY <1>7 DEF LogSyncEvent, At
  <2> QED BY <1>3, <2>1 DEF Dealing
<1> QED BY <1>5, <1>6, <1>7

\* The SELECT: what is read is what is there.
LEMMA ReadCounts ==
  ASSUME TypeOK, CountsInv, NEW c \in Client, ReadHistory(c)
  PROVE  CountsInv'
<1> DEFINE t == Target(c)
           i == RowOf(t)
           k == [job[c] EXCEPT !.at = "write", !.id = i,
                               !.seen = IF i = 0 THEN NoRow ELSE history[i]]
<1>1. /\ job[c].at = "read" /\ UNCHANGED <<history, raced, ended, cut>>
      /\ job' = [job EXCEPT ![c] = k]
  BY DEF ReadHistory, At, tables, ghosts
<1>2. /\ job[c] \in Job /\ job[c].todo # <<>> /\ job[c].kind # "none" /\ ModeFits(job[c])
      /\ t \in Peer
  BY <1>1, BusyCounts DEF Busy
<1>3. /\ k.kind = job[c].kind /\ k.mode = job[c].mode /\ k.todo = job[c].todo /\ k.ok = job[c].ok
      /\ k.at = "write" /\ k.id = i /\ k.seen = IF i = 0 THEN NoRow ELSE history[i]
  BY <1>2 DEF Job
<1>4. history \in Seq(Row)
  BY DEF TypeOK
<1>5. /\ i = 0 => RowsOf(history, t) = {}
      /\ i # 0 => FirstRow(history, t, i)
  BY <1>2, <1>4, RowOfFirst
<1> HIDE DEF k, i
<1>6. ModeFits(k)
  BY <1>1, <1>2, <1>3 DEF ModeFits
<1>7. ASSUME NEW p, NEW x PROVE Dealing(job[c], p, x) <=> Dealing(k, p, x)
  BY <1>1, <1>3 DEF Dealing
<1>8. Head(k.todo) = t
  BY <1>3 DEF Target
<1>9. i # 0 => history[i] \in Row /\ history[i].peer = t /\ \A x \in BOOLEAN : Count(history[i], x) \in Nat
  <2>1. i # 0 => i \in DOMAIN history /\ history[i].peer = t
    BY <1>5 DEF FirstRow, RowsOf
  <2>2. i # 0 => history[i] \in Row
    BY <1>4, <2>1
  <2>3. \A row \in Row, x \in BOOLEAN : Count(row, x) \in Nat
    BY DEF Count, Row
  <2> QED BY <2>1, <2>2, <2>3
<1>10. Fresh(k, history)
  BY <1>3, <1>5, <1>8, <1>9, PeerAssump DEF Fresh
<1>11. WriteFits(k, history, job', ended)
  <2> SUFFICES ASSUME i # 0 PROVE WriteFits(k, history, job', ended)
    BY <1>3 DEF WriteFits
  <2>1. ASSUME NEW x \in BOOLEAN
        PROVE  Total(history, t, x) - Count(history[i], x) + Count(history[i], x)
                 + Cardinality(Waiting(job', t, x)) <= Tries(ended[t], x)
    <3>1. /\ Total(history, t, x) \in Int /\ Tries(ended[t], x) \in Nat
          /\ IsFiniteSet(Waiting(job, t, x)) /\ Cardinality(Waiting(job, t, x)) \in Nat
      BY <1>2, CountTypes
    <3>2. /\ job'[c] = k /\ \A d \in Client : d # c => job'[d] = job[d]
          /\ Dealing(job[c], t, x) <=> Dealing(k, t, x)
      BY <1>1, <1>7 DEF TypeOK
    <3>3. Cardinality(Waiting(job', t, x)) = Cardinality(Waiting(job, t, x))
      BY ONLY c \in Client, <3>1, <3>2, WaitingStep
    <3>4. Total(history, t, x) + Cardinality(Waiting(job, t, x)) <= Tries(ended[t], x)
      BY <1>2 DEF CountsInv, Counts
    <3>5. Count(history[i], x) \in Nat
      BY <1>9
    <3> QED BY ONLY <3>1, <3>3, <3>4, <3>5
  <2> QED BY <1>3, <1>5, <1>8, <1>9, <2>1 DEF WriteFits
<1> QED BY <1>1, <1>6, <1>7, <1>10, <1>11, CountQuiet

\* A write adds the outcome of process c to the row that it has read, or to a new one; the
\* other peers keep their rows. p: the peer of c; O(x): the outcome counts as x.
LEMMA WriteEffect ==
  ASSUME TypeOK, CountsInv, NEW c \in Client, WriteHistory(c)
  PROVE  LET j    == job[c]
             p    == Target(c)
             O(x) == IF j.ok <=> x THEN 1 ELSE 0
         IN  /\ history' \in Seq(Row)
             /\ \A q \in Peer \ {p} :
                  /\ RowsOf(history', q) = RowsOf(history, q)
                  /\ \A i \in RowsOf(history, q) : history'[i] = history[i]
                  /\ \A x \in BOOLEAN : Total(history', q, x) = Total(history, q, x)
             /\ j.seen = NoRow =>
                  /\ RowsOf(history', p) = RowsOf(history, p) \cup {Len(history) + 1}
                  /\ \A i \in DOMAIN history : history'[i] = history[i] /\ i < Len(history) + 1
                  /\ \A x \in BOOLEAN : Total(history', p, x) = Total(history, p, x) + O(x)
             /\ j.seen # NoRow =>
                  /\ RowsOf(history', p) = RowsOf(history, p)
                  /\ \A x \in BOOLEAN :
                       /\ Count(history'[j.id], x) = Count(j.seen, x) + O(x)
                       /\ Total(history', p, x) = Total(history, p, x) - Count(history[j.id], x)
                                                    + (Count(j.seen, x) + O(x))
<1> DEFINE j == job[c]
           p == Target(c)
           O(x) == IF j.ok <=> x THEN 1 ELSE 0
           old == IF j.seen = NoRow THEN [peer |-> p, succ |-> 0, fail |-> 0] ELSE j.seen
           new == Bumped(old, j.ok)
<1>1. /\ j.at = "write"
      /\ history' = IF j.seen = NoRow THEN Append(history, new) ELSE [history EXCEPT ![j.id] = new]
  BY DEF WriteHistory, At
<1>2. j \in Job /\ p \in Peer /\ history \in Seq(Row)
  BY <1>1, BusyCounts DEF Busy, TypeOK
<1>3. j.seen # NoRow => /\ j.seen \in Row /\ j.id \in DOMAIN history
                        /\ history[j.id].peer = p /\ j.seen.peer = p
  BY <1>1, WriterTypes DEF Target, CountsInv, WriteFits
<1>4. old \in Row /\ old.peer = p /\ (j.seen = NoRow => \A x \in BOOLEAN : Count(old, x) = 0)
  BY <1>2, <1>3 DEF Row, Count
<1>5. j.seen # NoRow => old = j.seen
  OBVIOUS
<1>6. j.ok \in BOOLEAN
  BY <1>2 DEF Job
<1> HIDE DEF old, j, p
<1>7. new \in Row /\ new.peer = p /\ \A x \in BOOLEAN : Count(new, x) = Count(old, x) + O(x)
  BY <1>4, <1>6 DEF Bumped, Row, Count
<1> HIDE DEF new
<1>8. CASE j.seen = NoRow
  <2>1. history' = Append(history, new)
    BY <1>1, <1>8
  <2>2. /\ history' \in Seq(Row)
        /\ \A i \in DOMAIN history : history'[i] = history[i] /\ i < Len(history) + 1
        /\ \A q \in Peer, x \in BOOLEAN :
             /\ new.peer = q => /\ RowsOf(history', q) = RowsOf(history, q) \cup {Len(history) + 1}
                                /\ Total(history', q, x) = Total(history, q, x) + Count(new, x)
             /\ new.peer # q => /\ RowsOf(history', q) = RowsOf(history, q)
                                /\ Total(history', q, x) = Total(history, q, x)
    <3>1. ASSUME NEW q \in Peer, NEW x \in BOOLEAN
          PROVE  /\ history' \in Seq(Row)
                 /\ \A i \in DOMAIN history : history'[i] = history[i] /\ i < Len(history) + 1
                 /\ new.peer = q => /\ RowsOf(history', q) = RowsOf(history, q) \cup {Len(history) + 1}
                                    /\ Total(history', q, x) = Total(history, q, x) + Count(new, x)
                 /\ new.peer # q => /\ RowsOf(history', q) = RowsOf(history, q)
                                    /\ Total(history', q, x) = Total(history, q, x)
      <4>1. history \in Seq(Row) /\ new \in Row /\ Inserted(history', history, new)
        BY <1>2, <1>7, <2>1 DEF Inserted
      <4>2. history' \in Seq(Row)
        BY ONLY <4>1, x \in BOOLEAN, InsertTotals
      <4>3. \A i \in DOMAIN history : history'[i] = history[i] /\ i < Len(history) + 1
        BY ONLY <4>1, x \in BOOLEAN, InsertTotals
      <4>8. /\ \A i : i \in DOMAIN history' <=> i \in DOMAIN history \/ i = Len(history) + 1
            /\ history'[Len(history) + 1] = new
        BY <4>1 DEF Inserted
      <4>4. new.peer = q => Total(history', q, x) = Total(history, q, x) + Count(new, x)
        BY ONLY <4>1, x \in BOOLEAN, InsertTotals
      <4>5. new.peer = q => RowsOf(history', q) = RowsOf(history, q) \cup {Len(history) + 1}
        BY <4>2, <4>3, <4>8 DEF RowsOf
      <4>6. new.peer # q => Total(history', q, x) = Total(history, q, x)
        BY ONLY <4>1, x \in BOOLEAN, InsertTotals
      <4>7. new.peer # q => RowsOf(history', q) = RowsOf(history, q)
        BY <4>2, <4>3, <4>8 DEF RowsOf
      <4> QED BY ONLY <4>2, <4>3, <4>4, <4>5, <4>6, <4>7
    <3> QED BY ONLY <1>2, <3>1
  <2>3. ASSUME NEW q \in Peer \ {p}
        PROVE  /\ RowsOf(history', q) = RowsOf(history, q)
               /\ \A i \in RowsOf(history, q) : history'[i] = history[i]
               /\ \A x \in BOOLEAN : Total(history', q, x) = Total(history, q, x)
    <3>1. \A i \in RowsOf(history, q) : history'[i] = history[i]
      BY <2>2 DEF RowsOf
    <3> QED BY <1>7, <2>2, <3>1
  <2>4. RowsOf(history', p) = RowsOf(history, p) \cup {Len(history) + 1}
    BY <1>2, <1>7, <2>2
  <2>5. ASSUME NEW x \in BOOLEAN PROVE Total(history', p, x) = Total(history, p, x) + O(x)
    <3>1. Total(history, p, x) \in Int
      BY <1>2, TotalFacts
    <3>2. Total(history', p, x) = Total(history, p, x) + Count(new, x)
      BY <1>2, <1>7, <2>2
    <3>3. Count(new, x) = O(x)
      BY <1>4, <1>7, <1>8
    <3> QED BY <3>2, <3>3
  <2> HIDE DEF O
  <2>6. j.seen = NoRow => /\ RowsOf(history', p) = RowsOf(history, p) \cup {Len(history) + 1}
                          /\ \A i \in DOMAIN history : history'[i] = history[i] /\ i < Len(history) + 1
                          /\ \A x \in BOOLEAN : Total(history', p, x) = Total(history, p, x) + O(x)
    BY <2>2, <2>4, <2>5
  <2> QED BY ONLY <1>8, <2>2, <2>3, <2>6 DEF j, p, O
<1>9. CASE j.seen # NoRow
  <2>1. history' = [history EXCEPT ![j.id] = new] /\ new.peer = history[j.id].peer /\ j.id \in DOMAIN history
    BY <1>1, <1>3, <1>7, <1>9
  <2>2. /\ history' \in Seq(Row) /\ history'[j.id] = new
        /\ \A i \in DOMAIN history \ {j.id} : history'[i] = history[i]
        /\ \A q \in Peer, x \in BOOLEAN :
             /\ RowsOf(history', q) = RowsOf(history, q)
             /\ new.peer = q => Total(history', q, x) = Total(history, q, x) - Count(history[j.id], x)
                                                          + Count(new, x)
             /\ new.peer # q => Total(history', q, x) = Total(history, q, x)
    <3>1. ASSUME NEW q \in Peer, NEW x \in BOOLEAN
          PROVE  /\ history' \in Seq(Row) /\ history'[j.id] = new
                 /\ \A i \in DOMAIN history \ {j.id} : history'[i] = history[i]
                 /\ RowsOf(history', q) = RowsOf(history, q)
                 /\ new.peer = q => Total(history', q, x) = Total(history, q, x)
                                      - Count(history[j.id], x) + Count(new, x)
                 /\ new.peer # q => Total(history', q, x) = Total(history, q, x)
      <4>1. /\ history \in Seq(Row) /\ new \in Row /\ j.id \in DOMAIN history
            /\ new.peer = history[j.id].peer
        BY <1>2, <1>7, <2>1
      <4> DEFINE k == j.id
      <4>2. /\ history' \in Seq(Row) /\ history'[k] = new /\ DOMAIN history' = DOMAIN history
            /\ \A i \in DOMAIN history \ {k} : history'[i] = history[i]
        BY <2>1, <4>1
      <4>3. RowsOf(history', q) = RowsOf(history, q)
        BY <4>1, <4>2 DEF RowsOf
      <4>6. /\ history \in Seq(Row) /\ new \in Row /\ k \in DOMAIN history
            /\ new.peer = history[k].peer
        BY <4>1
      <4> HIDE DEF k
      <4>4. new.peer = q => Total(history', q, x) = Total(history, q, x) - Count(history[k], x) + Count(new, x)
        <5> SUFFICES ASSUME new.peer = q
                     PROVE  Total(history', q, x) = Total(history, q, x) - Count(history[k], x) + Count(new, x)
          OBVIOUS
        <5>1. /\ history \in Seq(Row) /\ history' \in Seq(Row) /\ x \in BOOLEAN
              /\ k \in RowsOf(history', q) /\ k \in RowsOf(history, q)
              /\ RowsOf(history', q) \ {k} = RowsOf(history, q) \ {k}
              /\ \A i \in RowsOf(history', q) \ {k} : history'[i] = history[i]
          BY <4>2, <4>3, <4>6 DEF RowsOf
        <5>2. Total(history', q, x) = Count(history'[k], x) + (Total(history, q, x) - Count(history[k], x))
          BY ONLY <5>1, TotalWithout
        <5>3. Total(history, q, x) \in Int /\ Count(history[k], x) \in Nat /\ Count(history'[k], x) \in Nat
          BY <4>2, <4>6, TotalFacts
        <5> QED BY ONLY <4>2, <5>2, <5>3
      <4>5. new.peer # q => Total(history', q, x) = Total(history, q, x)
        <5> SUFFICES ASSUME new.peer # q PROVE Total(history', q, x) = Total(history, q, x)
          OBVIOUS
        <5>1. /\ history \in Seq(Row) /\ history' \in Seq(Row) /\ x \in BOOLEAN
              /\ RowsOf(history', q) = RowsOf(history, q)
              /\ \A i \in RowsOf(history, q) : history'[i] = history[i]
          BY <4>2, <4>3, <4>6 DEF RowsOf
        <5> QED BY ONLY <5>1, TotalAgrees
      <4> QED BY ONLY <4>2, <4>3, <4>4, <4>5 DEF k
    <3> QED BY ONLY <1>2, <3>1
  <2>3. ASSUME NEW q \in Peer \ {p}
        PROVE  /\ RowsOf(history', q) = RowsOf(history, q)
               /\ \A i \in RowsOf(history, q) : history'[i] = history[i]
               /\ \A x \in BOOLEAN : Total(history', q, x) = Total(history, q, x)
    <3>1. j.id \notin RowsOf(history, q)
      BY <1>3, <1>9 DEF RowsOf
    <3>2. \A i \in RowsOf(history, q) : history'[i] = history[i]
      BY <2>2, <3>1 DEF RowsOf
    <3> QED BY <1>7, <2>2, <3>2
  <2>4. ASSUME NEW x \in BOOLEAN
        PROVE  /\ Count(history'[j.id], x) = Count(j.seen, x) + O(x)
               /\ Total(history', p, x) = Total(history, p, x) - Count(history[j.id], x)
                                            + (Count(j.seen, x) + O(x))
    <3>1. Count(new, x) = Count(j.seen, x) + O(x)
      BY <1>5, <1>7, <1>9
    <3>2. Total(history', p, x) = Total(history, p, x) - Count(history[j.id], x) + Count(new, x)
      BY <1>2, <1>7, <2>2
    <3> QED BY <2>2, <3>1, <3>2
  <2> HIDE DEF O
  <2>5. j.seen # NoRow =>
          /\ RowsOf(history', p) = RowsOf(history, p)
          /\ \A x \in BOOLEAN :
               /\ Count(history'[j.id], x) = Count(j.seen, x) + O(x)
               /\ Total(history', p, x) = Total(history, p, x) - Count(history[j.id], x)
                                            + (Count(j.seen, x) + O(x))
    BY <1>2, <2>2, <2>4
  <2> QED BY ONLY <1>9, <2>2, <2>3, <2>5 DEF j, p, O
<1> QED BY <1>8, <1>9

\* The UPDATE or INSERT: another process that has read the row of the same peer overwrites
\* no more than what is there, and then the peer has been raced for.
LEMMA WriteCounts ==
  ASSUME TypeOK, CountsInv, NEW c \in Client, WriteHistory(c)
  PROVE  CountsInv'
<1> DEFINE j == job[c]
           p == Target(c)
           O(x) == IF j.ok <=> x THEN 1 ELSE 0
           n == Len(history) + 1
<1>1. /\ j.at = "write" /\ UNCHANGED <<ended, cut>>
      /\ raced' = IF \E d \in Client \ {c} : At(d, "write") /\ Target(d) = p
                  THEN raced \cup {p} ELSE raced
      /\ job' = [job EXCEPT ![c] = IF @.kind = "all" THEN [@ EXCEPT !.at = "log"] ELSE After(@)]
  BY DEF WriteHistory, At
<1>2. /\ j \in Job /\ j.todo # <<>> /\ j.kind # "none" /\ p \in Peer /\ ModeFits(j)
      /\ Head(j.todo) = p /\ history \in Seq(Row)
  BY <1>1, BusyCounts DEF Busy, TypeOK, Target
<1>3. PICK k : /\ job' = [job EXCEPT ![c] = k] /\ ModeFits(k) /\ k.at # "write"
               /\ \A q, x : ~ Dealing(k, q, x)
  <2>1. CASE j.kind = "all"
    <3> DEFINE k == [j EXCEPT !.at = "log"]
    <3>1. job' = [job EXCEPT ![c] = k]
      BY <1>1, <2>1
    <3>2. k.at = "log" /\ k.kind = j.kind
      BY <1>2 DEF Job
    <3> HIDE DEF k, j
    <3>3. ModeFits(k) /\ k.at # "write" /\ \A q, x : ~ Dealing(k, q, x)
      BY <1>2, <3>2 DEF ModeFits, Dealing
    <3> QED BY <3>1, <3>3
  <2>2. CASE j.kind # "all"
    <3>1. job' = [job EXCEPT ![c] = After(j)]
      BY <1>1, <2>2
    <3>2. ModeFits(After(j)) /\ After(j).at # "write" /\ \A q, x : ~ Dealing(After(j), q, x)
      BY <1>2, AfterCounts
    <3> QED BY <3>1, <3>2
  <2> QED BY <2>1, <2>2
<1>4. job'[c] = k /\ \A d \in Client : d # c => job'[d] = job[d]
  BY <1>3 DEF TypeOK
<1>5. ASSUME NEW q \in Peer, NEW x \in BOOLEAN
      PROVE  /\ IsFiniteSet(Waiting(job', q, x)) /\ Cardinality(Waiting(job', q, x)) \in Nat
             /\ q # p => Cardinality(Waiting(job', q, x)) = Cardinality(Waiting(job, q, x))
             /\ Cardinality(Waiting(job', p, x)) = Cardinality(Waiting(job, p, x)) - O(x)
  <2>1. ASSUME NEW r \in Peer
        PROVE  /\ IsFiniteSet(Waiting(job', r, x)) /\ Cardinality(Waiting(job', r, x)) \in Nat
               /\ Dealing(j, r, x) =>
                    Cardinality(Waiting(job', r, x)) = Cardinality(Waiting(job, r, x)) - 1
               /\ ~ Dealing(j, r, x) =>
                    Cardinality(Waiting(job', r, x)) = Cardinality(Waiting(job, r, x))
    <3>1. IsFiniteSet(Waiting(job, r, x))
      BY CountTypes
    <3>2. ~ Dealing(job'[c], r, x)
      BY <1>3, <1>4
    <3> QED BY ONLY c \in Client, <1>4, <3>1, <3>2, WaitingStep
  <2>2. q # p => ~ Dealing(j, q, x)
    BY <1>2 DEF Dealing
  <2>3. Dealing(j, p, x) <=> (j.ok <=> x)
    BY <1>1, <1>2 DEF Dealing, ModeFits
  <2>4. Cardinality(Waiting(job, p, x)) \in Nat
    BY <1>2, CountTypes
  <2> HIDE DEF j, p
  <2> QED BY <1>2, <2>1, <2>2, <2>3, <2>4
<1>6. /\ history' \in Seq(Row)
      /\ \A q \in Peer \ {p} :
           /\ RowsOf(history', q) = RowsOf(history, q)
           /\ \A i \in RowsOf(history, q) : history'[i] = history[i]
           /\ \A x \in BOOLEAN : Total(history', q, x) = Total(history, q, x)
      /\ j.seen = NoRow =>
           /\ RowsOf(history', p) = RowsOf(history, p) \cup {n}
           /\ \A i \in DOMAIN history : history'[i] = history[i] /\ i < n
           /\ \A x \in BOOLEAN : Total(history', p, x) = Total(history, p, x) + O(x)
      /\ j.seen # NoRow =>
           /\ RowsOf(history', p) = RowsOf(history, p)
           /\ \A x \in BOOLEAN :
                /\ Count(history'[j.id], x) = Count(j.seen, x) + O(x)
                /\ Total(history', p, x) = Total(history, p, x) - Count(history[j.id], x)
                                             + (Count(j.seen, x) + O(x))
  BY WriteEffect
<1>7. /\ WriteFits(j, history, job, ended)
      /\ p \notin raced => Fresh(j, history)
      /\ j.seen # NoRow => \A x \in BOOLEAN : Count(j.seen, x) \in Nat /\ Count(history[j.id], x) \in Nat
  BY <1>1, <1>2, WriterTypes DEF CountsInv
<1>8. \A x \in BOOLEAN : O(x) \in {0, 1}
  OBVIOUS
<1>9. raced \subseteq raced' /\ ended' = ended /\ cut' = cut
  BY <1>1
<1> HIDE DEF j, p, O, n
<1>10. \A d \in Client : ModeFits(job'[d])
  BY <1>3, <1>4 DEF CountsInv
<1>11. ASSUME NEW d \in Client, job'[d].at = "write"
       PROVE  d # c /\ job'[d] = job[d] /\ job[d].at = "write"
  BY <1>3, <1>4, <1>11
<1>12. ASSUME NEW d \in Client PROVE WriteFits(job'[d], history', job', ended')
  <2>1. SUFFICES ASSUME job'[d].at = "write", job'[d].seen # NoRow
                 PROVE  WriteFits(job[d], history', job', ended)
    BY <1>9, <1>11 DEF WriteFits
  <2> DEFINE q == Head(job[d].todo)
             i == job[d].id
             s == job[d].seen
  <2>2. job[d].at = "write" /\ s # NoRow /\ d # c
    BY <1>11, <2>1
  <2>3. /\ q \in Peer /\ i \in DOMAIN history
        /\ \A x \in BOOLEAN : Count(s, x) \in Nat /\ Count(history[i], x) \in Nat
    BY <2>2, WriterTypes
  <2>4. /\ FirstRow(history, q, i) /\ s.peer = q
        /\ \A x \in BOOLEAN : Total(history, q, x) - Count(history[i], x) + Count(s, x)
                                + Cardinality(Waiting(job, q, x)) <= Tries(ended[q], x)
    BY <2>2 DEF CountsInv, WriteFits
  <2> HIDE DEF q, i, s
  <2>5. ASSUME NEW x \in BOOLEAN
        PROVE  /\ Total(history, q, x) \in Int /\ Tries(ended[q], x) \in Nat
               /\ Cardinality(Waiting(job, q, x)) \in Nat
               /\ Total(history, p, x) \in Int /\ Cardinality(Waiting(job, p, x)) \in Nat
    BY <1>2, <2>3, CountTypes
  <2>6. CASE q # p
    <3>1. FirstRow(history', q, i)
      BY <1>6, <2>3, <2>4, <2>6 DEF FirstRow
    <3>2. history'[i] = history[i]
      BY <1>6, <2>3, <2>4, <2>6 DEF FirstRow
    <3>3. \A x \in BOOLEAN : Total(history', q, x) - Count(history'[i], x) + Count(s, x)
                                + Cardinality(Waiting(job', q, x)) <= Tries(ended[q], x)
      BY <1>5, <1>6, <2>3, <2>4, <2>6, <3>2
    <3> QED BY <2>4, <3>1, <3>3 DEF WriteFits, q, i, s
  <2>7. CASE q = p /\ j.seen = NoRow
    <3>1. FirstRow(history', q, i)
      BY <1>6, <2>3, <2>4, <2>7 DEF FirstRow, RowsOf
    <3>2. history'[i] = history[i]
      BY <1>6, <2>3, <2>7
    <3>3. ASSUME NEW x \in BOOLEAN
          PROVE  Total(history', q, x) - Count(history'[i], x) + Count(s, x)
                   + Cardinality(Waiting(job', q, x)) <= Tries(ended[q], x)
      <4>1. /\ Total(history', q, x) = Total(history, q, x) + O(x)
            /\ Cardinality(Waiting(job', q, x)) = Cardinality(Waiting(job, q, x)) - O(x)
        BY <1>2, <1>5, <1>6, <2>7
      <4>2. /\ Total(history, q, x) - Count(history[i], x) + Count(s, x)
                 + Cardinality(Waiting(job, q, x)) <= Tries(ended[q], x)
            /\ Count(s, x) \in Nat /\ Count(history[i], x) \in Nat /\ O(x) \in {0, 1}
        BY <1>8, <2>3, <2>4
      <4> QED BY ONLY <2>5, <3>2, <4>1, <4>2, x \in BOOLEAN
    <3> QED BY <2>4, <3>1, <3>3 DEF WriteFits, q, i, s
  <2>8. CASE q = p /\ j.seen # NoRow
    <3>1. FirstRow(history', q, i)
      BY <1>6, <2>4, <2>8 DEF FirstRow
    <3>2. i = j.id
      <4>1. FirstRow(history, p, j.id)
        BY <1>1, <1>2, <1>7, <2>8 DEF WriteFits, j
      <4>2. i \in RowsOf(history, p) /\ j.id \in RowsOf(history, p) /\ i <= j.id /\ j.id <= i
        BY <2>4, <2>8, <4>1 DEF FirstRow
      <4>3. i \in Nat /\ j.id \in Nat
        BY <1>2, <4>2 DEF RowsOf
      <4> QED BY ONLY <4>2, <4>3
    <3>3. ASSUME NEW x \in BOOLEAN
          PROVE  Total(history', q, x) - Count(history'[i], x) + Count(s, x)
                   + Cardinality(Waiting(job', q, x)) <= Tries(ended[q], x)
      <4>1. /\ Count(history'[i], x) = Count(j.seen, x) + O(x)
            /\ Total(history', q, x) = Total(history, q, x) - Count(history[i], x)
                                         + (Count(j.seen, x) + O(x))
            /\ Cardinality(Waiting(job', q, x)) = Cardinality(Waiting(job, q, x)) - O(x)
        BY <1>2, <1>5, <1>6, <2>8, <3>2
      <4>2. /\ Total(history, q, x) - Count(history[i], x) + Count(s, x)
                 + Cardinality(Waiting(job, q, x)) <= Tries(ended[q], x)
            /\ Count(s, x) \in Nat /\ Count(history[i], x) \in Nat /\ O(x) \in {0, 1}
            /\ Count(j.seen, x) \in Nat
        BY <1>7, <1>8, <2>3, <2>4, <2>8
      <4> QED BY ONLY <2>5, <4>1, <4>2, x \in BOOLEAN
    <3> QED BY <2>4, <3>1, <3>3 DEF WriteFits, q, i, s
  <2> QED BY <2>6, <2>7, <2>8
<1>13. ASSUME NEW d \in Client, job'[d].at = "write", Head(job'[d].todo) \notin raced'
       PROVE  Fresh(job'[d], history')
  <2> DEFINE q == Head(job[d].todo)
  <2>1. job[d].at = "write" /\ job'[d] = job[d] /\ d # c /\ q \notin raced' /\ q \notin raced
    BY <1>9, <1>11, <1>13
  <2>2. q \in Peer
    BY <2>1, WriterTypes
  <2>3. q # p
    BY <1>1, <2>1 DEF At, Target, p
  <2>4. Fresh(job[d], history) /\ WriteFits(job[d], history, job, ended)
    BY <2>1 DEF CountsInv
  <2>5. job[d].seen # NoRow => job[d].id \in RowsOf(history, q)
    BY <2>1, <2>4 DEF WriteFits, FirstRow
  <2> QED BY <1>6, <2>1, <2>2, <2>3, <2>4, <2>5 DEF Fresh
<1>14. ASSUME NEW q \in Peer
       PROVE  /\ Counts(q, history', job', ended')
              /\ q \notin raced' \cup cut' => Complete(q, history', job', ended')
              /\ q \notin raced' => OneRow(q, history')
  <2>1. ASSUME NEW x \in BOOLEAN
        PROVE  /\ Total(history, q, x) + Cardinality(Waiting(job, q, x)) <= Tries(ended[q], x)
               /\ q \notin raced \cup cut =>
                    Total(history, q, x) + Cardinality(Waiting(job, q, x)) = Tries(ended[q], x)
               /\ Total(history, q, x) \in Int /\ Tries(ended[q], x) \in Nat
               /\ Cardinality(Waiting(job, q, x)) \in Nat
    BY CountTypes DEF CountsInv, Counts, Complete
  <2>2. q \notin raced => OneRow(q, history)
    BY DEF CountsInv
  <2>3. ASSUME NEW x \in BOOLEAN
        PROVE  /\ Total(history', q, x) + Cardinality(Waiting(job', q, x)) <= Tries(ended[q], x)
               /\ q \notin raced \cup cut =>
                    Total(history', q, x) + Cardinality(Waiting(job', q, x)) = Tries(ended[q], x)
    <3>1. CASE q # p
      BY <1>5, <1>6, <2>1, <3>1
    <3>2. CASE q = p /\ j.seen = NoRow
      <4>1. /\ Total(history', q, x) = Total(history, q, x) + O(x)
            /\ Cardinality(Waiting(job', q, x)) = Cardinality(Waiting(job, q, x)) - O(x)
            /\ O(x) \in {0, 1}
        BY <1>2, <1>5, <1>6, <1>8, <3>2
      <4> QED BY ONLY <2>1, <4>1, x \in BOOLEAN
    <3>3. CASE q = p /\ j.seen # NoRow
      <4>1. /\ Total(history', q, x) = Total(history, q, x) - Count(history[j.id], x)
                                         + (Count(j.seen, x) + O(x))
            /\ Cardinality(Waiting(job', q, x)) = Cardinality(Waiting(job, q, x)) - O(x)
            /\ O(x) \in {0, 1} /\ Count(j.seen, x) \in Nat /\ Count(history[j.id], x) \in Nat
        BY <1>2, <1>5, <1>6, <1>7, <1>8, <3>3
      <4>2. Total(history, q, x) - Count(history[j.id], x) + Count(j.seen, x)
              + Cardinality(Waiting(job, q, x)) <= Tries(ended[q], x)
        BY <1>1, <1>2, <1>7, <3>3 DEF WriteFits
      <4>3. q \notin raced \cup cut => Count(j.seen, x) = Count(history[j.id], x)
        BY <1>1, <1>7, <3>3 DEF Fresh
      <4> QED BY ONLY <2>1, <4>1, <4>2, <4>3, x \in BOOLEAN
    <3> QED BY <3>1, <3>2, <3>3
  <2>4. q \notin raced' => OneRow(q, history')
    <3> SUFFICES ASSUME q \notin raced' PROVE OneRow(q, history')
      OBVIOUS
    <3>1. OneRow(q, history) /\ q \notin raced
      BY <1>9, <2>2
    <3>2. CASE q # p
      BY <1>6, <3>1, <3>2 DEF OneRow
    <3>3. CASE q = p /\ j.seen = NoRow
      <4>1. RowsOf(history, p) = {}
        BY <1>1, <1>2, <1>7, <3>1, <3>3 DEF Fresh
      <4>2. RowsOf(history', q) = {n}
        BY <1>6, <3>3, <4>1
      <4> QED BY <4>2 DEF OneRow
    <3>4. CASE q = p /\ j.seen # NoRow
      BY <1>6, <3>1, <3>4 DEF OneRow
    <3> QED BY <3>2, <3>3, <3>4
  <2> QED BY <1>5, <1>9, <2>3, <2>4 DEF Counts, Complete
<1> QED BY ONLY <1>10, <1>12, <1>13, <1>14, Zenon DEF CountsInv


\* Every step keeps the history and what is on its way to it together.
LEMMA CountsStep ==
  ASSUME TypeOK, CountsInv, [Next]_vars
  PROVE  CountsInv'
<1>1. ASSUME UNCHANGED <<job, history, ended, raced, cut>> PROVE CountsInv'
  <2>1. job' = job /\ history' = history /\ ended' = ended /\ raced' = raced /\ cut' = cut
    BY <1>1
  <2>2. \A c \in Client : ModeFits(job'[c]) /\ WriteFits(job'[c], history', job', ended')
    BY <2>1 DEF CountsInv
  <2>3. \A c \in Client : job'[c].at = "write" /\ Head(job'[c].todo) \notin raced' => Fresh(job'[c], history')
    BY <2>1 DEF CountsInv
  <2>4. \A p \in Peer : /\ Counts(p, history', job', ended')
                        /\ p \notin raced' \cup cut' => Complete(p, history', job', ended')
                        /\ p \notin raced' => OneRow(p, history')
    BY <2>1 DEF CountsInv
  <2> QED BY ONLY <2>2, <2>3, <2>4, Zenon DEF CountsInv
<1>2. ASSUME NEW c \in Client, NEW p \in Peer, NEW mode \in Mode, SyncOne(c, p, mode) PROVE CountsInv'
  <2>1. Start(c, "one", mode, <<p>>, "send") /\ mode # "dry-run" /\ <<p>> \in Seq(Peer)
    BY <1>2 DEF SyncOne
  <2> QED BY <2>1, StartCounts
<1>3. ASSUME NEW c \in Client, NEW mode \in Mode, SyncAll(c, mode) PROVE CountsInv'
  BY <1>3, TargetsOnce, StartCounts DEF SyncAll
<1>4. ASSUME NEW c \in Client, DryRun(c) PROVE CountsInv'
  BY <1>4, PeerAssump, StartCounts DEF DryRun, Mode
<1>5. ASSUME NEW c \in Client, NEW pullOnly \in BOOLEAN, AppSync(c, pullOnly) PROVE CountsInv'
  BY <1>5, PeerAssump, StartCounts DEF AppSync, Mode
<1>6. ASSUME NEW r \in Request, RatingsSync(r) \/ RankPeer(r) \/ SortPeers(r) \/ PostRatings(r)
      PROVE  UNCHANGED <<job, history, ended, raced, cut>>
  BY <1>6 DEF RatingsSync, RankPeer, SortPeers, PostRatings, tables, client, ghosts
<1>7. CASE Recount
  BY <1>1, <1>7 DEF Recount, tables, client, ghosts
<1>8. CASE UNCHANGED vars
  BY <1>1, <1>8 DEF vars, tables, client, ghosts
<1> QED BY <1>1, <1>2, <1>3, <1>4, <1>5, <1>6, <1>7, <1>8,
           SendCounts, RecordCounts, ReadCounts, WriteCounts, KillCounts DEF Next

\* Where every peer has one row at most, the summary counts each peer once.
LEMMA PeersOnce ==
  ASSUME history \in Seq(Row), \A p \in Peer : OneRow(p, history)
  PROVE  Len(history) = Cardinality({p \in Peer : Seen(p) # {}})
<1> DEFINE P == {p \in Peer : Seen(p) # {}}
           f == [i \in 1..Len(history) |-> history[i].peer]
<1>1. Len(history) \in Nat /\ \A i \in 1..Len(history) : history[i].peer \in Peer
  <2>1. \A i \in 1..Len(history) : history[i] \in Row
    OBVIOUS
  <2> QED BY <2>1 DEF Row
<1>2. \A i \in 1..Len(history) : i \in Seen(history[i].peer)
  BY DEF Seen
<1>3. f \in [1..Len(history) -> P]
  BY <1>1, <1>2
<1>4. \A p \in P : \E i \in 1..Len(history) : f[i] = p
  BY DEF Seen
<1>5. \A i, k \in 1..Len(history) : f[i] = f[k] => i = k
  BY <1>1 DEF OneRow, RowsOf
<1> HIDE DEF P, f
<1>6. f \in Surjection(1..Len(history), P)
  BY <1>3, <1>4 DEF Surjection
<1>7. f \in Injection(1..Len(history), P)
  BY <1>3, <1>5 DEF Injection, IsInjective
<1>8. IsFiniteSet(1..Len(history)) /\ Cardinality(1..Len(history)) = Len(history)
  <2>1. \A n \in Nat : Cardinality(1..n) = n /\ IsFiniteSet(1..n)
    BY FS_Interval
  <2> QED BY <1>1, <2>1
<1>9. Cardinality(P) = Cardinality(1..Len(history))
  BY <1>6, <1>7, <1>8, FS_Surjection
<1> QED BY <1>8, <1>9 DEF P

\* A share of whole numbers is a percentage.
LEMMA Percentage ==
  ASSUME NEW s \in Nat, NEW n \in Nat, n # 0, NEW b \in Nat, s <= b * n
  PROVE  s \div n \in 0..b
<1> DEFINE d == s \div n
<1>1. d \in Int /\ n * d <= s /\ s < n * d + n
  OBVIOUS
<1> HIDE DEF d
<1>2. 0 <= d
  <2> SUFFICES ASSUME d <= -1 PROVE FALSE
    BY <1>1
  <2>1. n * d <= n * (-1)
    BY <1>1
  <2> QED BY <1>1, <2>1
<1>3. d <= b
  <2> SUFFICES ASSUME b + 1 <= d PROVE FALSE
    BY <1>1
  <2>1. n * (b + 1) <= n * d
    BY <1>1
  <2>2. n * (b + 1) = b * n + n
    OBVIOUS
  <2> QED BY <1>1, <2>1, <2>2
<1> QED BY <1>1, <1>2, <1>3 DEF d

\* The average that the summary shows is a percentage.
LEMMA SummaryInRange ==
  ASSUME history \in Seq(Row)
  PROVE  PeerSummary.success \in 0..100
<1> DEFINE share(row) == IF row.succ + row.fail = 0 THEN 0 ELSE (100 * row.succ) \div (row.succ + row.fail)
           f == [i \in DOMAIN history |-> share(history[i])]
           S == DOMAIN history
<1>1. PeerSummary.success = IF history = <<>> THEN 0 ELSE SumFunctionOnSet(f, S) \div Len(history)
  BY DEF PeerSummary, SumFunction
<1>2. Len(history) \in Nat /\ S = 1..Len(history)
  OBVIOUS
<1>3. IsFiniteSet(S) /\ Cardinality(S) = Len(history)
  <2>1. \A n \in Nat : Cardinality(1..n) = n /\ IsFiniteSet(1..n)
    BY FS_Interval
  <2> QED BY <1>2, <2>1
<1>4. ASSUME NEW i \in S PROVE f[i] \in 0..100
  <2>1. history[i] \in Row
    OBVIOUS
  <2>2. PICK s \in Nat, e \in Nat : s = history[i].succ /\ e = history[i].fail
    BY <2>1 DEF Row
  <2>3. s + e # 0 => (100 * s) \div (s + e) \in 0..100
    <3>1. 100 * s \in Nat /\ s + e \in Nat /\ 100 * s <= 100 * (s + e)
      OBVIOUS
    <3> QED BY <3>1, Percentage
  <2> QED BY <2>2, <2>3
<1> HIDE DEF f, S
<1>5. SumFunctionOnSet(f, S) \in 0..(100 * Len(history))
  BY <1>3, <1>4, SumBound
<1>6. history # <<>> => Len(history) # 0
  OBVIOUS
<1>7. history # <<>> => SumFunctionOnSet(f, S) \div Len(history) \in 0..100
  <2>1. SumFunctionOnSet(f, S) \in Nat /\ SumFunctionOnSet(f, S) <= 100 * Len(history)
    BY <1>2, <1>5
  <2> QED BY <1>2, <1>6, <2>1, Percentage
<1> QED BY <1>1, <1>7

\* However many processes run, the counters of peer_history never exceed the answered
\* attempts; those of a peer that two processes never wrote at a time and that no kill has
\* cut off are complete, and without a race the summary counts every peer once.
THEOREM HistoriesCount == Spec => []HistoryCounts
<1>1. Init => CountsInv
  <2> SUFFICES ASSUME Init PROVE CountsInv
    OBVIOUS
  <2>1. /\ history = <<>> /\ history \in Seq(Row) /\ DOMAIN history = {}
        /\ \A c \in Client : job[c] = NoJob
        /\ \A p \in Peer, x \in BOOLEAN : Tries(ended[p], x) = 0
    BY DEF Init, Tries
  <2>2. NoJob.at = "idle"
    BY DEF NoJob
  <2>3. \A c \in Client : job[c].at = "idle"
    BY <2>1, <2>2
  <2>4. ASSUME NEW p \in Peer, NEW x \in BOOLEAN
        PROVE  /\ RowsOf(history, p) = {} /\ Total(history, p, x) = 0
               /\ IsFiniteSet(Waiting(job, p, x)) /\ Cardinality(Waiting(job, p, x)) = 0
    <3>1. RowsOf(history, p) = {}
      BY <2>1 DEF RowsOf
    <3>2. Waiting(job, p, x) = {}
      BY <2>3 DEF Waiting, Dealing
    <3> QED BY <2>1, <3>1, <3>2, TotalFacts, FS_EmptySet
  <2>5. \A p \in Peer : Counts(p, history, job, ended) /\ Complete(p, history, job, ended)
    BY <2>1, <2>4 DEF Counts, Complete
  <2>6. \A p \in Peer : OneRow(p, history)
    BY <2>4 DEF OneRow
  <2>7. \A c \in Client : ModeFits(job[c]) /\ WriteFits(job[c], history, job, ended)
    BY <2>3 DEF ModeFits, WriteFits
  <2> QED BY <2>3, <2>5, <2>6, <2>7 DEF CountsInv
<1>2. TypeOK /\ CountsInv /\ [Next]_vars => CountsInv'
  BY CountsStep
<1>3. TypeOK /\ CountsInv => HistoryCounts
  <2> SUFFICES ASSUME TypeOK, CountsInv PROVE HistoryCounts
    OBVIOUS
  <2>1. history \in Seq(Row) /\ \A c \in Client : job[c].ok \in BOOLEAN
    BY DEF TypeOK, Job
  <2>2. raced = {} => PeerSummary.peers = Cardinality({p \in Peer : Seen(p) # {}})
    <3> SUFFICES ASSUME raced = {} PROVE Len(history) = Cardinality({p \in Peer : Seen(p) # {}})
      BY DEF PeerSummary
    <3>1. \A p \in Peer : OneRow(p, history)
      BY DEF CountsInv
    <3> QED BY <2>1, <3>1, PeersOnce
  <2>3. PeerSummary.success \in 0..100
    BY <2>1, SummaryInRange
  <2>4. ASSUME NEW p \in Peer, NEW x \in BOOLEAN
        PROVE  Pending(p, x) = Cardinality(Waiting(job, p, x))
    <3>1. \A c \in Client : (job[c].ok = x) <=> (job[c].ok <=> x)
      BY <2>1
    <3> QED BY <3>1 DEF Pending, Waiting, Dealing, Target
  <2>5. ASSUME NEW p \in Peer
        PROVE  /\ Successes(p) + Pending(p, TRUE) <= ended[p].ok
               /\ Failures(p) + Pending(p, FALSE) <= ended[p].failed
               /\ p \notin raced \cup cut =>
                    /\ Successes(p) + Pending(p, TRUE) = ended[p].ok
                    /\ Failures(p) + Pending(p, FALSE) = ended[p].failed
    <3>1. /\ Total(history, p, TRUE) + Cardinality(Waiting(job, p, TRUE)) <= ended[p].ok
          /\ Total(history, p, FALSE) + Cardinality(Waiting(job, p, FALSE)) <= ended[p].failed
      BY DEF CountsInv, Counts, Tries
    <3>2. p \notin raced \cup cut =>
            /\ Total(history, p, TRUE) + Cardinality(Waiting(job, p, TRUE)) = ended[p].ok
            /\ Total(history, p, FALSE) + Cardinality(Waiting(job, p, FALSE)) = ended[p].failed
      BY DEF CountsInv, Complete, Tries
    <3> QED BY <2>4, <3>1, <3>2, TotalsOfHistory
  <2> QED BY <2>2, <2>3, <2>5 DEF HistoryCounts
<1> QED BY <1>1, <1>2, <1>3, PeerTypeCorrect, PTL DEF Spec

=============================================================================
