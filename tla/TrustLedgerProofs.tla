--------------------------- MODULE TrustLedgerProofs ---------------------------
(***************************************************************************)
(* Proofs about TrustLedger, for any keys, events, batches and bounds.      *)
(***************************************************************************)
EXTENDS TrustLedger, FiniteSetTheorems, TLAPS

Rating  == [et : Nat, ef : Nat, val : Nat, reused : Nat, trust : Int, prio : Share]
Measure == [relay : Nat, quality : Share, prio : Share]
User    == [role : Role, trust : Int]

-----------------------------------------------------------------------------
(* The formulas.                                                              *)

\* There is something to divide.
LEMMA UnitPositive == Unit \in Nat /\ Unit > 0
  BY LedgerAssump

\* clamp keeps a number between its bounds.
LEMMA ClampBounds ==
  ASSUME NEW x \in Int, NEW low \in Int, NEW high \in Int, low <= high
  PROVE  Clamp(x, low, high) \in low..high
  BY DEF Clamp

\* A clamped number is a trust score.
LEMMA ClampTrust ==
  ASSUME NEW x \in Int
  PROVE  Clamp(x, -Unit, Unit) \in Trust /\ Clamp(x, -Unit, Unit) \in Int
  BY UnitPositive DEF Clamp, Trust

\* The larger of two numbers.
LEMMA MaxOfTwo ==
  ASSUME NEW a \in Nat, NEW b \in Nat
  PROVE  Max({a, b}) \in Nat /\ Max({a, b}) >= a /\ Max({a, b}) >= b
<1>1. \E x \in {a, b} : \A y \in {a, b} : x >= y
  <2>1. CASE a >= b
    BY <2>1
  <2>2. CASE b >= a
    BY <2>2
  <2> QED BY <2>1, <2>2
<1>2. Max({a, b}) \in {a, b} /\ \A y \in {a, b} : Max({a, b}) >= y
  BY <1>1 DEF Max
<1> QED BY <1>2

\* A blended trust is a trust, whatever a peer sends.
LEMMA BlendTrustBounds ==
  ASSUME NEW local \in Int, NEW remote \in Int
  PROVE  BlendTrust(local, remote) \in Trust
<1>1. (8 * local + 2 * remote) \div 10 \in Int
  OBVIOUS
<1> QED BY <1>1, UnitPositive, ClampBounds DEF BlendTrust, Trust

\* Blended quality and priority are between 0 and 1.
LEMMA BlendShareBounds ==
  ASSUME NEW local \in Int, NEW remote \in Int
  PROVE  BlendQuality(local, remote) \in Share /\ BlendPriority(local, remote) \in Share
<1>1. (8 * local + 2 * remote) \div 10 \in Int
  OBVIOUS
<1> QED BY <1>1, UnitPositive, ClampBounds DEF BlendQuality, BlendPriority, Share

\* A smoothed share is a share.
LEMMA SmoothedBounds ==
  ASSUME NEW raw \in Share, NEW prev, prev = NoRow \/ prev \in Int
  PROVE  Smoothed(raw, prev) \in Share
<1>1. CASE prev = NoRow
  BY <1>1 DEF Smoothed
<1>2. CASE prev # NoRow
  <2> DEFINE x == (3 * raw + 7 * prev) \div 10
  <2>1. x \in Int
    BY <1>2, UnitPositive DEF Share
  <2>2. Clamp(x, 0, Unit) \in Share
    <3> HIDE DEF x
    <3> QED BY <2>1, UnitPositive, ClampBounds DEF Share
  <2> QED BY <1>2, <2>2 DEF Smoothed
<1> QED BY <1>1, <1>2

\* The quality index is between 0 and 1.
LEMMA QualityIndexBounds ==
  ASSUME NEW relay \in Int, NEW free \in Int, NEW stable \in Int,
         NEW prev, prev = NoRow \/ prev \in Int
  PROVE  QualityIndex(relay, free, stable, prev) \in Share
<1>1. (5 * relay + 3 * free + 2 * stable) \div 10 \in Int
  OBVIOUS
<1>2. Clamp((5 * relay + 3 * free + 2 * stable) \div 10, 0, Unit) \in Share
  BY <1>1, UnitPositive, ClampBounds DEF Share
<1> QED BY <1>2, SmoothedBounds DEF QualityIndex

\* The propagation priority is between 0 and 1.
LEMMA PriorityBounds ==
  ASSUME NEW trust \in Int, NEW quality \in Int, NEW relay \in Int,
         NEW prev, prev = NoRow \/ prev \in Int
  PROVE  PropagationPriority(trust, quality, relay, prev) \in Share
<1> DEFINE norm == Clamp((trust + Unit) \div 2, 0, Unit)
           raw  == (4 * norm + 3 * Clamp(quality, 0, Unit) + 3 * Clamp(relay, 0, Unit)) \div 10
<1>1. norm \in Int
  <2>1. (trust + Unit) \div 2 \in Int
    BY UnitPositive
  <2> QED BY <2>1, UnitPositive, ClampBounds
<1>2. Clamp(quality, 0, Unit) \in Int /\ Clamp(relay, 0, Unit) \in Int
  BY UnitPositive, ClampBounds
<1>3. raw \in Int
  BY <1>1, <1>2
<1>4. Clamp(raw, 0, Unit) \in Share
  <2> HIDE DEF raw
  <2> QED BY <1>3, UnitPositive, ClampBounds DEF Share
<1> QED BY <1>4, SmoothedBounds DEF PropagationPriority

\* A recount makes rows of the table, whose trust may be out of range.
LEMMA CountedIsRating ==
  ASSUME NEW k \in Key, IsFiniteSet(votes)
  PROVE  Counted(k) \in Rating
<1>1. EventsTrue(k) \in Nat /\ EventsFalse(k) \in Nat /\ Reused(k) \in Nat
  BY LedgerAssump, FS_Subset, FS_CardinalityType DEF EventsTrue, EventsFalse, Reused
<1>2. Validations(k) \in Nat
  BY FS_Subset, FS_CardinalityType DEF Validations
<1>3. RawTrust(k) \in Int
  <2> DEFINE n == EventsTrue(k) + EventsFalse(k)
             x == Unit * (EventsTrue(k) - EventsFalse(k)) + (Unit \div 5) * Reused(k)
  <2>1. n \in Nat
    BY <1>1
  <2>2. x \in Int
    <3>1. Unit \div 5 \in Int
      BY UnitPositive
    <3> QED BY <1>1, <3>1, UnitPositive
  <2>3. n # 0 => x \div n \in Int
    <3> HIDE DEF n, x
    <3> QED BY <2>1, <2>2
  <2> QED BY <2>3 DEF RawTrust
<1> QED BY <1>1, <1>2, <1>3, UnitPositive DEF Counted, Rating, Share

\* So does the merge of a peer's ratings, with a trust that is in range.
LEMMA BlendedIsRating ==
  ASSUME NEW k \in Key, ratings[k] = NoRow \/ ratings[k] \in Rating, NEW remote,
         remote \in [et : Nat, ef : Nat, val : Nat, reused : Nat, trust : Int, prio : Int]
  PROVE  Blended(k, remote) \in Rating /\ Blended(k, remote).trust \in Trust
<1>1. CASE ratings[k] = NoRow
  <2>1. BlendTrust(0, remote.trust) \in Trust
    BY BlendTrustBounds
  <2>2. BlendTrust(0, remote.trust) \in Int
    BY <2>1, UnitPositive DEF Trust
  <2> QED BY <1>1, <2>1, <2>2, UnitPositive DEF Blended, Rating, Share
<1>2. CASE ratings[k] # NoRow
  <2>1. BlendTrust(ratings[k].trust, remote.trust) \in Trust
    BY <1>2, BlendTrustBounds DEF Rating
  <2>2. BlendTrust(ratings[k].trust, remote.trust) \in Int
    BY <2>1, UnitPositive DEF Trust
  <2>3. /\ Max({ratings[k].et, remote.et}) \in Nat /\ Max({ratings[k].ef, remote.ef}) \in Nat
        /\ Max({ratings[k].val, remote.val}) \in Nat
        /\ Max({ratings[k].reused, remote.reused}) \in Nat
    BY <1>2, MaxOfTwo DEF Rating
  <2> QED BY <1>2, <2>1, <2>2, <2>3 DEF Blended, Rating
<1> QED BY <1>1, <1>2

\* A merged row of node_metrics is a row of node_metrics.
LEMMA MergedIsMeasure ==
  ASSUME NEW k \in Key, metrics[k] = NoRow \/ metrics[k] \in Measure, NEW r,
         r \in [et : Nat, ef : Nat, val : Nat, reused : Nat, trust : Int, prio : Int]
  PROVE  MergedMetric(k, r) \in Measure
<1> DEFINE judged   == r.et + r.ef
           most     == Max({judged, 1})
           relay    == IF r.val > 0 THEN (Unit * r.val) \div most ELSE 0
           peaceful == IF judged > 0 THEN (Unit * r.et) \div judged ELSE Unit
           prevQ    == IF metrics[k] = NoRow THEN NoRow ELSE metrics[k].quality
           prevP    == IF metrics[k] = NoRow THEN NoRow ELSE metrics[k].prio
           quality  == QualityIndex(Clamp(relay, 0, Unit), peaceful, Unit, prevQ)
<1>1. judged \in Nat /\ r.val \in Nat /\ r.et \in Nat /\ r.trust \in Int
  OBVIOUS
<1>2. most \in Nat /\ most >= 1
  BY <1>1, MaxOfTwo
<1>3. Unit * r.val \in Nat /\ Unit * r.et \in Nat
  BY <1>1, UnitPositive
<1>4. relay \in Nat
  <2> HIDE DEF most
  <2> QED BY <1>2, <1>3
<1>5. peaceful \in Int
  <2> HIDE DEF judged
  <2> QED BY <1>1, <1>3, UnitPositive
<1>6. /\ prevQ = NoRow \/ prevQ \in Int
      /\ prevP = NoRow \/ prevP \in Int
  BY UnitPositive DEF Measure, Share
<1>7. Clamp(relay, 0, Unit) \in Int
  <2> HIDE DEF relay
  <2> QED BY <1>4, UnitPositive, ClampBounds
<1>8. quality \in Share
  <2> HIDE DEF relay, peaceful, prevQ
  <2> QED BY <1>5, <1>6, <1>7, UnitPositive, QualityIndexBounds
<1>9. PropagationPriority(r.trust, quality, relay, prevP) \in Share
  <2> HIDE DEF relay, quality, prevP
  <2>1. quality \in Int
    BY <1>8, UnitPositive DEF Share
  <2> QED BY <1>1, <1>4, <1>6, <2>1, PriorityBounds
<1>10. MergedMetric(k, r) = [relay |-> relay, quality |-> quality,
                             prio |-> PropagationPriority(r.trust, quality, relay, prevP)]
  BY DEF MergedMetric
<1> QED BY <1>4, <1>8, <1>9, <1>10 DEF Measure

\* The row of a node, or the default for one without.
LEMMA MetricIsMeasure ==
  ASSUME NEW k \in Key, metrics[k] = NoRow \/ metrics[k] \in Measure
  PROVE  Metric(k) \in Measure
  BY UnitPositive DEF Metric, Measure, Share

\* A recomputed priority is between 0 and 1.
LEMMA NextPriorityIsShare ==
  ASSUME NEW k \in Key, metrics[k] = NoRow \/ metrics[k] \in Measure, ratings[k] \in Rating
  PROVE  NextPriority(k) \in Share
<1>1. /\ Metric(k).quality \in Int /\ Metric(k).relay \in Int
      /\ ratings[k].trust \in Int /\ ratings[k].prio \in Int
  BY MetricIsMeasure, UnitPositive DEF Measure, Rating, Share
<1> QED BY <1>1, PriorityBounds DEF NextPriority

-----------------------------------------------------------------------------
(* Calls.                                                                     *)

Step == {"delete", "insert", "clamp", "refresh", "group", "mirror", "propagate", "newerGroup",
         "metrics", "blend", "progress"}

FromPeer == {"propagate", "newerGroup", "metrics", "blend"}

\* What is left of a call: an insert is followed by the clamp, and what takes rows of a
\* peer has them.
Plan(todo, batch) ==
    /\ todo \in Seq(Step)
    /\ \A i \in 1..Len(todo) : todo[i] = "insert" => i < Len(todo) /\ todo[i + 1] = "clamp"
    /\ \A i \in 1..Len(todo) : todo[i] \in FromPeer => batch \in Batch

\* The statements of each kind of call.
PlanOf(kind) ==
    IF kind = "recount" THEN Recount
    ELSE IF kind = "metrics" THEN <<"progress">> \o Recount ELSE Reconcile

\* What is left of a call is the end of its plan.
EndOfPlan(kind, todo) ==
    /\ Len(todo) <= Len(PlanOf(kind))
    /\ \A i \in 1..Len(todo) : todo[i] = PlanOf(kind)[Len(PlanOf(kind)) - Len(todo) + i]

\* How many statements of the recount are left: the insert is the fifth from its end and
\* the mirror the first, a blend comes after it, and what is ahead of the insert has 6 or more.
LeftOf(kind, todo) == Len(todo) - (IF kind = "reconcile" THEN 1 ELSE 0)

\* What is left of a plan after its first statement is a plan.
LEMMA PlanTail ==
  ASSUME NEW todo, NEW batch, Plan(todo, batch), todo # <<>>
  PROVE  /\ Plan(Tail(todo), batch)
         /\ Head(todo) = "insert" => Tail(todo) # <<>> /\ Head(Tail(todo)) = "clamp"
         /\ Head(todo) \in FromPeer => batch \in Batch
<1>1. /\ todo \in Seq(Step) /\ Len(todo) \in Nat /\ Len(todo) >= 1 /\ Head(todo) = todo[1]
      /\ Tail(todo) \in Seq(Step) /\ Len(Tail(todo)) = Len(todo) - 1
      /\ \A i \in 1..Len(Tail(todo)) : Tail(todo)[i] = todo[i + 1]
  BY DEF Plan
<1>2. \A i \in 1..Len(Tail(todo)) : Tail(todo)[i] = "insert" =>
          i < Len(Tail(todo)) /\ Tail(todo)[i + 1] = "clamp"
  <2> SUFFICES ASSUME NEW i \in 1..Len(Tail(todo)), Tail(todo)[i] = "insert"
               PROVE  i < Len(Tail(todo)) /\ Tail(todo)[i + 1] = "clamp"
    OBVIOUS
  <2>1. i + 1 \in 1..Len(todo) /\ todo[i + 1] = "insert"
    BY <1>1
  <2>2. i + 1 < Len(todo) /\ todo[i + 2] = "clamp"
    BY <2>1 DEF Plan
  <2> QED BY <1>1, <2>2
<1>3. \A i \in 1..Len(Tail(todo)) : Tail(todo)[i] \in FromPeer => batch \in Batch
  <2> SUFFICES ASSUME NEW i \in 1..Len(Tail(todo)), Tail(todo)[i] \in FromPeer
               PROVE  batch \in Batch
    OBVIOUS
  <2>1. i + 1 \in 1..Len(todo) /\ todo[i + 1] \in FromPeer
    BY <1>1
  <2> QED BY <2>1 DEF Plan
<1>4. Head(todo) = "insert" => Tail(todo) # <<>> /\ Head(Tail(todo)) = "clamp"
  <2> SUFFICES ASSUME Head(todo) = "insert" PROVE Tail(todo) # <<>> /\ Head(Tail(todo)) = "clamp"
    OBVIOUS
  <2>1. 1 < Len(todo) /\ todo[2] = "clamp"
    BY <1>1 DEF Plan
  <2> QED BY <1>1, <2>1
<1>5. Head(todo) \in FromPeer => batch \in Batch
  BY <1>1 DEF Plan
<1> QED BY <1>1, <1>2, <1>3, <1>4, <1>5 DEF Plan

\* One plan after another is a plan.
LEMMA PlanConcat ==
  ASSUME NEW first, NEW second, NEW batch, Plan(first, batch), Plan(second, batch)
  PROVE  Plan(first \o second, batch)
<1> DEFINE both == first \o second
<1>1. /\ first \in Seq(Step) /\ second \in Seq(Step) /\ both \in Seq(Step)
      /\ Len(first) \in Nat /\ Len(second) \in Nat /\ Len(both) = Len(first) + Len(second)
      /\ \A i \in 1..Len(both) : both[i] = IF i <= Len(first) THEN first[i]
                                           ELSE second[i - Len(first)]
  BY DEF Plan
<1> HIDE DEF both
<1>2. ASSUME NEW i \in 1..Len(both), both[i] = "insert"
      PROVE  i < Len(both) /\ both[i + 1] = "clamp"
  <2>1. CASE i <= Len(first)
    <3>1. i \in 1..Len(first) /\ first[i] = "insert"
      BY <1>1, <1>2, <2>1
    <3>2. i < Len(first) /\ first[i + 1] = "clamp"
      BY <3>1 DEF Plan
    <3> QED BY <1>1, <3>2
  <2>2. CASE i > Len(first)
    <3>1. i - Len(first) \in 1..Len(second) /\ second[i - Len(first)] = "insert"
      BY <1>1, <1>2, <2>2
    <3>2. i - Len(first) < Len(second) /\ second[i - Len(first) + 1] = "clamp"
      BY <3>1 DEF Plan
    <3> QED BY <1>1, <2>2, <3>2
  <2> QED BY <1>1, <2>1, <2>2
<1>3. ASSUME NEW i \in 1..Len(both), both[i] \in FromPeer PROVE batch \in Batch
  <2>1. CASE i <= Len(first)
    BY <1>1, <1>3, <2>1 DEF Plan
  <2>2. CASE i > Len(first)
    <3>1. i - Len(first) \in 1..Len(second) /\ second[i - Len(first)] \in FromPeer
      BY <1>1, <1>3, <2>2
    <3> QED BY <3>1 DEF Plan
  <2> QED BY <1>1, <2>1, <2>2
<1>4. Plan(both, batch)
  BY <1>1, <1>2, <1>3 DEF Plan
<1> QED BY <1>4 DEF both

\* A recount is a plan.
LEMMA RecountPlan == \A batch : Plan(Recount, batch) /\ Plan(<<"progress">> \o Recount, batch)
<1> SUFFICES ASSUME NEW batch PROVE Plan(Recount, batch) /\ Plan(<<"progress">> \o Recount, batch)
  OBVIOUS
<1>1. Plan(<<"progress">>, batch)
  BY DEF Plan, Step, FromPeer
<1>2. Plan(Recount, batch)
  <2>1. /\ Recount \in Seq(Step) /\ Len(Recount) = 6
        /\ Recount[1] = "delete" /\ Recount[2] = "insert" /\ Recount[3] = "clamp"
        /\ Recount[4] = "refresh" /\ Recount[5] = "group" /\ Recount[6] = "mirror"
    BY DEF Recount, Step
  <2>2. \A i \in 1..6 : i = 1 \/ i = 2 \/ i = 3 \/ i = 4 \/ i = 5 \/ i = 6
    OBVIOUS
  <2> QED BY <2>1, <2>2 DEF Plan, FromPeer
<1> QED BY <1>1, <1>2, PlanConcat

\* A reconcile is a plan.
LEMMA ReconcilePlan == \A batch \in Batch : Plan(Reconcile, batch)
<1> SUFFICES ASSUME NEW batch \in Batch PROVE Plan(Reconcile, batch)
  OBVIOUS
<1>1. Plan(Merge, batch)
  <2>1. /\ Merge \in Seq(Step) /\ Len(Merge) = 5
        /\ Merge[1] = "propagate" /\ Merge[2] = "refresh" /\ Merge[3] = "newerGroup"
        /\ Merge[4] = "mirror" /\ Merge[5] = "metrics"
    BY DEF Merge, Step
  <2>2. \A i \in 1..5 : i = 1 \/ i = 2 \/ i = 3 \/ i = 4 \/ i = 5
    OBVIOUS
  <2> QED BY <2>1, <2>2 DEF Plan
<1>2. Plan(<<"blend">>, batch)
  BY DEF Plan, Step
<1> QED BY <1>1, <1>2, RecountPlan, PlanConcat DEF Reconcile

\* Nothing left to do is a plan.
LEMMA EmptyPlan == \A batch : Plan(<<>>, batch)
  BY DEF Plan

-----------------------------------------------------------------------------
(* The sorts.                                                                 *)

Job == [kind : {"none", "recount", "metrics", "reconcile"}, todo : Seq(Step),
        batch : Batch \cup {NoRow}, answer : {"none", "ok", "error"}]

RowSorts ==
    /\ author \in [EventId -> Key \cup {Unsigned, NoRow}]
    /\ score \in [EventId -> Average \cup {NoRow}]
    /\ votes \subseteq Vote

TableSorts ==
    /\ ratings \in [Key -> Rating \cup {NoRow}]
    /\ group # NoRow => group.row.members \subseteq Key /\ group.ts \in Nat
    /\ metrics \in [Key -> Measure \cup {NoRow}]
    /\ users \in [Key -> User \cup {NoRow}]

JobSorts ==
    /\ job \in [Process -> Job]
    /\ \A p \in Process : Plan(job[p].todo, job[p].batch)

Sorts ==
    /\ RowSorts /\ TableSorts /\ JobSorts
    /\ spent \in [calls : Nat, edits : Nat]
    /\ alone \in BOOLEAN /\ faulty \in BOOLEAN

\* A process with nothing to do.
LEMMA IdleIsJob == IdleJob \in Job /\ [IdleJob EXCEPT !.answer = "ok"] \in Job
                   /\ [IdleJob EXCEPT !.answer = "error"] \in Job
<1>1. IdleJob \in Job
  <2>1. <<>> \in Seq(Step)
    OBVIOUS
  <2> QED BY <2>1 DEF IdleJob, Job
<1> QED BY <1>1 DEF Job

\* What a statement does to the job it belongs to.
LEMMA StatementEnds ==
  ASSUME JobSorts, NEW p \in Process, ~Idle(p), Advance(p) \/ Abort(p)
  PROVE  /\ JobSorts'
         /\ \A q \in Process \ {p} : job'[q] = job[q]
<1>1. /\ job[p] \in Job /\ Plan(job[p].todo, job[p].batch) /\ job[p].todo # <<>>
      /\ \A q \in Process \ {p} : job'[q] = job[q]
  BY DEF JobSorts, Idle, Advance, Abort
<1>2. Plan(Tail(job[p].todo), job[p].batch)
  BY <1>1, PlanTail
<1>3. \/ job' = [job EXCEPT ![p] = [IdleJob EXCEPT !.answer = "ok"]]
      \/ job' = [job EXCEPT ![p] = [IdleJob EXCEPT !.answer = "error"]]
      \/ job' = [job EXCEPT ![p] = [job[p] EXCEPT !.todo = Tail(@)]]
  BY DEF Advance, Abort
<1>4. [job[p] EXCEPT !.todo = Tail(@)] \in Job
  BY <1>1 DEF Job
<1>5. \/ job'[p].todo = <<>>
      \/ job'[p].todo = Tail(job[p].todo) /\ job'[p].batch = job[p].batch
  <2>1. \/ job'[p] = [IdleJob EXCEPT !.answer = "ok"]
        \/ job'[p] = [IdleJob EXCEPT !.answer = "error"]
        \/ job'[p] = [job[p] EXCEPT !.todo = Tail(@)]
    BY <1>3 DEF JobSorts
  <2>2. /\ [IdleJob EXCEPT !.answer = "ok"].todo = <<>>
        /\ [IdleJob EXCEPT !.answer = "error"].todo = <<>>
    BY DEF IdleJob
  <2>3. LET next == [job[p] EXCEPT !.todo = Tail(@)]
        IN  next.todo = Tail(job[p].todo) /\ next.batch = job[p].batch
    BY <1>1 DEF Job
  <2> QED BY <2>1, <2>2, <2>3
<1>6. job' \in [Process -> Job]
  BY <1>3, <1>4, IdleIsJob DEF JobSorts
<1>7. Plan(job'[p].todo, job'[p].batch)
  BY <1>2, <1>5, EmptyPlan
<1> QED BY <1>1, <1>6, <1>7 DEF JobSorts

\* A call is begun with a plan.
LEMMA CallsArePlanned ==
  ASSUME \/ DetectEvent \/ RecalcRatings \/ RecalcMetrics \/ GetNodeRatings \/ GetGroupRatings
         \/ RunRatings \/ \E p \in Process : \E b \in Batch : ReconcileRatings(p, b)
  PROVE  \E p \in Process : \E kind \in {"recount", "metrics", "reconcile"} :
         \E batch \in Batch \cup {NoRow} : \E steps :
             Begin(p, kind, steps, batch) /\ Plan(steps, batch) /\ steps = PlanOf(kind)
<1>1. CASE \/ DetectEvent \/ RecalcRatings \/ GetNodeRatings \/ GetGroupRatings \/ RunRatings
  <2>1. \E p \in Process : Begin(p, "recount", Recount, NoRow)
    BY <1>1 DEF DetectEvent, RecalcRatings, GetNodeRatings, GetGroupRatings, RunRatings
  <2> QED BY <2>1, RecountPlan DEF PlanOf
<1>2. CASE RecalcMetrics
  <2>1. \E p \in Process : Begin(p, "metrics", <<"progress">> \o Recount, NoRow)
    BY <1>2 DEF RecalcMetrics
  <2> QED BY <2>1, RecountPlan DEF PlanOf
<1>3. CASE \E p \in Process : \E b \in Batch : ReconcileRatings(p, b)
  <2>1. \E p \in Process : \E b \in Batch : Begin(p, "reconcile", Reconcile, b)
    BY <1>3 DEF ReconcileRatings
  <2> QED BY <2>1, ReconcilePlan DEF PlanOf
<1> QED BY <1>1, <1>2, <1>3

\* The steps there are.
LEMMA Steps ==
  ASSUME [Next]_vars
  PROVE  \/ UNCHANGED vars
         \/ \E p \in Process : \E kind \in {"recount", "metrics", "reconcile"} :
            \E batch \in Batch \cup {NoRow} : \E steps :
                Begin(p, kind, steps, batch) /\ Plan(steps, batch) /\ steps = PlanOf(kind)
         \/ \E p \in Process : Statement(p) \/ Kill(p)
         \/ \E k \in Key : \E role \in Role : UsersRole(k, role)
         \/ \E by, k \in Key : \E d \in Delta : TrustDelegate(by, k, d)
         \/ \E e \in EventId : \E k \in Key \cup {Unsigned} : AddEvent(e, k)
         \/ \E e \in EventId : \E avg \in Average : ScoreEvent(e, avg)
         \/ \E v \in Vote : AddImpact(v)
<1>1. CASE \/ DetectEvent \/ RecalcRatings \/ RecalcMetrics \/ GetNodeRatings \/ GetGroupRatings
           \/ RunRatings \/ \E p \in Process : \E b \in Batch : ReconcileRatings(p, b)
  BY <1>1, CallsArePlanned
<1>2. CASE ~(\/ DetectEvent \/ RecalcRatings \/ RecalcMetrics \/ GetNodeRatings \/ GetGroupRatings
             \/ RunRatings \/ \E p \in Process : \E b \in Batch : ReconcileRatings(p, b))
  BY <1>2 DEF Next
<1> QED BY <1>1, <1>2

\* Every statement keeps the tables' sorts.
LEMMA StatementTables ==
  ASSUME Sorts, NEW p \in Process, Statement(p)
  PROVE  TableSorts'
<1>1. IsFiniteSet(votes)
  BY VotesFinite, FS_Subset DEF Sorts, RowSorts
<1>2. /\ \A k \in Key : ratings[k] = NoRow \/ ratings[k] \in Rating
      /\ \A k \in Key : metrics[k] = NoRow \/ metrics[k] \in Measure
  BY DEF Sorts, TableSorts
<1>3. /\ job[p] \in Job /\ Plan(job[p].todo, job[p].batch) /\ spent.calls \in Nat
  BY DEF Sorts, JobSorts
<1>4. \A step \in FromPeer : At(p, step) => job[p].batch \in Batch
  BY <1>3, PlanTail DEF At, Idle
<1>5. CASE Delete(p)
  BY <1>5 DEF Delete, Sorts, TableSorts
<1>6. CASE Insert(p)
  <2>1. \A k \in Key : Counted(k) \in Rating
    BY <1>1, CountedIsRating
  <2> QED BY <1>6, <2>1 DEF Insert, Sorts, TableSorts
<1>7. CASE ClampScores(p)
  <2>1. \A k \in Key : ratings[k] # NoRow => [ratings[k] EXCEPT !.trust = Clamp(@, -Unit, Unit)] \in Rating
    <3> SUFFICES ASSUME NEW k \in Key, ratings[k] # NoRow
                 PROVE  [ratings[k] EXCEPT !.trust = Clamp(@, -Unit, Unit)] \in Rating
      OBVIOUS
    <3>1. ratings[k].trust \in Int
      BY <1>2 DEF Rating
    <3>2. Clamp(ratings[k].trust, -Unit, Unit) \in Int
      BY <3>1, ClampTrust
    <3> QED BY <1>2, <3>2 DEF Rating
  <2> QED BY <1>7, <2>1 DEF ClampScores, Sorts, TableSorts
<1>8. CASE RefreshPriority(p)
  <2>1. ASSUME NEW k \in Key, ratings[k] # NoRow
        PROVE  /\ [ratings[k] EXCEPT !.prio = NextPriority(k)] \in Rating
               /\ [Metric(k) EXCEPT !.prio = NextPriority(k)] \in Measure
    <3>1. NextPriority(k) \in Share /\ Metric(k) \in Measure /\ ratings[k] \in Rating
      BY <1>2, <2>1, NextPriorityIsShare, MetricIsMeasure
    <3> QED BY <3>1 DEF Rating, Measure
  <2>2. ratings' \in [Key -> Rating \cup {NoRow}]
    BY <1>8, <2>1 DEF RefreshPriority
  <2>3. metrics' \in [Key -> Measure \cup {NoRow}]
    BY <1>2, <1>8, <2>1 DEF RefreshPriority
  <2> QED BY <1>8, <2>2, <2>3 DEF RefreshPriority, Sorts, TableSorts
<1>9. CASE UpdateGroup(p)
  <2>1. UNCHANGED group \/ group' = [row |-> Summary, ts |-> Now]
    BY <1>9 DEF UpdateGroup
  <2>2. Summary.members \subseteq Key /\ Now \in Nat
    BY <1>3 DEF Summary, Rows, Now
  <2>3. group' # NoRow => group'.row.members \subseteq Key /\ group'.ts \in Nat
    BY <2>1, <2>2 DEF Sorts, TableSorts
  <2> QED BY <1>9, <2>3 DEF UpdateGroup, Sorts, TableSorts
<1>10. CASE MirrorUsers(p)
  <2>1. \A k \in Key : ratings[k] # NoRow => Mirrored(k) \in User
    BY <1>2, LedgerAssump DEF Mirrored, User, Rating, Sorts, TableSorts
  <2> QED BY <1>10, <2>1 DEF MirrorUsers, Sorts, TableSorts
<1>11. CASE Propagate(p)
  <2> DEFINE remote == job[p].batch.ratings
  <2>1. \A k \in Key : k \in DOMAIN remote => Blended(k, remote[k]) \in Rating
    BY <1>2, <1>4, <1>11, BatchAssump, BlendedIsRating DEF Propagate, FromPeer
  <2> QED BY <1>11, <2>1 DEF Propagate, Sorts, TableSorts
<1>12. CASE NewerGroup(p)
  <2> DEFINE remote == job[p].batch.group
  <2>1. remote # NoRow => remote.row.members \subseteq Key /\ remote.ts \in Nat
    BY <1>4, <1>12, BatchAssump DEF NewerGroup, FromPeer
  <2>2. UNCHANGED group \/ group' = remote
    BY <1>12 DEF NewerGroup
  <2>3. group' # NoRow => group'.row.members \subseteq Key /\ group'.ts \in Nat
    BY <2>1, <2>2 DEF Sorts, TableSorts
  <2> QED BY <1>12, <2>3 DEF NewerGroup, Sorts, TableSorts
<1>13. CASE MergeMetrics(p)
  <2> DEFINE remote == job[p].batch.ratings
  <2>1. \A k \in Key : k \in DOMAIN remote => MergedMetric(k, remote[k]) \in Measure
    BY <1>2, <1>4, <1>13, BatchAssump, MergedIsMeasure DEF MergeMetrics, FromPeer
  <2> QED BY <1>13, <2>1 DEF MergeMetrics, Sorts, TableSorts
<1>14. CASE BlendMetrics(p)
  <2> DEFINE remote  == job[p].batch.metrics
             prio(k) == BlendPriority(Metric(k).prio, remote[k].prio)
             qual(k) == BlendQuality(Metric(k).quality, remote[k].quality)
  <2>1. ASSUME NEW k \in Key, k \in DOMAIN remote
        PROVE  prio(k) \in Share /\ qual(k) \in Share /\ Metric(k).relay \in Nat
    <3>1. Metric(k) \in Measure /\ remote[k] \in [quality : Int, prio : Int]
      BY <1>2, <1>4, <1>14, <2>1, BatchAssump, MetricIsMeasure DEF BlendMetrics, FromPeer
    <3>2. Metric(k).prio \in Int /\ Metric(k).quality \in Int /\ Metric(k).relay \in Nat
      BY <3>1, UnitPositive DEF Measure, Share
    <3> QED BY <3>1, <3>2, BlendShareBounds
  <2>2. /\ metrics' = [k \in Key |-> IF k \notin DOMAIN remote THEN metrics[k]
                                     ELSE [relay |-> Metric(k).relay, prio |-> prio(k),
                                           quality |-> qual(k)]]
        /\ ratings' = [k \in Key |-> IF k \notin DOMAIN remote \/ ratings[k] = NoRow THEN ratings[k]
                                     ELSE [ratings[k] EXCEPT !.prio = prio(k)]]
        /\ UNCHANGED <<group, users>>
    BY <1>14 DEF BlendMetrics
  <2>3. metrics' \in [Key -> Measure \cup {NoRow}]
    <3> HIDE DEF remote, prio, qual
    <3> QED BY <1>2, <2>1, <2>2 DEF Measure
  <2>4. \A k \in Key : k \in DOMAIN remote /\ ratings[k] # NoRow =>
            [ratings[k] EXCEPT !.prio = prio(k)] \in Rating
    <3> HIDE DEF remote, prio, qual
    <3> QED BY <1>2, <2>1 DEF Rating
  <2>5. ratings' \in [Key -> Rating \cup {NoRow}]
    <3> HIDE DEF remote, prio, qual
    <3> QED BY <1>2, <2>2, <2>4
  <2> QED BY <2>2, <2>3, <2>5 DEF Sorts, TableSorts
<1>15. CASE ProgressRow(p)
  BY <1>15 DEF ProgressRow, Sorts, TableSorts
<1> QED BY <1>5, <1>6, <1>7, <1>8, <1>9, <1>10, <1>11, <1>12, <1>13, <1>14, <1>15 DEF Statement

\* Each statement is one of a call, and the call goes on or ends.
LEMMA StatementOfCall ==
  ASSUME NEW p \in Process, Statement(p)
  PROVE  ~Idle(p) /\ (Advance(p) \/ Abort(p)) /\ UNCHANGED <<rows, spent, alone, faulty>>
  BY DEF Statement, At, Delete, Insert, ClampScores, RefreshPriority, UpdateGroup, MirrorUsers,
      Propagate, NewerGroup, MergeMetrics, BlendMetrics, ProgressRow

\* A delegation leaves a user with a trust that is in range.
LEMMA DelegationIsUser ==
  ASSUME TableSorts, NEW k \in Key, NEW d \in Delta
  PROVE  /\ AdjustedTrust(k, d) \in User /\ AdjustedTrust(k, d).trust \in Trust
         /\ users[k] # NoRow => AdjustedTrust(k, d) =
                [role |-> users[k].role, trust |-> Clamp(users[k].trust + d, -Unit, Unit)]
<1> DEFINE old == IF users[k] = NoRow THEN [role |-> "observer", trust |-> 0] ELSE users[k]
           new == Clamp(old.trust + d, -Unit, Unit)
<1>1. old \in User /\ d \in Int
  BY LedgerAssump DEF TableSorts, User
<1>2. AdjustedTrust(k, d) = [old EXCEPT !.trust = new]
  BY DEF AdjustedTrust
<1>3. new \in Trust /\ new \in Int
  <2> HIDE DEF old
  <2>1. old.trust + d \in Int
    BY <1>1 DEF User
  <2> QED BY <2>1, ClampTrust
<1>4. AdjustedTrust(k, d) = [role |-> old.role, trust |-> new]
  <2> HIDE DEF old, new
  <2> QED BY <1>1, <1>2 DEF User
<1>5. old.role \in Role
  <2> HIDE DEF old
  <2> QED BY <1>1 DEF User
<1>6. AdjustedTrust(k, d) \in User /\ AdjustedTrust(k, d).trust \in Trust
  <2> HIDE DEF old, new
  <2> QED BY <1>3, <1>4, <1>5 DEF User
<1>7. users[k] # NoRow => old = users[k]
  OBVIOUS
<1> QED BY <1>4, <1>6, <1>7

\* Every step keeps the sorts.
LEMMA SortsStep == ASSUME Sorts, [Next]_vars PROVE Sorts'
<1>1. CASE UNCHANGED vars
  BY <1>1 DEF Sorts, RowSorts, TableSorts, JobSorts, vars, rows, tables
<1>2. ASSUME NEW p \in Process, NEW kind \in {"recount", "metrics", "reconcile"},
             NEW batch \in Batch \cup {NoRow}, NEW steps, Begin(p, kind, steps, batch),
             Plan(steps, batch)
      PROVE  Sorts'
  <2> DEFINE new == [kind |-> kind, todo |-> steps, batch |-> batch, answer |-> "none"]
  <2>1. new \in Job
    BY <1>2 DEF Job, Plan
  <2>2. job' = [job EXCEPT ![p] = new] /\ UNCHANGED <<rows, tables>>
    BY <1>2 DEF Begin
  <2>3. JobSorts'
    <3>1. job' \in [Process -> Job]
      BY <2>1, <2>2 DEF Sorts, JobSorts
    <3>2. \A q \in Process : Plan(job'[q].todo, job'[q].batch)
      BY <1>2, <2>2 DEF Sorts, JobSorts
    <3> QED BY <3>1, <3>2 DEF JobSorts
  <2>4. spent' \in [calls : Nat, edits : Nat] /\ alone' \in BOOLEAN /\ faulty' \in BOOLEAN
    BY <1>2 DEF Begin, Overlap, Sorts
  <2> QED BY <2>2, <2>3, <2>4 DEF Sorts, RowSorts, TableSorts, rows, tables
<1>3. ASSUME NEW p \in Process, Statement(p) PROVE Sorts'
  <2>1. ~Idle(p) /\ (Advance(p) \/ Abort(p)) /\ UNCHANGED <<rows, spent, alone, faulty>>
    BY <1>3, StatementOfCall
  <2>2. JobSorts'
    BY <2>1, StatementEnds DEF Sorts
  <2>3. TableSorts'
    BY <1>3, StatementTables
  <2> QED BY <2>1, <2>2, <2>3 DEF Sorts, RowSorts, rows
<1>4. ASSUME NEW p \in Process, Kill(p) PROVE Sorts'
  <2>1. job' = [job EXCEPT ![p] = IdleJob] /\ faulty' = TRUE /\ UNCHANGED <<rows, tables, spent, alone>>
    BY <1>4 DEF Kill
  <2>2. job' \in [Process -> Job]
    BY <2>1, IdleIsJob DEF Sorts, JobSorts
  <2>3. \A q \in Process : Plan(job'[q].todo, job'[q].batch)
    BY <2>1, EmptyPlan DEF Sorts, JobSorts, IdleJob
  <2> QED BY <2>1, <2>2, <2>3 DEF Sorts, RowSorts, TableSorts, JobSorts, rows, tables
<1>5. ASSUME Handler PROVE /\ JobSorts' /\ spent' \in [calls : Nat, edits : Nat]
                           /\ alone' \in BOOLEAN /\ faulty' \in BOOLEAN
  BY <1>5 DEF Handler, Sorts, JobSorts, Busy
<1>6. ASSUME NEW k \in Key, NEW role \in Role, UsersRole(k, role) PROVE Sorts'
  <2>1. users' \in [Key -> User \cup {NoRow}]
    BY <1>6 DEF UsersRole, Sorts, TableSorts, User
  <2> QED BY <1>5, <1>6, <2>1 DEF UsersRole, Sorts, RowSorts, TableSorts, rows
<1>7. ASSUME NEW by \in Key, NEW k \in Key, NEW d \in Delta, TrustDelegate(by, k, d) PROVE Sorts'
  <2>1. users' = [users EXCEPT ![k] = AdjustedTrust(k, d)]
    BY <1>7 DEF TrustDelegate
  <2>2. users' \in [Key -> User \cup {NoRow}]
    BY <2>1, DelegationIsUser DEF Sorts, TableSorts
  <2> QED BY <1>5, <1>7, <2>2 DEF TrustDelegate, Sorts, RowSorts, TableSorts, rows
<1>8. ASSUME NEW e \in EventId, NEW k \in Key \cup {Unsigned}, AddEvent(e, k) PROVE Sorts'
  <2>1. author' \in [EventId -> Key \cup {Unsigned, NoRow}]
    BY <1>8 DEF AddEvent, Sorts, RowSorts
  <2> QED BY <1>5, <1>8, <2>1 DEF AddEvent, Sorts, RowSorts, TableSorts, tables
<1>9. ASSUME NEW e \in EventId, NEW avg \in Average, ScoreEvent(e, avg) PROVE Sorts'
  <2>1. score' \in [EventId -> Average \cup {NoRow}]
    BY <1>9 DEF ScoreEvent, Sorts, RowSorts
  <2> QED BY <1>5, <1>9, <2>1 DEF ScoreEvent, Sorts, RowSorts, TableSorts, tables
<1>10. ASSUME NEW v \in Vote, AddImpact(v) PROVE Sorts'
  BY <1>5, <1>10 DEF AddImpact, Sorts, RowSorts, TableSorts, tables
<1> QED BY <1>1, <1>2, <1>3, <1>4, <1>6, <1>7, <1>8, <1>9, <1>10, Steps

-----------------------------------------------------------------------------
(* The range of the scores.                                                   *)

\* Without a fault one process at most is in a call, and only between the insert and the
\* clamp of a recount is a trust out of range.
InRange ==
    ~faulty =>
        /\ \A p, q \in Process : ~Idle(p) /\ ~Idle(q) => p = q
        /\ \A k \in Key : users[k] # NoRow => users[k].trust \in Trust
        /\ \A k \in Key : ratings[k] # NoRow =>
               ratings[k].trust \in Trust \/ \E p \in Process : At(p, "clamp")

\* While a call is elsewhere every trust is in range.
LEMMA OutsideClamp ==
  ASSUME InRange, ~faulty, NEW p \in Process, NEW step, At(p, step), step # "clamp"
  PROVE  \A k \in Key : ratings[k] # NoRow => ratings[k].trust \in Trust
<1>1. \A q \in Process : ~At(q, "clamp")
  BY DEF InRange, At
<1> QED BY <1>1 DEF InRange

\* A statement leaves the users in range, and the ratings but for an insert.
LEMMA StatementInRange ==
  ASSUME Sorts, InRange, ~faulty, NEW p \in Process, Statement(p)
  PROVE  /\ \A k \in Key : users'[k] # NoRow => users'[k].trust \in Trust
         /\ \A k \in Key : ratings'[k] # NoRow => ratings'[k].trust \in Trust \/ At(p, "clamp")'
<1>0. /\ \A k \in Key : ratings[k] = NoRow \/ ratings[k] \in Rating
      /\ \A k \in Key : metrics[k] = NoRow \/ metrics[k] \in Measure
      /\ \A k \in Key : users[k] # NoRow => users[k].trust \in Trust
      /\ \A step \in FromPeer : At(p, step) => job[p].batch \in Batch
  <2>1. Plan(job[p].todo, job[p].batch)
    BY DEF Sorts, JobSorts
  <2> QED BY <2>1, PlanTail DEF Sorts, TableSorts, InRange, At, Idle
<1>1. CASE Delete(p)
  BY <1>0, <1>1 DEF Delete
<1>2. CASE Insert(p)
  <2>1. \A k \in Key : ratings[k] # NoRow => ratings[k].trust \in Trust
    BY <1>2, OutsideClamp DEF Insert
  <2>2. UNCHANGED users /\ (UNCHANGED ratings \/ Advance(p))
    BY <1>2 DEF Insert
  <2>3. Advance(p) => At(p, "clamp")'
    <3> SUFFICES ASSUME Advance(p) PROVE At(p, "clamp")'
      OBVIOUS
    <3>1. /\ job \in [Process -> Job] /\ job[p].todo \in Seq(Step) /\ job[p].todo # <<>>
          /\ Plan(job[p].todo, job[p].batch) /\ Head(job[p].todo) = "insert"
      BY <1>2 DEF Insert, At, Idle, Sorts, JobSorts, Job
    <3>2. Tail(job[p].todo) # <<>> /\ Head(Tail(job[p].todo)) = "clamp"
      BY <3>1, PlanTail
    <3>3. Len(job[p].todo) # 1
      BY <3>1, <3>2
    <3>4. job'[p] = [job[p] EXCEPT !.todo = Tail(@)]
      BY <3>1, <3>3 DEF Advance
    <3>5. job'[p].todo = Tail(job[p].todo)
      BY <3>1, <3>4 DEF Job
    <3> QED BY <3>2, <3>5 DEF At, Idle
  <2> QED BY <1>0, <2>1, <2>2, <2>3
<1>3. CASE ClampScores(p)
  <2>1. \A k \in Key : ratings[k] # NoRow => Clamp(ratings[k].trust, -Unit, Unit) \in Trust
    BY <1>0, ClampTrust DEF Rating
  <2>2. \A k \in Key : ratings[k] # NoRow =>
            [ratings[k] EXCEPT !.trust = Clamp(@, -Unit, Unit)].trust \in Trust
    BY <1>0, <2>1 DEF Rating
  <2> QED BY <1>0, <1>3, <2>2 DEF ClampScores
<1>4. CASE RefreshPriority(p)
  <2>1. \A k \in Key : ratings[k] # NoRow => ratings[k].trust \in Trust
    BY <1>4, OutsideClamp DEF RefreshPriority
  <2>2. \A k \in Key : ratings[k] # NoRow =>
            [ratings[k] EXCEPT !.prio = NextPriority(k)].trust = ratings[k].trust
    BY <1>0 DEF Rating
  <2> QED BY <1>0, <1>4, <2>1, <2>2 DEF RefreshPriority
<1>5. CASE UpdateGroup(p)
  BY <1>0, <1>5, OutsideClamp DEF UpdateGroup
<1>6. CASE MirrorUsers(p)
  <2>1. \A k \in Key : ratings[k] # NoRow => ratings[k].trust \in Trust
    BY <1>6, OutsideClamp DEF MirrorUsers
  <2> QED BY <1>0, <1>6, <2>1 DEF MirrorUsers, Mirrored
<1>7. CASE Propagate(p)
  <2> DEFINE remote == job[p].batch.ratings
  <2>1. \A k \in Key : ratings[k] # NoRow => ratings[k].trust \in Trust
    BY <1>7, OutsideClamp DEF Propagate
  <2>2. \A k \in Key : k \in DOMAIN remote => Blended(k, remote[k]).trust \in Trust
    BY <1>0, <1>7, BatchAssump, BlendedIsRating DEF Propagate, FromPeer
  <2> QED BY <1>0, <1>7, <2>1, <2>2 DEF Propagate
<1>8. CASE NewerGroup(p)
  BY <1>0, <1>8, OutsideClamp DEF NewerGroup
<1>9. CASE MergeMetrics(p)
  BY <1>0, <1>9, OutsideClamp DEF MergeMetrics
<1>10. CASE BlendMetrics(p)
  <2>1. \A k \in Key : ratings[k] # NoRow => ratings[k].trust \in Trust
    BY <1>10, OutsideClamp DEF BlendMetrics
  <2>2. UNCHANGED users /\ \A k \in Key : ratings'[k] # NoRow =>
            ratings[k] # NoRow /\ ratings'[k].trust = ratings[k].trust
    BY <1>0, <1>10 DEF BlendMetrics, Rating
  <2> QED BY <1>0, <2>1, <2>2
<1>11. CASE ProgressRow(p)
  BY <1>0, <1>11, OutsideClamp DEF ProgressRow
<1> QED BY <1>1, <1>2, <1>3, <1>4, <1>5, <1>6, <1>7, <1>8, <1>9, <1>10, <1>11 DEF Statement

\* Every step keeps the scores in range.
LEMMA InRangeStep == ASSUME Sorts, InRange, [Next]_vars PROVE InRange'
<1> SUFFICES ASSUME ~faulty' PROVE InRange'
  BY DEF InRange
<1>1. CASE UNCHANGED vars
  BY <1>1 DEF InRange, At, Idle, vars, rows, tables
<1>2. ASSUME NEW p \in Process, NEW kind \in {"recount", "metrics", "reconcile"},
             NEW batch \in Batch \cup {NoRow}, NEW steps, Begin(p, kind, steps, batch)
      PROVE  InRange'
  <2>1. ~faulty /\ (\A q \in Process : Idle(q)) /\ UNCHANGED <<users, ratings>>
    BY <1>2 DEF Begin, Overlap, tables
  <2>2. \A q \in Process \ {p} : Idle(q)'
    BY <1>2, <2>1 DEF Begin, Idle, Sorts, JobSorts
  <2>3. \A k \in Key : ratings[k] # NoRow => ratings[k].trust \in Trust
    BY <2>1 DEF InRange, At
  <2> QED BY <2>1, <2>2, <2>3 DEF InRange
<1>3. ASSUME NEW p \in Process, Statement(p) PROVE InRange'
  <2>1. ~faulty /\ ~Idle(p) /\ (Advance(p) \/ Abort(p))
    BY <1>3, StatementOfCall
  <2>2. \A q \in Process \ {p} : Idle(q) /\ job'[q] = job[q]
    BY <2>1, StatementEnds DEF InRange, Sorts
  <2>3. \A q \in Process \ {p} : Idle(q)'
    BY <2>2 DEF Idle
  <2> QED BY <1>3, <2>1, <2>3, StatementInRange DEF InRange
<1>4. ASSUME NEW p \in Process, Kill(p) PROVE InRange'
  BY <1>4 DEF Kill
<1>5. ASSUME Handler PROVE /\ ~faulty /\ UNCHANGED job /\ \A q \in Process : Idle(q) /\ Idle(q)'
                           /\ \A k \in Key : ratings[k] # NoRow => ratings[k].trust \in Trust
                           /\ \A k \in Key : users[k] # NoRow => users[k].trust \in Trust
  <2>1. ~faulty /\ UNCHANGED job /\ \A q \in Process : Idle(q)
    BY <1>5 DEF Handler, Busy
  <2> QED BY <2>1 DEF InRange, Idle, At
<1>6. ASSUME NEW k \in Key, NEW role \in Role, UsersRole(k, role) PROVE InRange'
  <2>1. users' = [users EXCEPT ![k] = [role |-> role, trust |-> IF users[k] = NoRow THEN 0
                                                              ELSE users[k].trust]]
    BY <1>6 DEF UsersRole
  <2>2. 0 \in Trust
    BY UnitPositive DEF Trust
  <2>3. \A j \in Key : users'[j] # NoRow => users'[j].trust \in Trust
    BY <1>5, <1>6, <2>1, <2>2 DEF UsersRole, Sorts, TableSorts
  <2> QED BY <1>5, <1>6, <2>3 DEF UsersRole, InRange
<1>7. ASSUME NEW by \in Key, NEW k \in Key, NEW d \in Delta, TrustDelegate(by, k, d) PROVE InRange'
  <2>1. users' = [users EXCEPT ![k] = AdjustedTrust(k, d)] /\ AdjustedTrust(k, d).trust \in Trust
    BY <1>7, DelegationIsUser DEF TrustDelegate, Sorts
  <2>2. \A j \in Key : users'[j] # NoRow => users'[j].trust \in Trust
    BY <1>5, <1>7, <2>1 DEF TrustDelegate, Sorts, TableSorts
  <2> QED BY <1>5, <1>7, <2>2 DEF TrustDelegate, InRange
<1>8. ASSUME NEW e \in EventId, NEW k \in Key \cup {Unsigned}, AddEvent(e, k) PROVE InRange'
  BY <1>5, <1>8 DEF AddEvent, InRange, tables
<1>9. ASSUME NEW e \in EventId, NEW avg \in Average, ScoreEvent(e, avg) PROVE InRange'
  BY <1>5, <1>9 DEF ScoreEvent, InRange, tables
<1>10. ASSUME NEW v \in Vote, AddImpact(v) PROVE InRange'
  BY <1>5, <1>10 DEF AddImpact, InRange, tables
<1> QED BY <1>1, <1>2, <1>3, <1>4, <1>6, <1>7, <1>8, <1>9, <1>10, Steps

\* Both parts of the invariant together.
LEMMA LedgerInvariant == Spec => [](Sorts /\ InRange)
<1>1. Init => Sorts /\ InRange
  <2> SUFFICES ASSUME Init PROVE Sorts /\ InRange
    OBVIOUS
  <2>1. RowSorts
    BY DEF Init, RowSorts
  <2>2. TableSorts
    BY DEF Init, TableSorts
  <2>3. JobSorts
    BY IdleIsJob, EmptyPlan DEF Init, JobSorts, IdleJob
  <2>4. spent \in [calls : Nat, edits : Nat] /\ alone \in BOOLEAN /\ faulty \in BOOLEAN
    BY DEF Init
  <2>5. InRange
    BY DEF Init, InRange, Idle, IdleJob
  <2> QED BY <2>1, <2>2, <2>3, <2>4, <2>5 DEF Sorts
<1>2. Sorts /\ InRange /\ [Next]_vars => (Sorts /\ InRange)'
  BY SortsStep, InRangeStep
<1> QED BY <1>1, <1>2, PTL DEF Spec

-----------------------------------------------------------------------------
(* Where a call is.                                                           *)

Left(p) == LeftOf(job[p].kind, job[p].todo)

\* Every call is somewhere on its plan, and unanswered.
OnPlan ==
    \A p \in Process : ~Idle(p) =>
        /\ job[p].kind \in {"recount", "metrics", "reconcile"}
        /\ EndOfPlan(job[p].kind, job[p].todo)
        /\ job[p].answer = "none"

\* One sequence of statements after another.
LEMMA Joined ==
  ASSUME NEW first \in Seq(Step), NEW second \in Seq(Step)
  PROVE  /\ first \o second \in Seq(Step) /\ Len(first \o second) = Len(first) + Len(second)
         /\ \A i \in Nat : 1 <= i /\ i <= Len(first) + Len(second) =>
                (first \o second)[i] = IF i <= Len(first) THEN first[i] ELSE second[i - Len(first)]
  OBVIOUS

\* The statements of the plans one by one.
LEMMA PlansSpelled ==
  /\ Len(PlanOf("recount")) = 6 /\ Len(PlanOf("metrics")) = 7 /\ Len(PlanOf("reconcile")) = 12
  /\ LET r == PlanOf("recount") IN
       /\ r[1] = "delete" /\ r[2] = "insert" /\ r[3] = "clamp"
       /\ r[4] = "refresh" /\ r[5] = "group" /\ r[6] = "mirror"
  /\ LET r == PlanOf("metrics") IN
       /\ r[1] = "progress" /\ r[2] = "delete" /\ r[3] = "insert" /\ r[4] = "clamp"
       /\ r[5] = "refresh" /\ r[6] = "group" /\ r[7] = "mirror"
  /\ LET r == PlanOf("reconcile") IN
       /\ r[1] = "propagate" /\ r[2] = "refresh" /\ r[3] = "newerGroup" /\ r[4] = "mirror"
       /\ r[5] = "metrics" /\ r[6] = "delete" /\ r[7] = "insert" /\ r[8] = "clamp"
       /\ r[9] = "refresh" /\ r[10] = "group" /\ r[11] = "mirror" /\ r[12] = "blend"
<1>1. /\ Recount \in Seq(Step) /\ Len(Recount) = 6
      /\ Recount[1] = "delete" /\ Recount[2] = "insert" /\ Recount[3] = "clamp"
      /\ Recount[4] = "refresh" /\ Recount[5] = "group" /\ Recount[6] = "mirror"
  BY DEF Recount, Step
<1>2. /\ Merge \in Seq(Step) /\ Len(Merge) = 5
      /\ Merge[1] = "propagate" /\ Merge[2] = "refresh" /\ Merge[3] = "newerGroup"
      /\ Merge[4] = "mirror" /\ Merge[5] = "metrics"
  BY DEF Merge, Step
<1>3. PlanOf("recount") = Recount
  BY DEF PlanOf
<1>4. PlanOf("metrics") = <<"progress">> \o Recount
  BY DEF PlanOf
<1>5. PlanOf("reconcile") = Merge \o Recount \o <<"blend">>
  BY DEF PlanOf, Reconcile
<1>6. LET r == <<"progress">> \o Recount IN
      /\ r \in Seq(Step) /\ Len(r) = 7
      /\ r[1] = "progress" /\ r[2] = "delete" /\ r[3] = "insert" /\ r[4] = "clamp"
      /\ r[5] = "refresh" /\ r[6] = "group" /\ r[7] = "mirror"
  <2> DEFINE first == <<"progress">>
             r     == first \o Recount
  <2>1. first \in Seq(Step) /\ Len(first) = 1 /\ first[1] = "progress"
    BY DEF Step
  <2> HIDE DEF first
  <2>2. /\ r \in Seq(Step) /\ Len(r) = 7
        /\ \A i \in 1..7 : r[i] = IF i <= 1 THEN first[i] ELSE Recount[i - 1]
    <3>1. /\ r \in Seq(Step) /\ Len(r) = Len(first) + Len(Recount)
          /\ \A i \in Nat : 1 <= i /\ i <= Len(first) + Len(Recount) =>
                 r[i] = IF i <= Len(first) THEN first[i] ELSE Recount[i - Len(first)]
      BY ONLY <1>1, <2>1, Joined
    <3>2. Len(first) = 1 /\ Len(Recount) = 6
      BY <1>1, <2>1
    <3> HIDE DEF r
    <3> QED BY ONLY <3>1, <3>2
  <2>3. /\ r[1] = first[1] /\ r[2] = Recount[1] /\ r[3] = Recount[2] /\ r[4] = Recount[3]
        /\ r[5] = Recount[4] /\ r[6] = Recount[5] /\ r[7] = Recount[6]
    <3> HIDE DEF r
    <3> QED BY <2>2
  <2>4. /\ r[1] = "progress" /\ r[2] = "delete" /\ r[3] = "insert" /\ r[4] = "clamp"
        /\ r[5] = "refresh" /\ r[6] = "group" /\ r[7] = "mirror"
    <3> HIDE DEF r
    <3> QED BY <1>1, <2>1, <2>3
  <2> QED BY <2>2, <2>4 DEF first
<1>7. LET r == Merge \o Recount IN
      /\ r \in Seq(Step) /\ Len(r) = 11
      /\ r[1] = "propagate" /\ r[2] = "refresh" /\ r[3] = "newerGroup" /\ r[4] = "mirror"
      /\ r[5] = "metrics" /\ r[6] = "delete" /\ r[7] = "insert" /\ r[8] = "clamp"
      /\ r[9] = "refresh" /\ r[10] = "group" /\ r[11] = "mirror"
  <2> DEFINE r == Merge \o Recount
  <2>1. /\ r \in Seq(Step) /\ Len(r) = 11
        /\ \A i \in 1..11 : r[i] = IF i <= 5 THEN Merge[i] ELSE Recount[i - 5]
    <3>1. /\ r \in Seq(Step) /\ Len(r) = Len(Merge) + Len(Recount)
          /\ \A i \in Nat : 1 <= i /\ i <= Len(Merge) + Len(Recount) =>
                 r[i] = IF i <= Len(Merge) THEN Merge[i] ELSE Recount[i - Len(Merge)]
      BY ONLY <1>1, <1>2, Joined
    <3>2. Len(Merge) = 5 /\ Len(Recount) = 6
      BY <1>1, <1>2
    <3> HIDE DEF r
    <3> QED BY ONLY <3>1, <3>2
  <2>2. /\ r[1] = Merge[1] /\ r[2] = Merge[2] /\ r[3] = Merge[3] /\ r[4] = Merge[4]
        /\ r[5] = Merge[5] /\ r[6] = Recount[1] /\ r[7] = Recount[2] /\ r[8] = Recount[3]
        /\ r[9] = Recount[4] /\ r[10] = Recount[5] /\ r[11] = Recount[6]
    <3> HIDE DEF r
    <3> QED BY <2>1
  <2>3. /\ r[1] = "propagate" /\ r[2] = "refresh" /\ r[3] = "newerGroup" /\ r[4] = "mirror"
        /\ r[5] = "metrics" /\ r[6] = "delete" /\ r[7] = "insert" /\ r[8] = "clamp"
        /\ r[9] = "refresh" /\ r[10] = "group" /\ r[11] = "mirror"
    <3> HIDE DEF r
    <3> QED BY <1>1, <1>2, <2>2
  <2> QED BY <2>1, <2>3
<1>8. LET r == Merge \o Recount \o <<"blend">> IN
      /\ Len(r) = 12
      /\ r[1] = "propagate" /\ r[2] = "refresh" /\ r[3] = "newerGroup" /\ r[4] = "mirror"
      /\ r[5] = "metrics" /\ r[6] = "delete" /\ r[7] = "insert" /\ r[8] = "clamp"
      /\ r[9] = "refresh" /\ r[10] = "group" /\ r[11] = "mirror" /\ r[12] = "blend"
  <2> DEFINE first == Merge \o Recount
             last  == <<"blend">>
             r     == first \o last
  <2>1. last \in Seq(Step) /\ Len(last) = 1 /\ last[1] = "blend"
    BY DEF Step
  <2> HIDE DEF first, last
  <2>2. first \in Seq(Step) /\ Len(first) = 11
    BY <1>7 DEF first
  <2>3. Len(r) = 12 /\ \A i \in 1..12 : r[i] = IF i <= 11 THEN first[i] ELSE last[i - 11]
    <3>1. /\ r \in Seq(Step) /\ Len(r) = Len(first) + Len(last)
          /\ \A i \in Nat : 1 <= i /\ i <= Len(first) + Len(last) =>
                 r[i] = IF i <= Len(first) THEN first[i] ELSE last[i - Len(first)]
      BY ONLY <2>1, <2>2, Joined
    <3>2. Len(first) = 11 /\ Len(last) = 1
      BY <2>1, <2>2
    <3> HIDE DEF r
    <3> QED BY ONLY <3>1, <3>2
  <2>4. /\ r[1] = first[1] /\ r[2] = first[2] /\ r[3] = first[3] /\ r[4] = first[4]
        /\ r[5] = first[5] /\ r[6] = first[6] /\ r[7] = first[7] /\ r[8] = first[8]
        /\ r[9] = first[9] /\ r[10] = first[10] /\ r[11] = first[11] /\ r[12] = last[1]
    <3> HIDE DEF r
    <3> QED BY <2>3
  <2>5. /\ r[1] = "propagate" /\ r[2] = "refresh" /\ r[3] = "newerGroup" /\ r[4] = "mirror"
        /\ r[5] = "metrics" /\ r[6] = "delete" /\ r[7] = "insert" /\ r[8] = "clamp"
        /\ r[9] = "refresh" /\ r[10] = "group" /\ r[11] = "mirror" /\ r[12] = "blend"
    <3>1. /\ first[1] = "propagate" /\ first[2] = "refresh" /\ first[3] = "newerGroup"
          /\ first[4] = "mirror" /\ first[5] = "metrics" /\ first[6] = "delete"
          /\ first[7] = "insert" /\ first[8] = "clamp" /\ first[9] = "refresh"
          /\ first[10] = "group" /\ first[11] = "mirror"
      BY <1>7 DEF first
    <3> HIDE DEF r
    <3> QED BY <2>1, <2>4, <3>1
  <2> QED BY <2>3, <2>5 DEF first, last
<1>9. LET r == PlanOf("recount") IN
        /\ Len(r) = 6 /\ r[1] = "delete" /\ r[2] = "insert" /\ r[3] = "clamp"
        /\ r[4] = "refresh" /\ r[5] = "group" /\ r[6] = "mirror"
  BY ONLY <1>1, <1>3
<1>10. LET r == PlanOf("metrics") IN
        /\ Len(r) = 7
        /\ r[1] = "progress" /\ r[2] = "delete" /\ r[3] = "insert" /\ r[4] = "clamp"
        /\ r[5] = "refresh" /\ r[6] = "group" /\ r[7] = "mirror"
  BY ONLY <1>6, <1>4
<1>11. LET r == PlanOf("reconcile") IN
        /\ Len(r) = 12
        /\ r[1] = "propagate" /\ r[2] = "refresh" /\ r[3] = "newerGroup" /\ r[4] = "mirror"
        /\ r[5] = "metrics" /\ r[6] = "delete" /\ r[7] = "insert" /\ r[8] = "clamp"
        /\ r[9] = "refresh" /\ r[10] = "group" /\ r[11] = "mirror" /\ r[12] = "blend"
  BY ONLY <1>8, <1>5
<1> QED BY <1>9, <1>10, <1>11

\* The statements of a recount.
LEMMA RecountSpelled ==
  LET r == PlanOf("recount") IN
    /\ r[1] = "delete" /\ r[2] = "insert" /\ r[3] = "clamp"
    /\ r[4] = "refresh" /\ r[5] = "group" /\ r[6] = "mirror"
  BY ONLY PlansSpelled

\* The statements of a recalculation of the metrics.
LEMMA MetricsSpelled ==
  LET r == PlanOf("metrics") IN
    /\ r[1] = "progress" /\ r[2] = "delete" /\ r[3] = "insert" /\ r[4] = "clamp"
    /\ r[5] = "refresh" /\ r[6] = "group" /\ r[7] = "mirror"
  BY ONLY PlansSpelled

\* The statements of a reconcile.
LEMMA ReconcileSpelled ==
  LET r == PlanOf("reconcile") IN
    /\ r[1] = "propagate" /\ r[2] = "refresh" /\ r[3] = "newerGroup" /\ r[4] = "mirror"
    /\ r[5] = "metrics" /\ r[6] = "delete" /\ r[7] = "insert" /\ r[8] = "clamp"
    /\ r[9] = "refresh" /\ r[10] = "group" /\ r[11] = "mirror" /\ r[12] = "blend"
  BY ONLY PlansSpelled

\* The first of the last m statements of a plan.
LEMMA HeadOnPlan ==
  ASSUME NEW kind, NEW n \in Nat, Len(PlanOf(kind)) = n, NEW todo \in Seq(Step), todo # <<>>,
         EndOfPlan(kind, todo)
  PROVE  \E m \in 1..n : m = Len(todo) /\ Head(todo) = PlanOf(kind)[n + 1 - m]
<1>1. PICK m \in Nat : m = Len(todo) /\ m >= 1 /\ Head(todo) = todo[1]
  OBVIOUS
<1>2. m <= n /\ todo[1] = PlanOf(kind)[n - m + 1]
  <2>1. m <= n /\ \A i \in 1..m : todo[i] = PlanOf(kind)[n - m + i]
    BY <1>1 DEF EndOfPlan
  <2>2. 1 \in 1..m
    BY ONLY <1>1
  <2> QED BY ONLY <2>1, <2>2
<1>3. m \in 1..n /\ n - m + 1 = n + 1 - m
  BY <1>1, <1>2
<1> QED BY ONLY <1>1, <1>2, <1>3

\* The next statement tells how much of the recount is left.
LEMMA StatementTellsPlace ==
  ASSUME NEW kind \in {"recount", "metrics", "reconcile"}, NEW todo \in Seq(Step), todo # <<>>,
         EndOfPlan(kind, todo)
  PROVE  /\ LeftOf(kind, todo) \in Nat
         /\ Head(todo) = "progress" => LeftOf(kind, todo) = 7
         /\ Head(todo) \in {"propagate", "newerGroup", "metrics"} => LeftOf(kind, todo) >= 7
         /\ kind = "metrics" /\ LeftOf(kind, todo) >= 7 => Head(todo) = "progress"
         /\ Head(todo) = "delete" => LeftOf(kind, todo) = 6
         /\ Head(todo) = "insert" => LeftOf(kind, todo) = 5
         /\ Head(todo) = "clamp" => LeftOf(kind, todo) = 4
         /\ Head(todo) = "refresh" => LeftOf(kind, todo) = 3 \/ LeftOf(kind, todo) >= 7
         /\ Head(todo) = "group" => LeftOf(kind, todo) = 2
         /\ Head(todo) = "mirror" => LeftOf(kind, todo) = 1 \/ LeftOf(kind, todo) >= 7
         /\ Head(todo) = "blend" => LeftOf(kind, todo) = 0
         /\ Len(todo) = 1 <=> LeftOf(kind, todo) = IF kind = "reconcile" THEN 0 ELSE 1
<1>1. CASE kind = "recount"
  <2>0. Len(PlanOf(kind)) = 6 /\ 6 \in Nat
    BY <1>1, PlansSpelled
  <2>1. PICK m \in 1..6 : m = Len(todo) /\ Head(todo) = PlanOf(kind)[6 + 1 - m]
    BY <2>0, HeadOnPlan
  <2>2. LeftOf(kind, todo) = m
    BY <1>1, <2>1 DEF LeftOf
  <2>3. /\ Len(todo) = m /\ m \in 1..6 /\ kind = "recount" /\ LeftOf(kind, todo) = m
        /\ Head(todo) = PlanOf("recount")[6 + 1 - m]
    BY <1>1, <2>1, <2>2
  <2> QED BY ONLY <2>3, RecountSpelled
<1>2. CASE kind = "metrics"
  <2>0. Len(PlanOf(kind)) = 7 /\ 7 \in Nat
    BY <1>2, PlansSpelled
  <2>1. PICK m \in 1..7 : m = Len(todo) /\ Head(todo) = PlanOf(kind)[7 + 1 - m]
    BY <2>0, HeadOnPlan
  <2>2. LeftOf(kind, todo) = m
    BY <1>2, <2>1 DEF LeftOf
  <2>3. /\ Len(todo) = m /\ m \in 1..7 /\ kind = "metrics" /\ LeftOf(kind, todo) = m
        /\ Head(todo) = PlanOf("metrics")[7 + 1 - m]
    BY <1>2, <2>1, <2>2
  <2> QED BY ONLY <2>3, MetricsSpelled
<1>3. CASE kind = "reconcile"
  <2>0. Len(PlanOf(kind)) = 12 /\ 12 \in Nat
    BY <1>3, PlansSpelled
  <2>1. PICK m \in 1..12 : m = Len(todo) /\ Head(todo) = PlanOf(kind)[12 + 1 - m]
    BY <2>0, HeadOnPlan
  <2>2. LeftOf(kind, todo) = m - 1
    BY <1>3, <2>1 DEF LeftOf
  <2>3. /\ Len(todo) = m /\ m \in 1..12 /\ kind = "reconcile" /\ LeftOf(kind, todo) = m - 1
        /\ Head(todo) = PlanOf("reconcile")[12 + 1 - m]
    BY <1>3, <2>1, <2>2
  <2>4. PICK n \in {1, 2, 3, 4, 5, 6, 7, 8, 9, 10, 11, 12} :
            m = 13 - n /\ Head(todo) = PlanOf("reconcile")[n]
    <3>1. 13 - m \in 1..12 /\ m = 13 - (13 - m) /\ 12 + 1 - m = 13 - m
      BY ONLY <2>3
    <3>2. \A i \in 1..12 : i \in {1, 2, 3, 4, 5, 6, 7, 8, 9, 10, 11, 12}
      OBVIOUS
    <3>3. Head(todo) = PlanOf("reconcile")[13 - m]
      BY ONLY <2>3, <3>1
    <3> QED BY ONLY <3>1, <3>2, <3>3
  <2>5. \/ m = 12 /\ Head(todo) = "propagate"
        \/ m = 11 /\ Head(todo) = "refresh"
        \/ m = 10 /\ Head(todo) = "newerGroup"
        \/ m = 9 /\ Head(todo) = "mirror"
        \/ m = 8 /\ Head(todo) = "metrics"
        \/ m = 7 /\ Head(todo) = "delete"
        \/ m = 6 /\ Head(todo) = "insert"
        \/ m = 5 /\ Head(todo) = "clamp"
        \/ m = 4 /\ Head(todo) = "refresh"
        \/ m = 3 /\ Head(todo) = "group"
        \/ m = 2 /\ Head(todo) = "mirror"
        \/ m = 1 /\ Head(todo) = "blend"
    BY ONLY <2>4, ReconcileSpelled
  <2>6. Len(todo) = m /\ kind = "reconcile" /\ LeftOf(kind, todo) = m - 1
    BY <2>3
  <2> QED BY ONLY <2>5, <2>6
<1> QED BY <1>1, <1>2, <1>3

\* One statement further along the plan.
LEMMA PlanAdvances ==
  ASSUME NEW kind \in {"recount", "metrics", "reconcile"}, NEW todo \in Seq(Step), todo # <<>>,
         EndOfPlan(kind, todo)
  PROVE  EndOfPlan(kind, Tail(todo)) /\ LeftOf(kind, Tail(todo)) = LeftOf(kind, todo) - 1
<1>1. /\ Len(todo) \in Nat /\ Len(todo) >= 1 /\ Len(Tail(todo)) = Len(todo) - 1
      /\ \A i \in 1..Len(Tail(todo)) : Tail(todo)[i] = todo[i + 1]
  OBVIOUS
<1>2. Len(PlanOf(kind)) \in Nat
  BY PlansSpelled
<1>3. ASSUME NEW i \in 1..Len(Tail(todo))
      PROVE  Tail(todo)[i] = PlanOf(kind)[Len(PlanOf(kind)) - Len(Tail(todo)) + i]
  <2>1. i + 1 \in 1..Len(todo)
    BY <1>1
  <2>2. todo[i + 1] = PlanOf(kind)[Len(PlanOf(kind)) - Len(todo) + (i + 1)]
    BY <2>1 DEF EndOfPlan
  <2>3. Len(PlanOf(kind)) - Len(todo) + (i + 1) = Len(PlanOf(kind)) - Len(Tail(todo)) + i
    BY <1>1, <1>2
  <2> QED BY <1>1, <2>2, <2>3
<1> QED BY <1>1, <1>2, <1>3 DEF EndOfPlan, LeftOf

\* Something is left of a sequence of more than one element.
LEMMA MoreThanOne ==
  ASSUME NEW s \in Seq(Step), s # <<>>, Len(s) # 1
  PROVE  Tail(s) # <<>>
<1> SUFFICES ASSUME Tail(s) = <<>> PROVE FALSE
  OBVIOUS
<1>1. Len(Tail(s)) = Len(s) - 1 /\ Len(s) \in Nat
  OBVIOUS
<1>2. Len(Tail(s)) = 0
  <2>1. Len(<<>>) = 0
    OBVIOUS
  <2> QED BY ONLY <2>1, Tail(s) = <<>>
<1>3. Len(s) = 1
  BY ONLY <1>1, <1>2
<1> QED BY <1>3

\* After a statement the call has one less to do, or it is answered.
LEMMA CallAdvances ==
  ASSUME Sorts, OnPlan, NEW p \in Process, ~Idle(p), Advance(p) \/ Abort(p)
  PROVE  /\ OnPlan' /\ Left(p) \in Nat
         /\ ~Idle(p)' => Left(p)' = Left(p) - 1 /\ job'[p].kind = job[p].kind
         /\ job'[p].answer = "ok" =>
                Advance(p) /\ Left(p) = IF job[p].kind = "reconcile" THEN 0 ELSE 1
         /\ Idle(p)' => (job'[p].answer = "ok" <=> Advance(p))
         /\ ~Idle(p)' => Advance(p)
<1>1. /\ job \in [Process -> Job] /\ job[p] \in Job /\ job[p].todo \in Seq(Step) /\ job[p].todo # <<>>
      /\ job[p].kind \in {"recount", "metrics", "reconcile"} /\ job[p].answer = "none"
      /\ EndOfPlan(job[p].kind, job[p].todo)
  BY DEF Sorts, JobSorts, Job, Idle, OnPlan
<1>2. \A q \in Process \ {p} : job'[q] = job[q]
  BY <1>1 DEF Advance, Abort
<1>3. /\ EndOfPlan(job[p].kind, Tail(job[p].todo)) /\ Left(p) \in Nat
      /\ LeftOf(job[p].kind, Tail(job[p].todo)) = Left(p) - 1
      /\ Len(job[p].todo) = 1 <=> Left(p) = IF job[p].kind = "reconcile" THEN 0 ELSE 1
  BY <1>1, PlanAdvances, StatementTellsPlace DEF Left
<1>4. CASE Advance(p) /\ Len(job[p].todo) = 1
  <2>1. job'[p].todo = <<>> /\ job'[p].answer = "ok"
    BY <1>1, <1>4 DEF Advance, IdleJob
  <2> QED BY <1>2, <1>3, <1>4, <2>1 DEF OnPlan, Idle
<1>5. CASE Advance(p) /\ Len(job[p].todo) # 1
  <2>1. job'[p] = [job[p] EXCEPT !.todo = Tail(@)]
    BY <1>1, <1>5 DEF Advance
  <2>2. /\ job'[p].todo = Tail(job[p].todo) /\ job'[p].kind = job[p].kind
        /\ job'[p].answer = "none"
    BY <1>1, <2>1 DEF Job
  <2>3. Tail(job[p].todo) # <<>>
    BY <1>1, <1>5, MoreThanOne
  <2> QED BY <1>2, <1>3, <1>5, <2>2, <2>3 DEF OnPlan, Idle, Left
<1>6. CASE Abort(p)
  <2>1. job'[p].todo = <<>> /\ job'[p].answer = "error"
    BY <1>1, <1>6 DEF Abort, IdleJob
  <2>2. ~Advance(p)
    <3>1. \/ Advance(p) => job'[p].answer = "ok"
          \/ Advance(p) => job'[p].answer = "none"
      <4>1. Advance(p) /\ Len(job[p].todo) = 1 => job'[p].answer = "ok"
        BY <1>1 DEF Advance, IdleJob
      <4>2. Advance(p) /\ Len(job[p].todo) # 1 => job'[p].answer = "none"
        BY <1>1 DEF Advance, Job
      <4> QED BY <4>1, <4>2
    <3> QED BY <2>1, <3>1
  <2> QED BY <1>2, <1>3, <2>1, <2>2 DEF OnPlan, Idle
<1> QED BY <1>4, <1>5, <1>6

\* A call begins at the start of its plan.
LEMMA CallBegins ==
  ASSUME Sorts, NEW p \in Process, NEW kind \in {"recount", "metrics", "reconcile"},
         NEW batch, Begin(p, kind, PlanOf(kind), batch)
  PROVE  /\ ~Idle(p)' /\ job'[p].kind = kind /\ EndOfPlan(kind, job'[p].todo)
         /\ Left(p)' >= 6 /\ (kind = "metrics" => Left(p)' = 7) /\ job'[p].answer = "none"
         /\ \A q \in Process \ {p} : job'[q] = job[q]
<1>1. /\ job'[p] = [kind |-> kind, todo |-> PlanOf(kind), batch |-> batch, answer |-> "none"]
      /\ \A q \in Process \ {p} : job'[q] = job[q]
  BY DEF Begin, Sorts, JobSorts
<1>2. /\ Len(PlanOf(kind)) >= 6 /\ Len(PlanOf(kind)) \in Nat
      /\ kind = "metrics" => Len(PlanOf(kind)) = 7
      /\ kind = "reconcile" => Len(PlanOf(kind)) = 12
  BY PlansSpelled
<1>3. PlanOf(kind) # <<>>
  BY <1>2
<1>4. EndOfPlan(kind, PlanOf(kind))
  <2> DEFINE plan == PlanOf(kind)
  <2>1. Len(plan) \in Nat
    BY <1>2
  <2>2. \A i \in 1..Len(plan) : plan[i] = plan[Len(plan) - Len(plan) + i]
    <3> HIDE DEF plan
    <3>1. \A i \in 1..Len(plan) : Len(plan) - Len(plan) + i = i
      BY <2>1
    <3> QED BY <3>1
  <2> QED BY <2>1, <2>2 DEF EndOfPlan
<1>5. Left(p)' = Len(PlanOf(kind)) - (IF kind = "reconcile" THEN 1 ELSE 0)
  BY <1>1 DEF Left, LeftOf
<1>6. Left(p)' >= 6 /\ (kind = "metrics" => Left(p)' = 7)
  <2>1. PICK n \in Nat : /\ n = Len(PlanOf(kind)) /\ n >= 6
                         /\ kind = "metrics" => n = 7
                         /\ kind = "reconcile" => n = 12
    BY <1>2
  <2>2. Left(p)' = n - (IF kind = "reconcile" THEN 1 ELSE 0)
    BY <1>5, <2>1
  <2>3. CASE kind = "reconcile"
    <3>1. n = 12 /\ Left(p)' = n - 1 /\ kind # "metrics"
      BY <2>1, <2>2, <2>3
    <3> QED BY ONLY <3>1
  <2>4. CASE kind # "reconcile"
    <3>1. Left(p)' = n - 0
      BY <2>2, <2>4
    <3> QED BY ONLY <2>1, <3>1
  <2> QED BY <2>3, <2>4
<1>7. job'[p].todo = PlanOf(kind) /\ job'[p].kind = kind /\ job'[p].answer = "none"
  BY <1>1
<1> QED BY <1>1, <1>3, <1>4, <1>6, <1>7 DEF Idle

\* Its place is a number.
LEMMA CallIsPlaced ==
  ASSUME Sorts, NEW p \in Process, NEW kind \in {"recount", "metrics", "reconcile"},
         NEW batch, Begin(p, kind, PlanOf(kind), batch)
  PROVE  Left(p)' \in Int
<1>1. job'[p] = [kind |-> kind, todo |-> PlanOf(kind), batch |-> batch, answer |-> "none"]
  BY DEF Begin, Sorts, JobSorts
<1>2. PICK n \in Nat : n = Len(PlanOf(kind))
  BY PlansSpelled
<1>3. Left(p)' = n - (IF kind = "reconcile" THEN 1 ELSE 0)
  BY <1>1, <1>2 DEF Left, LeftOf
<1> QED BY ONLY <1>2, <1>3

\* The next statement of a call tells how much of its recount is left.
LEMMA AtTellsPlace ==
  ASSUME Sorts, OnPlan, NEW p \in Process
  PROVE  /\ ~Idle(p) => Left(p) \in Nat
         /\ At(p, "progress") => Left(p) = 7
         /\ \A step \in {"propagate", "newerGroup", "metrics"} : At(p, step) => Left(p) >= 7
         /\ ~Idle(p) /\ job[p].kind = "metrics" /\ Left(p) >= 7 => At(p, "progress")
         /\ At(p, "delete") => Left(p) = 6
         /\ At(p, "insert") => Left(p) = 5
         /\ At(p, "clamp") => Left(p) = 4
         /\ At(p, "refresh") => Left(p) = 3 \/ Left(p) >= 7
         /\ At(p, "group") => Left(p) = 2
         /\ At(p, "mirror") => Left(p) = 1 \/ Left(p) >= 7
         /\ At(p, "blend") => Left(p) = 0
<1>1. CASE Idle(p)
  BY <1>1 DEF At
<1>2. CASE ~Idle(p)
  <2>1. /\ job[p].kind \in {"recount", "metrics", "reconcile"} /\ job[p].todo \in Seq(Step)
        /\ job[p].todo # <<>> /\ EndOfPlan(job[p].kind, job[p].todo)
    BY <1>2 DEF Sorts, JobSorts, Job, Idle, OnPlan
  <2> QED BY <1>2, <2>1, StatementTellsPlace DEF At, Left
<1> QED BY <1>1, <1>2

\* Every step leaves the calls on their plans.
LEMMA OnPlanStep == ASSUME Sorts, OnPlan, [Next]_vars PROVE OnPlan'
<1>1. CASE UNCHANGED job
  BY <1>1 DEF OnPlan, Idle
<1>2. ASSUME NEW p \in Process, NEW kind \in {"recount", "metrics", "reconcile"},
             NEW batch \in Batch \cup {NoRow}, Begin(p, kind, PlanOf(kind), batch)
      PROVE  OnPlan'
  BY <1>2, CallBegins DEF OnPlan, Idle
<1>3. ASSUME NEW p \in Process, Statement(p) PROVE OnPlan'
  BY <1>3, StatementOfCall, CallAdvances
<1>4. ASSUME NEW p \in Process, Kill(p) PROVE OnPlan'
  <2>1. job' = [job EXCEPT ![p] = IdleJob] /\ IdleJob.todo = <<>>
    BY <1>4 DEF Kill, IdleJob
  <2> QED BY <2>1 DEF OnPlan, Idle, Sorts, JobSorts
<1>5. UNCHANGED job
        \/ (\E p \in Process : \E kind \in {"recount", "metrics", "reconcile"} :
              \E batch \in Batch \cup {NoRow} : Begin(p, kind, PlanOf(kind), batch))
        \/ (\E p \in Process : Statement(p) \/ Kill(p))
  BY Steps DEF Handler, UsersRole, TrustDelegate, AddEvent, ScoreEvent, AddImpact, vars
<1> QED BY <1>1, <1>2, <1>3, <1>4, <1>5

-----------------------------------------------------------------------------
(* The agreement of the tables.                                               *)

RatedRows == \A k \in Key : (ratings[k] # NoRow) <=> k \in Rated

RawCount == \A k \in Rated : ratings[k].trust = RawTrust(k) /\ ratings[k].et = EventsTrue(k)

ClampedCount ==
    \A k \in Rated : /\ ratings[k].trust = Clamp(RawTrust(k), -Unit, Unit)
                     /\ ratings[k].et = EventsTrue(k)

GroupSumsUp ==
    /\ Voiced # {}
    /\ group.row.members = Rows(ratings) /\ group.row.avg = MeanTrust(ratings)
    /\ group.row.coherence = Coherence

UsersMirror == \A k \in Rows(ratings) : users[k].trust = ratings[k].trust

VotesCounted == progress.yes + progress.no = Cardinality(votes)

\* The tables at each point of a call that has the database to itself.
Agreement ==
    alone =>
        /\ \A p, q \in Process : ~Idle(p) /\ ~Idle(q) => p = q
        /\ \A p \in Process : ~Idle(p) =>
            /\ Left(p) = 5 => \A k \in Key : ratings[k] = NoRow
            /\ Left(p) = 4 => RatedRows /\ RawCount
            /\ Left(p) <= 3 => RatedRows /\ ClampedCount
            /\ Left(p) <= 1 => GroupSumsUp
            /\ Left(p) <= 0 => UsersMirror
            /\ job[p].kind = "metrics" /\ Left(p) <= 6 => VotesCounted

\* What is counted depends on the rows alone.
LEMMA CountsOfRows ==
  ASSUME UNCHANGED rows
  PROVE  /\ Rated' = Rated /\ Voiced' = Voiced /\ Coherence' = Coherence /\ votes' = votes
         /\ \A k \in Key : RawTrust(k)' = RawTrust(k) /\ EventsTrue(k)' = EventsTrue(k)
<1>1. author' = author /\ score' = score /\ votes' = votes
  BY DEF rows
<1>2. Rated' = Rated
  BY <1>1 DEF Rated
<1>3. Voiced' = Voiced
  BY <1>1 DEF Voiced
<1>4. Agreeing' = Agreeing
  BY <1>1, <1>3 DEF Agreeing
<1>5. Coherence' = Coherence
  BY <1>3, <1>4 DEF Coherence
<1>6. ASSUME NEW k \in Key PROVE RawTrust(k)' = RawTrust(k) /\ EventsTrue(k)' = EventsTrue(k)
  <2>1. EventsTrue(k)' = EventsTrue(k)
    BY <1>1 DEF EventsTrue
  <2>2. EventsFalse(k)' = EventsFalse(k)
    BY <1>1 DEF EventsFalse
  <2>3. Reused(k)' = Reused(k)
    BY <1>1 DEF Reused
  <2> QED BY <2>1, <2>2, <2>3 DEF RawTrust
<1> QED BY <1>1, <1>2, <1>3, <1>5, <1>6

\* The votes are those that are true and those that are not.
LEMMA VotesSplit ==
  ASSUME IsFiniteSet(votes)
  PROVE  Cardinality({v \in votes : v.value}) + Cardinality({v \in votes : ~v.value})
           = Cardinality(votes)
<1> DEFINE yes == {v \in votes : v.value}
           no  == {v \in votes : ~v.value}
<1>1. yes \cup no = votes /\ yes \cap no = {}
  OBVIOUS
<1>2. IsFiniteSet(yes) /\ IsFiniteSet(no)
  BY FS_Subset
<1> HIDE DEF yes, no
<1>3. Cardinality(yes \cup no) = Cardinality(yes) + Cardinality(no) - Cardinality(yes \cap no)
  BY <1>2, FS_Union
<1>4. Cardinality(yes) \in Nat /\ Cardinality(no) \in Nat /\ Cardinality({}) = 0
  BY <1>2, FS_CardinalityType, FS_EmptySet
<1>5. Cardinality(yes) + Cardinality(no) = Cardinality(votes)
  <2>1. Cardinality(yes \cup no) = Cardinality(votes) /\ Cardinality(yes \cap no) = 0
    BY <1>1, <1>4, Zenon
  <2> QED BY ONLY <1>3, <1>4, <2>1
<1> QED BY <1>5 DEF yes, no

\* The mean of the ratings reads nothing but who is rated and their trust.
LEMMA MeanReadsTrust ==
  ASSUME UNCHANGED TrustColumn(ratings)
  PROVE  MeanTrust(ratings)' = MeanTrust(ratings)
  BY DEF MeanTrust

\* Each statement takes the tables one step further.
LEMMA StatementAgrees ==
  ASSUME Sorts, OnPlan, Agreement, alone, NEW p \in Process, Statement(p), job'[p].answer # "error"
  PROVE  /\ Left(p) = 6 => \A k \in Key : ratings'[k] = NoRow
         /\ Left(p) = 5 => (RatedRows /\ RawCount)'
         /\ Left(p) <= 4 => (RatedRows /\ ClampedCount)'
         /\ Left(p) <= 2 => GroupSumsUp'
         /\ Left(p) <= 1 => UsersMirror'
         /\ job[p].kind = "metrics" /\ Left(p) <= 7 => VotesCounted'
<1>0. /\ \A k \in Key : ratings[k] = NoRow \/ ratings[k] \in Rating
      /\ \A k \in Key : ratings'[k] = NoRow \/ ratings'[k] \in Rating
      /\ NoRow \notin Rating
  <2>1. TableSorts'
    BY StatementTables
  <2>2. \A r \in Rating : r \in [et : Nat, ef : Nat, val : Nat, reused : Nat, trust : Int, prio : Int]
    BY UnitPositive DEF Rating, Share
  <2> QED BY <2>1, <2>2, NoRowAssump DEF Sorts, TableSorts
<1>1. ~Idle(p) /\ Left(p) \in Nat /\ UNCHANGED rows /\ ~Abort(p)
  <2>1. ~Idle(p) /\ Left(p) \in Nat /\ UNCHANGED rows
    BY StatementOfCall, AtTellsPlace
  <2>2. Abort(p) => job'[p].answer = "error"
    BY DEF Abort, IdleJob, Sorts, JobSorts
  <2> QED BY <2>1, <2>2
<1>2. /\ Rated' = Rated /\ Voiced' = Voiced /\ Coherence' = Coherence /\ votes' = votes
      /\ \A k \in Key : RawTrust(k)' = RawTrust(k) /\ EventsTrue(k)' = EventsTrue(k)
      /\ Rated \subseteq Key
  BY <1>1, CountsOfRows DEF Rated
<1>3. /\ Left(p) = 5 => \A k \in Key : ratings[k] = NoRow
      /\ Left(p) = 4 => RatedRows /\ RawCount
      /\ Left(p) <= 3 => RatedRows /\ ClampedCount
      /\ Left(p) <= 1 => GroupSumsUp
      /\ Left(p) <= 0 => UsersMirror
      /\ job[p].kind = "metrics" /\ Left(p) <= 6 => VotesCounted
  BY <1>1 DEF Agreement
<1>4. job[p].kind = "metrics" /\ Left(p) <= 7 => VotesCounted'
  <2>1. CASE ProgressRow(p)
    <3>1. /\ progress'.yes = Cardinality({v \in votes : v.value})
          /\ progress'.no = Cardinality({v \in votes : ~v.value})
      BY <2>1 DEF ProgressRow
    <3>2. IsFiniteSet(votes)
      BY VotesFinite, FS_Subset DEF Sorts, RowSorts
    <3> QED BY <1>2, <3>1, <3>2, VotesSplit DEF VotesCounted
  <2>2. CASE ~ProgressRow(p)
    <3>1. ~At(p, "progress") /\ progress' = progress
      BY <2>2 DEF Statement, At, Delete, Insert, ClampScores, RefreshPriority, UpdateGroup,
          MirrorUsers, Propagate, NewerGroup, MergeMetrics, BlendMetrics
    <3>2. job[p].kind = "metrics" => ~(Left(p) >= 7)
      BY <1>1, <3>1, AtTellsPlace
    <3>3. job[p].kind = "metrics" => VotesCounted
      BY <1>1, <1>3, <3>2
    <3> QED BY <1>2, <3>1, <3>3 DEF VotesCounted
  <2> QED BY <2>1, <2>2
<1>5. CASE Delete(p)
  <2>1. Left(p) = 6
    BY <1>5, AtTellsPlace DEF Delete
  <2> QED BY <1>4, <1>5, <2>1 DEF Delete
<1>6. CASE Insert(p)
  <2>1. Left(p) = 5
    BY <1>6, AtTellsPlace DEF Insert
  <2>2. ratings' = [k \in Key |-> IF k \in Rated THEN Counted(k) ELSE ratings[k]]
    <3>1. Rows(ratings) = {}
      BY <1>3, <2>1 DEF Rows
    <3> QED BY <1>6, <3>1 DEF Insert
  <2>3. \A k \in Rated : Counted(k) # NoRow
    <3>1. IsFiniteSet(votes)
      BY VotesFinite, FS_Subset DEF Sorts, RowSorts
    <3> QED BY <1>0, <1>2, <3>1, CountedIsRating
  <2>4. RatedRows'
    BY <1>2, <1>3, <2>1, <2>2, <2>3 DEF RatedRows
  <2>5. RawCount'
    BY <1>2, <2>2 DEF RawCount, Counted
  <2> QED BY <1>4, <2>1, <2>4, <2>5
<1>7. CASE ClampScores(p)
  <2>1. Left(p) = 4 /\ RatedRows /\ RawCount
    BY <1>3, <1>7, AtTellsPlace DEF ClampScores
  <2>2. \A k \in Key : /\ (ratings'[k] # NoRow) <=> (ratings[k] # NoRow)
                       /\ ratings[k] # NoRow =>
                            ratings'[k] = [ratings[k] EXCEPT !.trust = Clamp(@, -Unit, Unit)]
    <3>1. ratings' = [k \in Key |-> IF ratings[k] = NoRow THEN NoRow
                                    ELSE [ratings[k] EXCEPT !.trust = Clamp(@, -Unit, Unit)]]
      BY <1>7 DEF ClampScores
    <3>2. \A k \in Key : ratings[k] # NoRow => ratings'[k] # NoRow
      <4> SUFFICES ASSUME NEW k \in Key, ratings[k] # NoRow PROVE ratings'[k] # NoRow
        OBVIOUS
      <4>1. ratings[k] \in Rating /\ Clamp(ratings[k].trust, -Unit, Unit) \in Int
        BY <1>0, ClampTrust DEF Rating
      <4>2. ratings'[k] \in Rating
        BY <3>1, <4>1 DEF Rating
      <4> QED BY <1>0, <4>2
    <3> QED BY <3>1, <3>2
  <2>3. RatedRows'
    BY <1>2, <2>1, <2>2 DEF RatedRows
  <2>4. ClampedCount'
    <3> SUFFICES ASSUME NEW k \in Rated
                 PROVE  /\ ratings'[k].trust = Clamp(RawTrust(k)', -Unit, Unit)
                        /\ ratings'[k].et = EventsTrue(k)'
      BY <1>2 DEF ClampedCount
    <3>1. k \in Key /\ ratings[k] # NoRow /\ ratings[k] \in Rating
      BY <1>0, <1>2, <2>1 DEF RatedRows
    <3>2. ratings'[k].trust = Clamp(ratings[k].trust, -Unit, Unit) /\ ratings'[k].et = ratings[k].et
      BY <2>2, <3>1 DEF Rating
    <3> QED BY <1>2, <2>1, <3>1, <3>2 DEF RawCount
  <2> QED BY <1>4, <2>1, <2>3, <2>4
<1>8. ASSUME Left(p) <= 3, \A k \in Key : (ratings'[k] # NoRow) <=> (ratings[k] # NoRow),
             \A k \in Key : ratings[k] # NoRow =>
                 ratings'[k].trust = ratings[k].trust /\ ratings'[k].et = ratings[k].et
      PROVE  RatedRows' /\ ClampedCount' /\ TrustColumn(ratings)' = TrustColumn(ratings)
             /\ Rows(ratings)' = Rows(ratings)
  <2>1. RatedRows /\ ClampedCount
    BY <1>3, <1>8
  <2>2. RatedRows'
    BY <1>2, <1>8, <2>1 DEF RatedRows
  <2>3. ClampedCount'
    <3> SUFFICES ASSUME NEW k \in Rated
                 PROVE  /\ ratings'[k].trust = Clamp(RawTrust(k)', -Unit, Unit)
                        /\ ratings'[k].et = EventsTrue(k)'
      BY <1>2 DEF ClampedCount
    <3>1. k \in Key /\ ratings[k] # NoRow
      BY <1>2, <2>1 DEF RatedRows
    <3> QED BY <1>2, <1>8, <2>1, <3>1 DEF ClampedCount
  <2>4. Rows(ratings)' = Rows(ratings)
    BY <1>8 DEF Rows
  <2>5. TrustColumn(ratings)' = TrustColumn(ratings)
    <3>1. \A k \in Rows(ratings) : ratings'[k].trust = ratings[k].trust
      BY <1>8 DEF Rows
    <3> QED BY <2>4, <3>1 DEF TrustColumn
  <2> QED BY <2>2, <2>3, <2>4, <2>5
<1>9. ASSUME UNCHANGED ratings
      PROVE  /\ \A k \in Key : (ratings'[k] # NoRow) <=> (ratings[k] # NoRow)
             /\ \A k \in Key : ratings[k] # NoRow =>
                    ratings'[k].trust = ratings[k].trust /\ ratings'[k].et = ratings[k].et
  BY <1>9
<1>10. CASE RefreshPriority(p)
  <2>1. CASE Left(p) = 3
    <3>1. \A k \in Key :
            /\ (ratings'[k] # NoRow) <=> (ratings[k] # NoRow)
            /\ ratings[k] # NoRow =>
                   ratings'[k].trust = ratings[k].trust /\ ratings'[k].et = ratings[k].et
      <4> SUFFICES ASSUME NEW k \in Key
                   PROVE  /\ (ratings'[k] # NoRow) <=> (ratings[k] # NoRow)
                          /\ ratings[k] # NoRow => /\ ratings'[k].trust = ratings[k].trust
                                                   /\ ratings'[k].et = ratings[k].et
        OBVIOUS
      <4>1. CASE ratings[k] = NoRow
        BY <1>10, <4>1 DEF RefreshPriority
      <4>2. CASE ratings[k] # NoRow
        <5>1. ratings[k] \in Rating /\ ratings'[k] = [ratings[k] EXCEPT !.prio = NextPriority(k)]
          BY <1>0, <1>10, <4>2 DEF RefreshPriority
        <5>2. NextPriority(k) \in Share
          BY <4>2, <5>1, NextPriorityIsShare DEF Sorts, TableSorts
        <5>3. ratings'[k] \in Rating /\ ratings'[k].trust = ratings[k].trust
                /\ ratings'[k].et = ratings[k].et
          BY <5>1, <5>2 DEF Rating
        <5> QED BY <1>0, <4>2, <5>3
      <4> QED BY <4>1, <4>2
    <3>2. RatedRows' /\ ClampedCount'
      BY <1>8, <2>1, <3>1
    <3> QED BY <1>4, <2>1, <3>2
  <2>2. CASE Left(p) # 3
    <3>1. Left(p) >= 7
      BY <1>10, <2>2, AtTellsPlace DEF RefreshPriority
    <3> QED BY <1>1, <1>4, <3>1
  <2> QED BY <2>1, <2>2
<1>11. CASE UpdateGroup(p)
  <2>1. Left(p) = 2
    BY <1>11, AtTellsPlace DEF UpdateGroup
  <2>2. Voiced # {} /\ group' = [row |-> Summary, ts |-> Now] /\ ratings' = ratings
    BY <1>1, <1>11 DEF UpdateGroup
  <2>3. RatedRows' /\ ClampedCount'
    BY <1>8, <1>9, <2>1, <2>2
  <2>4. /\ group'.row.members = Rows(ratings) /\ group'.row.avg = MeanTrust(ratings)
        /\ group'.row.coherence = Coherence
    BY <2>2 DEF Summary
  <2>5. GroupSumsUp'
    BY <1>2, <2>2, <2>4 DEF GroupSumsUp
  <2> QED BY <1>4, <2>1, <2>3, <2>5
<1>12. CASE MirrorUsers(p)
  <2>1. CASE Left(p) = 1
    <3>1. UNCHANGED <<ratings, group>> /\ GroupSumsUp
      BY <1>3, <1>12, <2>1 DEF MirrorUsers
    <3>2. RatedRows' /\ ClampedCount'
      BY <1>8, <1>9, <2>1, <3>1
    <3>3. GroupSumsUp'
      BY <1>2, <3>1 DEF GroupSumsUp
    <3>4. UsersMirror'
      BY <1>12 DEF MirrorUsers, UsersMirror, Rows, Mirrored
    <3> QED BY <1>4, <2>1, <3>2, <3>3, <3>4
  <2>2. CASE Left(p) # 1
    <3>1. Left(p) >= 7
      BY <1>12, <2>2, AtTellsPlace DEF MirrorUsers
    <3> QED BY <1>1, <1>4, <3>1
  <2> QED BY <2>1, <2>2
<1>13. CASE BlendMetrics(p)
  <2>1. Left(p) = 0 /\ GroupSumsUp /\ UsersMirror /\ UNCHANGED <<group, users>>
    BY <1>3, <1>13, AtTellsPlace DEF BlendMetrics
  <2>2. \A k \in Key :
            /\ (ratings'[k] # NoRow) <=> (ratings[k] # NoRow)
            /\ ratings[k] # NoRow =>
                   ratings'[k].trust = ratings[k].trust /\ ratings'[k].et = ratings[k].et
    <3> DEFINE remote  == job[p].batch.metrics
               prio(k) == BlendPriority(Metric(k).prio, remote[k].prio)
    <3>1. ratings' = [k \in Key |-> IF k \notin DOMAIN remote \/ ratings[k] = NoRow THEN ratings[k]
                                    ELSE [ratings[k] EXCEPT !.prio = prio(k)]]
      BY <1>13 DEF BlendMetrics
    <3> HIDE DEF remote, prio
    <3> SUFFICES ASSUME NEW k \in Key
                 PROVE  /\ (ratings'[k] # NoRow) <=> (ratings[k] # NoRow)
                        /\ ratings[k] # NoRow => /\ ratings'[k].trust = ratings[k].trust
                                                 /\ ratings'[k].et = ratings[k].et
      OBVIOUS
    <3>2. CASE k \notin DOMAIN remote \/ ratings[k] = NoRow
      BY <3>1, <3>2
    <3>3. CASE k \in DOMAIN remote /\ ratings[k] # NoRow
      <4>1. ratings[k] \in Rating /\ ratings'[k] = [ratings[k] EXCEPT !.prio = prio(k)]
        BY <1>0, <3>1, <3>3
      <4>2. ratings'[k].trust = ratings[k].trust /\ ratings'[k].et = ratings[k].et
        BY <4>1 DEF Rating
      <4>3. ratings'[k] # NoRow
        <5>1. job[p].batch \in Batch
          BY <1>13, PlanTail DEF BlendMetrics, At, Idle, FromPeer, Sorts, JobSorts
        <5>2. remote[k].prio \in Int /\ Metric(k).prio \in Int
          <6>1. remote[k] \in [quality : Int, prio : Int]
            BY <3>3, <5>1, BatchAssump DEF remote
          <6>2. Metric(k) \in Measure
            BY MetricIsMeasure DEF Sorts, TableSorts
          <6> QED BY <6>1, <6>2, UnitPositive DEF Measure, Share
        <5>3. prio(k) \in Share
          BY <5>2, BlendShareBounds DEF prio
        <5>4. ratings'[k] \in Rating
          BY <4>1, <5>3 DEF Rating
        <5> QED BY <1>0, <5>4
      <4> QED BY <3>3, <4>2, <4>3
    <3> QED BY <3>2, <3>3
  <2>3. /\ RatedRows' /\ ClampedCount' /\ TrustColumn(ratings)' = TrustColumn(ratings)
        /\ Rows(ratings)' = Rows(ratings)
    BY <1>8, <2>1, <2>2
  <2>4. GroupSumsUp'
    <3>1. MeanTrust(ratings)' = MeanTrust(ratings)
      BY <2>3, MeanReadsTrust
    <3> QED BY <1>2, <2>1, <2>3, <3>1 DEF GroupSumsUp
  <2>5. UsersMirror'
    <3>1. \A k \in Rows(ratings) : ratings'[k].trust = ratings[k].trust
      BY <2>2 DEF Rows
    <3> QED BY <2>1, <2>3, <3>1 DEF UsersMirror
  <2> QED BY <1>4, <2>1, <2>3, <2>4, <2>5
<1>14. CASE Propagate(p) \/ NewerGroup(p) \/ MergeMetrics(p) \/ ProgressRow(p)
  <2>1. Left(p) >= 7
    BY <1>14, AtTellsPlace DEF Propagate, NewerGroup, MergeMetrics, ProgressRow
  <2> QED BY <1>1, <1>4, <2>1
<1> QED BY <1>5, <1>6, <1>7, <1>10, <1>11, <1>12, <1>13, <1>14 DEF Statement

\* Every step keeps the tables in the agreement that is due.
LEMMA AgreementStep == ASSUME Sorts, OnPlan, Agreement, [Next]_vars PROVE Agreement'
<1> SUFFICES ASSUME alone' PROVE Agreement'
  BY DEF Agreement
<1>1. CASE UNCHANGED vars
  BY <1>1, CountsOfRows DEF Agreement, Idle, Left, RatedRows, RawCount, ClampedCount, GroupSumsUp,
      UsersMirror, VotesCounted, MeanTrust, TrustColumn, Rows, Rated, vars, tables
<1>2. ASSUME NEW p \in Process, NEW kind \in {"recount", "metrics", "reconcile"},
             NEW batch \in Batch \cup {NoRow}, Begin(p, kind, PlanOf(kind), batch)
      PROVE  Agreement'
  <2>1. \A q \in Process : Idle(q)
    BY <1>2 DEF Begin, Overlap
  <2>2. /\ ~Idle(p)' /\ job'[p].kind = kind /\ Left(p)' >= 6 /\ (kind = "metrics" => Left(p)' = 7)
        /\ \A q \in Process \ {p} : job'[q] = job[q]
    BY <1>2, CallBegins
  <2>3. \A q \in Process \ {p} : Idle(q)'
    BY <2>1, <2>2 DEF Idle
  <2>4. Left(p)' \in Int
    BY <1>2, CallIsPlaced
  <2> QED BY <2>2, <2>3, <2>4 DEF Agreement
<1>3. ASSUME NEW p \in Process, Statement(p) PROVE Agreement'
  <2>1. alone /\ ~Idle(p) /\ (Advance(p) \/ Abort(p)) /\ Left(p) \in Nat
    BY <1>3, StatementOfCall, AtTellsPlace
  <2>2. \A q \in Process \ {p} : Idle(q) /\ job'[q] = job[q]
    BY <2>1, StatementEnds DEF Agreement, Sorts
  <2>3. \A q \in Process \ {p} : Idle(q)'
    BY <2>2 DEF Idle
  <2>4. CASE Idle(p)'
    BY <2>3, <2>4 DEF Agreement
  <2>5. CASE ~Idle(p)'
    <3>1. job'[p].answer = "none" /\ Left(p)' = Left(p) - 1 /\ job'[p].kind = job[p].kind
      BY <2>1, <2>5, CallAdvances DEF OnPlan
    <3>2. /\ Left(p) = 6 => \A k \in Key : ratings'[k] = NoRow
          /\ Left(p) = 5 => (RatedRows /\ RawCount)'
          /\ Left(p) <= 4 => (RatedRows /\ ClampedCount)'
          /\ Left(p) <= 2 => GroupSumsUp'
          /\ Left(p) <= 1 => UsersMirror'
          /\ job[p].kind = "metrics" /\ Left(p) <= 7 => VotesCounted'
      BY <1>3, <2>1, <3>1, StatementAgrees
    <3>3. /\ Left(p)' = 5 => Left(p) = 6
          /\ Left(p)' = 4 => Left(p) = 5
          /\ Left(p)' <= 3 => Left(p) <= 4
          /\ Left(p)' <= 1 => Left(p) <= 2
          /\ Left(p)' <= 0 => Left(p) <= 1
          /\ Left(p)' <= 6 => Left(p) <= 7
      BY ONLY <2>1, <3>1
    <3>4. /\ Left(p)' = 5 => \A k \in Key : ratings'[k] = NoRow
          /\ Left(p)' = 4 => (RatedRows /\ RawCount)'
          /\ Left(p)' <= 3 => (RatedRows /\ ClampedCount)'
          /\ Left(p)' <= 1 => GroupSumsUp'
          /\ Left(p)' <= 0 => UsersMirror'
          /\ job'[p].kind = "metrics" /\ Left(p)' <= 6 => VotesCounted'
      BY <3>1, <3>2, <3>3
    <3> QED BY <2>3, <3>4 DEF Agreement
  <2> QED BY <2>4, <2>5
<1>4. ASSUME NEW p \in Process, Kill(p) PROVE Agreement'
  <2>1. alone /\ ~Idle(p) /\ job' = [job EXCEPT ![p] = IdleJob] /\ IdleJob.todo = <<>>
    BY <1>4 DEF Kill, IdleJob
  <2>2. \A q \in Process : Idle(q)'
    BY <2>1 DEF Agreement, Idle, Sorts, JobSorts
  <2> QED BY <2>2 DEF Agreement
<1>5. ASSUME Handler PROVE Agreement'
  <2>1. UNCHANGED job /\ \A q \in Process : Idle(q)
    BY <1>5 DEF Handler, Busy
  <2>2. \A q \in Process : Idle(q)'
    BY <2>1 DEF Idle
  <2> QED BY <2>2 DEF Agreement
<1>6. UNCHANGED vars
        \/ (\E p \in Process : \E kind \in {"recount", "metrics", "reconcile"} :
              \E batch \in Batch \cup {NoRow} : Begin(p, kind, PlanOf(kind), batch))
        \/ (\E p \in Process : Statement(p) \/ Kill(p))
        \/ Handler
  BY Steps DEF UsersRole, TrustDelegate, AddEvent, ScoreEvent, AddImpact
<1> QED BY <1>1, <1>2, <1>3, <1>4, <1>5, <1>6

\* All parts of the invariant together.
LEMMA AgreementInvariant == Spec => [](Sorts /\ InRange /\ OnPlan /\ Agreement)
<1>1. Init => OnPlan /\ Agreement
  <2> SUFFICES ASSUME Init PROVE OnPlan /\ Agreement
    OBVIOUS
  <2>1. \A p \in Process : Idle(p)
    BY DEF Init, Idle, IdleJob
  <2> QED BY <2>1 DEF OnPlan, Agreement
<1>2. Sorts /\ OnPlan /\ Agreement /\ [Next]_vars => (OnPlan /\ Agreement)'
  BY OnPlanStep, AgreementStep
<1> QED BY <1>1, <1>2, LedgerInvariant, PTL DEF Spec

\* A call is answered by one of its statements.
LEMMA AnsweredInCall ==
  ASSUME Sorts, OnPlan, [Next]_vars, NEW p \in Process, job'[p].answer # "none", job[p].answer = "none"
  PROVE  Statement(p)
<1>1. job'[p] # job[p]
  OBVIOUS
<1>2. ASSUME NEW q \in Process, NEW kind \in {"recount", "metrics", "reconcile"},
             NEW batch \in Batch \cup {NoRow}, Begin(q, kind, PlanOf(kind), batch)
      PROVE  FALSE
  BY <1>1, <1>2, CallBegins
<1>3. ASSUME NEW q \in Process, Kill(q) PROVE FALSE
  BY <1>1, <1>3 DEF Kill, IdleJob, Sorts, JobSorts
<1>4. ASSUME NEW q \in Process, Statement(q) PROVE q = p
  BY <1>1, <1>4, StatementOfCall, StatementEnds DEF Sorts
<1>5. UNCHANGED job
      \/ (\E q \in Process : \E kind \in {"recount", "metrics", "reconcile"} :
            \E batch \in Batch \cup {NoRow} : Begin(q, kind, PlanOf(kind), batch))
      \/ (\E q \in Process : Statement(q) \/ Kill(q))
  BY Steps DEF Handler, UsersRole, TrustDelegate, AddEvent, ScoreEvent, AddImpact, vars
<1> QED BY <1>1, <1>2, <1>3, <1>4, <1>5

\* A call is answered ok by its last statement.
LEMMA AnsweredByStatement ==
  ASSUME Sorts, OnPlan, [Next]_vars, NEW p \in Process, job'[p].answer = "ok", job[p].answer = "none"
  PROVE  Statement(p) /\ Left(p) \in Nat /\ Left(p) <= 1
         /\ (Left(p) = 1 => job[p].kind # "reconcile")
<1>1. Statement(p)
  BY AnsweredInCall
<1>2. ~Idle(p) /\ Left(p) \in Nat /\ Left(p) = IF job[p].kind = "reconcile" THEN 0 ELSE 1
  BY <1>1, StatementOfCall, CallAdvances
<1>3. Left(p) <= 1 /\ (Left(p) = 1 => job[p].kind # "reconcile")
  BY ONLY <1>2
<1> QED BY <1>1, <1>2, <1>3

-----------------------------------------------------------------------------
(* The two copies of a priority.                                              *)

\* A node's priority is the same in node_ratings and in node_metrics.
SamePriority(k) == ratings[k] # NoRow => metrics[k] # NoRow /\ ratings[k].prio = metrics[k].prio

\* From the last refresh of a call that has the database to itself to its end.
PriorityAgreement ==
    alone => \A p \in Process : ~Idle(p) /\ Left(p) <= 2 => \A k \in Key : SamePriority(k)

\* A row of node_metrics is a row.
LEMMA MeasureIsRow == NoRow \notin Measure
<1>1. \A r \in Measure : r \in [relay : Nat, quality : Int, prio : Int]
  BY UnitPositive DEF Measure, Share
<1> QED BY <1>1, NoRowAssump

\* A refresh writes one priority to both tables.
LEMMA RefreshPairs ==
  ASSUME Sorts, NEW p \in Process, RefreshPriority(p), NEW k \in Key
  PROVE  SamePriority(k)'
<1>1. CASE ratings[k] = NoRow
  <2>1. ratings'[k] = NoRow
    BY <1>1 DEF RefreshPriority
  <2> QED BY <2>1 DEF SamePriority
<1>2. CASE ratings[k] # NoRow
  <2>1. /\ ratings'[k] = [ratings[k] EXCEPT !.prio = NextPriority(k)]
        /\ metrics'[k] = [Metric(k) EXCEPT !.prio = NextPriority(k)]
    BY <1>2 DEF RefreshPriority
  <2>2. ratings[k] \in Rating /\ Metric(k) \in Measure /\ NextPriority(k) \in Share
    BY <1>2, MetricIsMeasure, NextPriorityIsShare DEF Sorts, TableSorts
  <2>3. ratings'[k].prio = NextPriority(k) /\ metrics'[k].prio = NextPriority(k) /\ metrics'[k] \in Measure
    BY <2>1, <2>2 DEF Rating, Measure
  <2> QED BY <2>3, MeasureIsRow DEF SamePriority
<1> QED BY <1>1, <1>2

\* So does a blend, to the rows it finds.
LEMMA BlendPairs ==
  ASSUME Sorts, NEW p \in Process, BlendMetrics(p), NEW k \in Key, SamePriority(k)
  PROVE  SamePriority(k)'
<1> DEFINE remote     == job[p].batch.metrics
           prio(j)    == BlendPriority(Metric(j).prio, remote[j].prio)
           quality(j) == BlendQuality(Metric(j).quality, remote[j].quality)
<1>1. /\ metrics' = [j \in Key |-> IF j \notin DOMAIN remote THEN metrics[j]
                       ELSE [relay |-> Metric(j).relay, prio |-> prio(j), quality |-> quality(j)]]
      /\ ratings' = [j \in Key |-> IF j \notin DOMAIN remote \/ ratings[j] = NoRow THEN ratings[j]
                                   ELSE [ratings[j] EXCEPT !.prio = prio(j)]]
  BY DEF BlendMetrics
<1> HIDE DEF remote, prio, quality
<1>3. CASE k \notin DOMAIN remote
  BY <1>1, <1>3 DEF SamePriority
<1>4. CASE ratings[k] = NoRow
  BY <1>1, <1>4 DEF SamePriority
<1>5. CASE k \in DOMAIN remote /\ ratings[k] # NoRow
  <2>1. /\ metrics'[k] = [relay |-> Metric(k).relay, prio |-> prio(k), quality |-> quality(k)]
        /\ ratings'[k] = [ratings[k] EXCEPT !.prio = prio(k)] /\ ratings[k] \in Rating
    BY <1>1, <1>5 DEF Sorts, TableSorts
  <2>2. metrics'[k].prio = prio(k) /\ ratings'[k].prio = prio(k)
    BY <2>1 DEF Rating
  <2>3. metrics[k] # NoRow
    BY <1>5 DEF SamePriority
  <2>4. metrics'[k] # NoRow
    <3>1. metrics'[k].relay = Metric(k).relay /\ metrics'[k].prio \in Share /\ metrics'[k].quality \in Share
      <4>1. job[p].batch \in Batch
        BY PlanTail DEF BlendMetrics, At, Idle, FromPeer, Sorts, JobSorts
      <4>2. remote[k] \in [quality : Int, prio : Int]
        BY <1>5, <4>1, BatchAssump DEF remote
      <4>3. Metric(k) \in Measure
        BY MetricIsMeasure DEF Sorts, TableSorts
      <4>4. /\ Metric(k).prio \in Int /\ remote[k].prio \in Int
            /\ Metric(k).quality \in Int /\ remote[k].quality \in Int
        BY <4>2, <4>3, UnitPositive DEF Measure, Share
      <4>5. prio(k) \in Share /\ quality(k) \in Share
        BY <4>4, BlendShareBounds DEF prio, quality
      <4> QED BY <2>1, <4>5
    <3>2. Metric(k).relay \in Nat
      BY MetricIsMeasure DEF Sorts, TableSorts, Measure
    <3>3. metrics'[k] \in Measure
      BY <2>1, <3>1, <3>2 DEF Measure
    <3> QED BY <3>3, MeasureIsRow
  <2> QED BY <2>2, <2>4 DEF SamePriority
<1> QED BY <1>3, <1>4, <1>5

\* A statement from the last refresh on leaves both copies alike, and an earlier one
\* of a call alone answers nothing.
LEMMA StatementPairs ==
  ASSUME Sorts, OnPlan, Agreement, PriorityAgreement, alone, NEW p \in Process, Statement(p)
  PROVE  /\ Left(p) <= 3 => \A k \in Key : SamePriority(k)'
         /\ job'[p].answer # "none" => Left(p) <= 3
<1>1. /\ ~Idle(p) /\ Left(p) \in Nat /\ (Advance(p) \/ Abort(p))
      /\ Left(p) <= 2 => \A k \in Key : SamePriority(k)
  BY StatementOfCall, AtTellsPlace DEF PriorityAgreement
<1>2. ASSUME Left(p) <= 3 PROVE \A k \in Key : SamePriority(k)'
  <2>1. CASE RefreshPriority(p)
    BY <2>1, RefreshPairs
  <2>2. CASE UpdateGroup(p) \/ MirrorUsers(p)
    <3>1. Left(p) <= 2
      BY <1>1, <1>2, <2>2, AtTellsPlace DEF UpdateGroup, MirrorUsers
    <3>2. UNCHANGED <<ratings, metrics>>
      BY <2>2 DEF UpdateGroup, MirrorUsers
    <3> QED BY <1>1, <3>1, <3>2 DEF SamePriority
  <2>3. CASE BlendMetrics(p)
    <3>1. Left(p) <= 2
      BY <2>3, AtTellsPlace DEF BlendMetrics
    <3> QED BY <1>1, <2>3, <3>1, BlendPairs
  <2>4. CASE \/ Delete(p) \/ Insert(p) \/ ClampScores(p) \/ Propagate(p) \/ NewerGroup(p)
             \/ MergeMetrics(p) \/ ProgressRow(p)
    <3>1. \/ At(p, "delete") \/ At(p, "insert") \/ At(p, "clamp") \/ At(p, "progress")
          \/ \E step \in {"propagate", "newerGroup", "metrics"} : At(p, step)
      BY <2>4 DEF Delete, Insert, ClampScores, Propagate, NewerGroup, MergeMetrics, ProgressRow
    <3>2. Left(p) \in {4, 5, 6, 7} \/ Left(p) >= 7
      BY <3>1, AtTellsPlace
    <3> QED BY ONLY <1>1, <1>2, <3>2
  <2> QED BY <2>1, <2>2, <2>3, <2>4 DEF Statement
<1>3. ASSUME job'[p].answer # "none" PROVE Left(p) <= 3
  <2>1. CASE Abort(p) /\ ~Advance(p)
    <3>1. UpdateGroup(p) \/ Insert(p)
      BY <2>1 DEF Statement, Delete, ClampScores, RefreshPriority, MirrorUsers, Propagate, NewerGroup,
                  MergeMetrics, BlendMetrics, ProgressRow
    <3>2. CASE UpdateGroup(p)
      BY <3>2, AtTellsPlace DEF UpdateGroup
    <3>3. CASE Insert(p)
      <4>1. Left(p) = 5
        BY <3>3, AtTellsPlace DEF Insert
      <4>2. Rows(ratings) = {}
        BY <1>1, <4>1 DEF Agreement, Rows
      <4> QED BY <2>1, <3>3, <4>2 DEF Insert
    <3> QED BY <3>1, <3>2, <3>3
  <2>2. CASE Advance(p)
    <3>1. job'[p].answer = "ok"
      <4>1. CASE Len(job[p].todo) = 1
        BY <2>2, <4>1 DEF Advance, IdleJob, Sorts, JobSorts
      <4>2. CASE Len(job[p].todo) # 1
        <5>1. job'[p] = [job[p] EXCEPT !.todo = Tail(@)] /\ job[p] \in Job /\ job[p].answer = "none"
          BY <1>1, <2>2, <4>2 DEF Advance, Sorts, JobSorts, OnPlan
        <5> QED BY <1>3, <5>1 DEF Job
      <4> QED BY <4>1, <4>2
    <3>2. Left(p) = IF job[p].kind = "reconcile" THEN 0 ELSE 1
      BY <1>1, <3>1, CallAdvances
    <3> QED BY ONLY <3>2
  <2> QED BY <1>1, <2>1, <2>2
<1> QED BY <1>2, <1>3

\* Every step keeps them alike.
LEMMA PriorityStep ==
  ASSUME Sorts, OnPlan, Agreement, PriorityAgreement, [Next]_vars PROVE PriorityAgreement'
<1> SUFFICES ASSUME alone' PROVE PriorityAgreement'
  BY DEF PriorityAgreement
<1>1. CASE UNCHANGED vars
  BY <1>1 DEF PriorityAgreement, SamePriority, Idle, Left, vars, tables
<1>2. ASSUME NEW p \in Process, NEW kind \in {"recount", "metrics", "reconcile"},
             NEW batch \in Batch \cup {NoRow}, Begin(p, kind, PlanOf(kind), batch)
      PROVE  PriorityAgreement'
  <2>1. \A q \in Process : Idle(q)
    BY <1>2 DEF Begin, Overlap
  <2>2. Left(p)' >= 6 /\ Left(p)' \in Int /\ \A q \in Process \ {p} : job'[q] = job[q]
    BY <1>2, CallBegins, CallIsPlaced
  <2>3. \A q \in Process \ {p} : Idle(q)'
    BY <2>1, <2>2 DEF Idle
  <2>4. ~(Left(p)' <= 2)
    BY ONLY <2>2
  <2> QED BY <2>3, <2>4 DEF PriorityAgreement
<1>3. ASSUME NEW p \in Process, Statement(p) PROVE PriorityAgreement'
  <2>1. alone /\ ~Idle(p) /\ (Advance(p) \/ Abort(p)) /\ Left(p) \in Nat
    BY <1>3, StatementOfCall, AtTellsPlace
  <2>2. \A q \in Process \ {p} : Idle(q) /\ job'[q] = job[q]
    BY <2>1, StatementEnds DEF Agreement, Sorts
  <2>3. \A q \in Process \ {p} : Idle(q)'
    BY <2>2 DEF Idle
  <2>4. CASE Idle(p)'
    BY <2>3, <2>4 DEF PriorityAgreement
  <2>5. CASE ~Idle(p)'
    <3>1. Left(p)' = Left(p) - 1
      BY <2>1, <2>5, CallAdvances
    <3>2. Left(p)' <= 2 => Left(p) <= 3
      BY ONLY <2>1, <3>1
    <3>3. Left(p) <= 3 => \A k \in Key : SamePriority(k)'
      BY <1>3, <2>1, StatementPairs
    <3> QED BY <2>3, <3>2, <3>3 DEF PriorityAgreement
  <2> QED BY <2>4, <2>5
<1>4. ASSUME NEW p \in Process, Kill(p) PROVE PriorityAgreement'
  <2>1. alone /\ ~Idle(p) /\ job' = [job EXCEPT ![p] = IdleJob] /\ IdleJob.todo = <<>>
    BY <1>4 DEF Kill, IdleJob
  <2>2. \A q \in Process : Idle(q)'
    BY <2>1 DEF Agreement, Idle, Sorts, JobSorts
  <2> QED BY <2>2 DEF PriorityAgreement
<1>5. ASSUME Handler PROVE PriorityAgreement'
  <2>1. UNCHANGED job /\ \A q \in Process : Idle(q)
    BY <1>5 DEF Handler, Busy
  <2>2. \A q \in Process : Idle(q)'
    BY <2>1 DEF Idle
  <2> QED BY <2>2 DEF PriorityAgreement
<1>6. UNCHANGED vars
        \/ (\E p \in Process : \E kind \in {"recount", "metrics", "reconcile"} :
              \E batch \in Batch \cup {NoRow} : Begin(p, kind, PlanOf(kind), batch))
        \/ (\E p \in Process : Statement(p) \/ Kill(p))
        \/ Handler
  BY Steps DEF UsersRole, TrustDelegate, AddEvent, ScoreEvent, AddImpact
<1> QED BY <1>1, <1>2, <1>3, <1>4, <1>5, <1>6

-----------------------------------------------------------------------------
(* The theorems.                                                              *)

\* Every table keeps its columns, every trust and every share its range, whatever is
\* counted and whatever peers send: only a kill or an overlap can show a raw score.
THEOREM ScoresStayInRange == Spec => []ScoresInRange
<1>1. Sorts /\ InRange => ScoresInRange
  <2> SUFFICES ASSUME Sorts, InRange PROVE ScoresInRange
    OBVIOUS
  <2>1. TypeOK
    <3>1. \A k \in Rows(ratings) : ratings[k] \in Rating
      BY DEF Rows, Sorts, TableSorts
    <3>2. \A k \in Rows(metrics) : metrics[k] \in Measure
      BY DEF Rows, Sorts, TableSorts
    <3>3. \A k \in Rows(users) : users[k] \in User
      BY DEF Rows, Sorts, TableSorts
    <3>4. \A p \in Process : job[p].answer \in {"none", "ok", "error"}
      BY DEF Sorts, JobSorts, Job
    <3> QED BY <3>1, <3>2, <3>3, <3>4 DEF TypeOK, Rating, Measure, User, Sorts, RowSorts, TableSorts
  <2>2. \A k \in Rows(metrics) : metrics[k].quality \in Share /\ metrics[k].prio \in Share
    BY DEF Rows, Sorts, TableSorts, Measure
  <2>3. \A k \in Rows(ratings) : ratings[k].prio \in Share
    BY DEF Rows, Sorts, TableSorts, Rating
  <2> QED BY <2>1, <2>2, <2>3 DEF ScoresInRange, InRange, Rows
<1> QED BY <1>1, LedgerInvariant, PTL

\* No user is lost, and no role changes but by a request to change it.
THEOREM UsersKeepRoles == Spec => RolesSurvive
<1> DEFINE Kept == \A k \in Rows(users) :
                     /\ users'[k] # NoRow
                     /\ users'[k].role # users[k].role => UsersRole(k, users'[k].role)
<1>1. Sorts /\ Sorts' /\ [Next]_vars => [Kept]_vars
  <2> SUFFICES ASSUME Sorts, Sorts', [Next]_vars, NEW k \in Key, users[k] # NoRow
               PROVE  /\ users'[k] # NoRow
                      /\ users'[k].role # users[k].role => UsersRole(k, users'[k].role)
    BY DEF Rows
  <2>0. users[k] \in User /\ (users'[k] \in User => users'[k] # NoRow)
    BY NoRowAssump DEF Sorts, TableSorts, User
  <2>1. CASE UNCHANGED users
    BY <2>1
  <2>2. ASSUME NEW j \in Key, NEW role \in Role, UsersRole(j, role)
        PROVE  /\ users'[k] # NoRow
               /\ users'[k].role # users[k].role => UsersRole(k, users'[k].role)
    <3>1. users'[j] = [role |-> role, trust |-> IF users[j] = NoRow THEN 0 ELSE users[j].trust]
      BY <2>2 DEF UsersRole, Sorts, TableSorts
    <3>2. CASE j = k
      <4>1. users'[k].role = role /\ users'[k] \in User
        BY <2>0, <3>1, <3>2 DEF User
      <4> QED BY <2>0, <2>2, <3>2, <4>1
    <3>3. CASE j # k
      BY <2>0, <2>2, <3>3 DEF UsersRole, Sorts, TableSorts
    <3> QED BY <3>2, <3>3
  <2>3. ASSUME NEW by \in Key, NEW j \in Key, NEW d \in Delta, TrustDelegate(by, j, d)
        PROVE  users'[k] # NoRow /\ users'[k].role = users[k].role
    <3>1. users' = [users EXCEPT ![j] = AdjustedTrust(j, d)]
      BY <2>3 DEF TrustDelegate
    <3>2. CASE j = k
      <4>1. users'[k] = AdjustedTrust(k, d)
        BY <3>1, <3>2 DEF Sorts, TableSorts
      <4>2. AdjustedTrust(k, d) \in User /\ AdjustedTrust(k, d).role = users[k].role
        BY <3>2, DelegationIsUser DEF Sorts
      <4> QED BY <2>0, <4>1, <4>2
    <3>3. CASE j # k
      BY <2>0, <3>1, <3>3 DEF Sorts, TableSorts
    <3> QED BY <3>2, <3>3
  <2>4. ASSUME NEW p \in Process, Statement(p)
        PROVE  users'[k] # NoRow /\ users'[k].role = users[k].role
    <3>1. users'[k] = users[k] \/ (ratings[k] # NoRow /\ users'[k] = Mirrored(k))
      <4>1. CASE MirrorUsers(p)
        <5>1. users'[k] = IF ratings[k] = NoRow THEN users[k] ELSE Mirrored(k)
          BY <4>1 DEF MirrorUsers
        <5> QED BY <5>1
      <4>2. CASE ~MirrorUsers(p)
        BY <2>4, <4>2 DEF Statement, Delete, Insert, ClampScores, RefreshPriority, UpdateGroup,
            Propagate, NewerGroup, MergeMetrics, BlendMetrics, ProgressRow
      <4> QED BY <4>1, <4>2
    <3>2. ratings[k] # NoRow => Mirrored(k) \in User /\ Mirrored(k).role = users[k].role
      BY <2>0 DEF Mirrored, User, Rating, Sorts, TableSorts
    <3> QED BY <2>0, <3>1, <3>2
  <2>5. UNCHANGED users \/ (\E p \in Process : Statement(p))
          \/ (\E j \in Key : \E role \in Role : UsersRole(j, role))
          \/ (\E by, j \in Key : \E d \in Delta : TrustDelegate(by, j, d))
    BY Steps DEF Begin, Kill, AddEvent, ScoreEvent, AddImpact, vars, tables
  <2> QED BY <2>1, <2>2, <2>3, <2>4, <2>5
<1> QED BY <1>1, LedgerInvariant, PTL DEF Spec, RolesSurvive

\* A delegation moves a trust in range by 0.2 at most.
THEOREM DelegationsAreSmall == Spec => DelegationBounded
<1> DEFINE Limited == \A k \in Rows(users) : users[k].trust \in Trust =>
                      \/ 5 * (users'[k].trust - users[k].trust) \in -Unit..Unit
                      \/ ratings[k] # NoRow /\ users'[k].trust = ratings[k].trust
<1>1. Sorts /\ [Next]_vars => [Limited]_vars
  <2> SUFFICES ASSUME Sorts, [Next]_vars, NEW k \in Key, users[k] # NoRow, users[k].trust \in Trust
               PROVE  \/ 5 * (users'[k].trust - users[k].trust) \in -Unit..Unit
                      \/ ratings[k] # NoRow /\ users'[k].trust = ratings[k].trust
    BY DEF Rows
  <2>0. users[k].trust \in Int /\ -Unit <= users[k].trust /\ users[k].trust <= Unit
    BY UnitPositive DEF Trust
  <2>1. CASE users'[k].trust = users[k].trust
    BY <2>0, <2>1, UnitPositive
  <2>2. ASSUME NEW j \in Key, NEW role \in Role, UsersRole(j, role)
        PROVE  users'[k].trust = users[k].trust
    <3>1. users' = [users EXCEPT ![j] = [role |-> role, trust |-> IF users[j] = NoRow THEN 0
                                                                ELSE users[j].trust]]
      BY <2>2 DEF UsersRole
    <3> QED BY <3>1 DEF Sorts, TableSorts
  <2>3. ASSUME NEW by \in Key, NEW j \in Key, NEW d \in Delta, TrustDelegate(by, j, d)
        PROVE  \/ users'[k].trust = users[k].trust
               \/ 5 * (users'[k].trust - users[k].trust) \in -Unit..Unit
    <3>1. users' = [users EXCEPT ![j] = AdjustedTrust(j, d)] /\ 5 * d \in -Unit..Unit /\ d \in Int
      BY <2>3, LedgerAssump DEF TrustDelegate, Allowed
    <3>2. CASE j = k
      <4>1. users'[k].trust = Clamp(users[k].trust + d, -Unit, Unit)
        BY <3>1, <3>2, DelegationIsUser DEF Sorts, TableSorts
      <4> QED BY <2>0, <3>1, <4>1, UnitPositive DEF Clamp
    <3>3. CASE j # k
      BY <3>1, <3>3 DEF Sorts, TableSorts
    <3> QED BY <3>2, <3>3
  <2>4. ASSUME NEW p \in Process, Statement(p)
        PROVE  users'[k] = users[k] \/ (ratings[k] # NoRow /\ users'[k].trust = ratings[k].trust)
    BY <2>4 DEF Statement, Delete, Insert, ClampScores, RefreshPriority, UpdateGroup, MirrorUsers,
        Propagate, NewerGroup, MergeMetrics, BlendMetrics, ProgressRow, Mirrored
  <2>5. UNCHANGED users \/ (\E p \in Process : Statement(p))
          \/ (\E j \in Key : \E role \in Role : UsersRole(j, role))
          \/ (\E by, j \in Key : \E d \in Delta : TrustDelegate(by, j, d))
    BY Steps DEF Begin, Kill, AddEvent, ScoreEvent, AddImpact, vars, tables
  <2> QED BY <2>1, <2>2, <2>3, <2>4, <2>5
<1> QED BY <1>1, LedgerInvariant, PTL DEF Spec, DelegationBounded

\* A call that had the database to itself and answers ok leaves the tables in agreement,
\* whatever calls were cut short before it.
THEOREM SuccessAgrees == Spec => SuccessIsConsistent
<1> DEFINE Consistent(p) ==
             /\ Voiced # {}
             /\ group'.row.members = Rows(ratings') /\ group'.row.avg = MeanTrust(ratings')
             /\ group'.row.coherence = Coherence
             /\ \A k \in Rows(ratings') : users'[k].trust = ratings'[k].trust
             /\ job[p].kind = "metrics" => progress'.yes + progress'.no = Cardinality(votes)
           Agreed == \A p \in Process :
                       job'[p].answer = "ok" /\ job[p].answer = "none" /\ alone => Consistent(p)
<1>1. Sorts /\ OnPlan /\ Agreement /\ [Next]_vars => [Agreed]_vars
  <2> SUFFICES ASSUME Sorts, OnPlan, Agreement, [Next]_vars, NEW p \in Process,
                      job'[p].answer = "ok", job[p].answer = "none", alone
               PROVE  Consistent(p)
    OBVIOUS
  <2>1. Statement(p) /\ Left(p) \in Nat /\ Left(p) <= 1 /\ UNCHANGED rows
    BY AnsweredByStatement, StatementOfCall
  <2>2. Left(p) <= 2 /\ Left(p) <= 7
    BY ONLY <2>1
  <2>3. /\ GroupSumsUp' /\ UsersMirror'
        /\ job[p].kind = "metrics" => VotesCounted'
    BY <2>1, <2>2, StatementAgrees
  <2>4. Voiced' = Voiced /\ Coherence' = Coherence /\ votes' = votes
    BY <2>1, CountsOfRows
  <2>5. Rows(ratings)' = Rows(ratings') /\ MeanTrust(ratings)' = MeanTrust(ratings')
    BY DEF MeanTrust
  <2> QED BY <2>3, <2>4, <2>5 DEF GroupSumsUp, UsersMirror, VotesCounted
<1> QED BY <1>1, AgreementInvariant, PTL DEF Spec, SuccessIsConsistent

\* When a call that had the database to itself is over, the two copies of every priority
\* are alike: a recount that fails does so after it has refreshed both.
THEOREM PrioritiesStayAlike == Spec => PrioritiesAgree
<1> DEFINE Alike == \A k \in Rows(ratings') : /\ metrics'[k] # NoRow
                                              /\ ratings'[k].prio = metrics'[k].prio
           Agreed == \A p \in Process :
                       job'[p].answer # "none" /\ job[p].answer = "none" /\ alone => Alike
<1>1. Init => PriorityAgreement
  BY DEF Init, PriorityAgreement, Idle, IdleJob
<1>2. Sorts /\ OnPlan /\ Agreement /\ PriorityAgreement /\ [Next]_vars => PriorityAgreement'
  BY PriorityStep
<1>3. Sorts /\ OnPlan /\ Agreement /\ PriorityAgreement /\ [Next]_vars => [Agreed]_vars
  <2> SUFFICES ASSUME Sorts, OnPlan, Agreement, PriorityAgreement, [Next]_vars, NEW p \in Process,
                      job'[p].answer # "none", job[p].answer = "none", alone
               PROVE  Alike
    OBVIOUS
  <2>1. Statement(p)
    BY AnsweredInCall
  <2>2. \A k \in Key : SamePriority(k)'
    BY <2>1, StatementPairs
  <2> QED BY <2>2 DEF SamePriority, Rows
<1> QED BY <1>1, <1>2, <1>3, AgreementInvariant, PTL DEF Spec, PrioritiesAgree

=============================================================================
