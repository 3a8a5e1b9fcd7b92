-------------------------- MODULE OfflineQueueProofs --------------------------
(***************************************************************************)
(* Proofs about OfflineQueue, for any set of operations, any priorities and  *)
(* any bounds.                                                              *)
(***************************************************************************)
EXTENDS OfflineQueue, TLAPS

\* The two ways in which a run goes on after an operation.
LEMMA AdvanceCases ==
  ASSUME NEW failed, Advance(failed)
  PROVE  \/ run.todo = {} /\ EndRun(failed)
         \/ /\ \E op \in run.todo : run' = Begin(op, run.todo, failed)
            /\ UNCHANGED <<queue, stored>>
  BY DEF Advance, Foremost

\* A run begins with an operation of the queue.
LEMMA BeginOK ==
  ASSUME NEW todo \in SUBSET Op, NEW failed \in SUBSET Op, todo \cap failed = {},
         NEW op \in todo, run' = Begin(op, todo, failed)
  PROVE  RunOK'
  BY QueueAssump DEF Begin, RunOK

\* A run goes on to its next operation, or ends and is stored.
LEMMA AdvanceOK ==
  ASSUME TypeOK, run.step # "idle", retryCount' \in [Op -> 0..MaxAttempts],
         NEW failed \in SUBSET Op, failed \cap run.todo = {}, Advance(failed)
  PROVE  /\ queue' \subseteq Op
         /\ stored' \in [ops : SUBSET Op, retries : [Op -> 0..MaxAttempts]]
         /\ RunOK'
<1>1. CASE run.todo = {} /\ EndRun(failed)
  BY <1>1 DEF EndRun, Save, TypeOK, RunOK
<1>2. CASE /\ \E op \in run.todo : run' = Begin(op, run.todo, failed)
           /\ UNCHANGED <<queue, stored>>
  <2>1. run.todo \in SUBSET Op
    BY DEF TypeOK, RunOK, IdleRun
  <2> QED BY <1>2, <2>1, BeginOK DEF TypeOK
<1> QED BY <1>1, <1>2, AdvanceCases

\* A run starts with the foremost operation.
LEMMA StartOK == ASSUME TypeOK, StartRun PROVE RunOK'
  BY BeginOK DEF TypeOK, StartRun, Foremost

\* Every variable keeps its type.
THEOREM QueueTypeCorrect == Spec => []TypeOK
<1>1. Init => TypeOK
  BY QueueAssump DEF Init, TypeOK, RunOK
<1>2. TypeOK /\ [Next]_vars => TypeOK'
  <2> SUFFICES ASSUME TypeOK, [Next]_vars PROVE TypeOK'
    OBVIOUS
  <2> USE QueueAssump
  <2>1. CASE Sync
    BY <2>1, StartOK DEF Sync, TypeOK, history
  <2>2. CASE Execute
    <3>1. run.op \in Op /\ RunOK'
      BY <2>2 DEF Execute, TypeOK, RunOK, IdleRun
    <3> QED BY <2>2, <3>1 DEF Execute, TypeOK, history
  <2>3. CASE Succeed
    <3>1. run.op \in Op /\ run.attempt \in 0..MaxAttempts
          /\ run.failed \in SUBSET Op /\ run.failed \cap run.todo = {}
          /\ run.step # "idle"
      BY <2>3 DEF Succeed, TypeOK, RunOK, IdleRun
    <3>2. retryCount' \in [Op -> 0..MaxAttempts]
      BY <2>3, <3>1 DEF Succeed, TypeOK
    <3> QED BY <2>3, <3>1, <3>2, AdvanceOK DEF Succeed, TypeOK, history
  <2>4. CASE Retry
    <3>1. RunOK' /\ faults' \in Nat
      BY <2>4 DEF Retry, CallFails, TypeOK, RunOK, IdleRun
    <3> QED BY <2>4, <3>1 DEF Retry, TypeOK, history
  <2>5. CASE Wake
    <3>1. /\ run \in [step : {"call", "answer", "sleep"}, op : Op,
                     attempt : 0..MaxAttempts, todo : SUBSET Op, failed : SUBSET Op]
          /\ run.attempt \in 0..MaxAttempts /\ run.attempt + 1 \in 0..MaxAttempts
          /\ run.op \notin run.todo \cup run.failed /\ run.todo \cap run.failed = {}
      BY <2>5 DEF Wake, TypeOK, RunOK, IdleRun
    <3>2. RunOK'
      BY <2>5, <3>1 DEF Wake, RunOK
    <3> QED BY <2>5, <3>2 DEF Wake, TypeOK, history
  <2>6. CASE GiveUp
    <3> DEFINE failed == IF retryCount[run.op] >= MaxRetries THEN run.failed
                         ELSE run.failed \cup {run.op}
    <3>1. /\ failed \in SUBSET Op /\ failed \cap run.todo = {} /\ run.step # "idle"
          /\ faults' \in Nat
      BY <2>6 DEF GiveUp, CallFails, TypeOK, RunOK, IdleRun
    <3>2. Advance(failed) /\ retryCount' \in [Op -> 0..MaxAttempts]
      BY <2>6 DEF GiveUp, TypeOK
    <3> HIDE DEF failed
    <3>3. queue' \subseteq Op /\ RunOK'
          /\ stored' \in [ops : SUBSET Op, retries : [Op -> 0..MaxAttempts]]
      BY <3>1, <3>2, AdvanceOK
    <3> QED BY <2>6, <3>1, <3>2, <3>3 DEF GiveUp, TypeOK, history
  <2>7. ASSUME NEW op \in Op, AddOperation(op) \/ RemoveOperation(op) PROVE TypeOK'
    BY <2>7 DEF AddOperation, RemoveOperation, Save, TypeOK, RunOK
  <2>8. CASE ClearQueue
    BY <2>8 DEF ClearQueue, Save, TypeOK, RunOK
  <2>9. CASE GoOffline
    <3>1. RunOK' /\ faults' \in Nat
      BY <2>9 DEF GoOffline, TypeOK, RunOK, IdleRun
    <3>2. online' \in BOOLEAN
      BY <2>9 DEF GoOffline
    <3> QED BY <2>9, <3>1, <3>2 DEF GoOffline, TypeOK, history
  <2>10. CASE GoOnline
    <3>1. RunOK'
      BY <2>10, StartOK DEF GoOnline, TypeOK, RunOK
    <3> QED BY <2>10, <3>1 DEF GoOnline, TypeOK, history
  <2>11. CASE Reload
    BY <2>11 DEF Reload, TypeOK, RunOK, history
  <2>12. CASE UNCHANGED vars
    BY <2>12 DEF vars, TypeOK, RunOK, history
  <2> QED BY <2>1, <2>2, <2>3, <2>4, <2>5, <2>6, <2>7, <2>8, <2>9, <2>10, <2>11, <2>12
          DEF Next
<1> QED BY <1>1, <1>2, PTL DEF Spec

-----------------------------------------------------------------------------
(* No operation gets lost before the server has carried it out.               *)

\* The operations of the snapshot a run works on.
InRun == run.todo \cup run.failed \cup {run.op}

\* The queue is what localStorage holds; a retryCount is raised only by a call that
\* succeeded; what a run will not put back into the queue was executed or came late.
KeptInv ==
    /\ stored.ops = queue
    /\ \A op \in Op : retryCount[op] > 0 \/ stored.retries[op] > 0 => executed[op] > 0
    /\ run.step = "answer" => executed[run.op] > 0
    /\ run.step # "idle" => \A op \in queue : op \in late \/ executed[op] > 0 \/ op \in InRun
    /\ Kept

\* The run goes on, or ends with a queue that lacks executed and late operations only.
LEMMA AdvanceKept ==
  ASSUME TypeOK, KeptInv, run.step # "idle", executed' = executed,
         UNCHANGED <<added, withdrawn, late>>,
         \A op \in Op : retryCount'[op] > 0 => executed[op] > 0,
         NEW failed, run.failed \subseteq failed, failed \subseteq run.failed \cup {run.op},
         executed[run.op] > 0 \/ run.op \in failed,
         Advance(failed)
  PROVE  KeptInv'
<1>1. CASE run.todo = {} /\ EndRun(failed)
  <2>1. queue' = failed /\ run' = IdleRun /\ stored'.ops = failed
        /\ stored'.retries = retryCount'
    BY <1>1 DEF EndRun, Save
  <2>2. ASSUME NEW op \in added \ (withdrawn \cup late), executed[op] = 0
        PROVE  op \in failed
    BY <1>1, <2>2 DEF KeptInv, Kept, InRun, TypeOK
  <2>3. Kept'
    BY <2>1, <2>2 DEF Kept
  <2> QED BY <2>1, <2>3 DEF KeptInv, IdleRun
<1>2. CASE /\ \E op \in run.todo : run' = Begin(op, run.todo, failed)
           /\ UNCHANGED <<queue, stored>>
  <2>1. PICK op \in run.todo : run' = Begin(op, run.todo, failed)
    BY <1>2
  <2>2. run'.step = "call" /\ run'.op = op /\ run'.todo = run.todo \ {op}
        /\ run'.failed = failed
    BY <2>1 DEF Begin
  <2>3. \A o \in queue : o \in late \/ executed[o] > 0 \/ o \in InRun'
    BY <2>2 DEF KeptInv, InRun
  <2> QED BY <1>2, <2>2, <2>3 DEF KeptInv, Kept
<1> QED BY <1>1, <1>2, AdvanceCases

\* Starting a run loses no operation.
LEMMA StartKept ==
  ASSUME KeptInv, StartRun, UNCHANGED <<queue, retryCount, stored, executed, history>>
  PROVE  KeptInv'
<1>1. PICK op \in queue : run' = Begin(op, queue, {})
  BY DEF StartRun, Foremost
<1>2. run'.step = "call" /\ queue' \subseteq InRun'
  BY <1>1 DEF Begin, InRun
<1> QED BY <1>2 DEF KeptInv, Kept, history

\* Operations are in the queue and in localStorage until they were carried out.
THEOREM QueueKeeps == Spec => []Kept
<1>1. Init => KeptInv
  BY QueueAssump DEF Init, KeptInv, Kept, IdleRun
<1>2. TypeOK /\ KeptInv /\ [Next]_vars => KeptInv'
  <2> SUFFICES ASSUME TypeOK, KeptInv, [Next]_vars PROVE KeptInv'
    OBVIOUS
  <2>0. \A op \in Op : executed[op] \in Nat /\ retryCount[op] \in Nat
    BY QueueAssump DEF TypeOK
  <2>1. CASE Sync
    BY <2>1, StartKept DEF Sync
  <2>2. CASE Execute
    <3>1. run.op \in Op /\ run'.step = "answer" /\ run'.op = run.op
          /\ run'.todo = run.todo /\ run'.failed = run.failed /\ run.step # "idle"
      BY <2>2 DEF Execute, TypeOK, RunOK, IdleRun
    <3>2. /\ executed' \in [Op -> Nat] /\ executed'[run.op] > 0
          /\ \A op \in Op : executed[op] > 0 => executed'[op] > 0
          /\ \A op \in Op : executed'[op] = 0 => executed[op] = 0
      BY <2>0, <2>2, <3>1 DEF Execute, TypeOK
    <3>3. UNCHANGED <<queue, retryCount, stored, added, withdrawn, late>>
      BY <2>2 DEF Execute, history
    <3>4. Kept'
      BY <3>2, <3>3 DEF Kept, KeptInv, TypeOK
    <3> QED BY <3>1, <3>2, <3>3, <3>4 DEF KeptInv, InRun, TypeOK
  <2>3. CASE Succeed
    <3>1. run.op \in Op /\ run.attempt \in Nat /\ run.step # "idle" /\ executed[run.op] > 0
      BY <2>3, QueueAssump DEF Succeed, TypeOK, RunOK, IdleRun, KeptInv
    <3>2. \A op \in Op : retryCount'[op] > 0 => executed[op] > 0
      BY <2>3, <3>1 DEF Succeed, KeptInv, TypeOK
    <3> QED BY <2>3, <3>1, <3>2, AdvanceKept DEF Succeed, history
  <2>4. CASE Retry
    <3>1. run'.step = "sleep" /\ run'.op = run.op /\ run.step # "idle"
          /\ run'.todo = run.todo /\ run'.failed = run.failed
      BY <2>4 DEF Retry, CallFails, TypeOK, RunOK, IdleRun
    <3> QED BY <2>4, <3>1 DEF Retry, KeptInv, Kept, InRun, history
  <2>5. CASE Wake
    <3>1. run'.step = "call" /\ run'.op = run.op /\ run.step # "idle"
          /\ run'.todo = run.todo /\ run'.failed = run.failed
      BY <2>5 DEF Wake, TypeOK, RunOK, IdleRun
    <3> QED BY <2>5, <3>1 DEF Wake, KeptInv, Kept, InRun, history
  <2>6. CASE GiveUp
    <3> DEFINE failed == IF retryCount[run.op] >= MaxRetries THEN run.failed
                         ELSE run.failed \cup {run.op}
    <3>1. run.op \in Op /\ run.step # "idle"
      BY <2>6 DEF GiveUp, CallFails, TypeOK, RunOK, IdleRun
    <3>2. executed[run.op] > 0 \/ run.op \in failed
      BY <2>0, <3>1, QueueAssump DEF KeptInv
    <3>3. /\ Advance(failed) /\ executed' = executed
          /\ UNCHANGED <<retryCount, added, withdrawn, late>>
      BY <2>6 DEF GiveUp, history
    <3>4. run.failed \subseteq failed /\ failed \subseteq run.failed \cup {run.op}
      OBVIOUS
    <3> HIDE DEF failed
    <3> QED BY <3>1, <3>2, <3>3, <3>4, AdvanceKept DEF KeptInv
  <2>7. ASSUME NEW op \in Op, AddOperation(op) PROVE KeptInv'
    BY <2>7 DEF AddOperation, Save, KeptInv, Kept, InRun, TypeOK
  <2>8. ASSUME NEW op \in Op, RemoveOperation(op) PROVE KeptInv'
    BY <2>8 DEF RemoveOperation, Save, KeptInv, Kept, InRun, TypeOK
  <2>9. CASE ClearQueue
    BY <2>9 DEF ClearQueue, Save, KeptInv, Kept, InRun, TypeOK
  <2>10. CASE GoOffline
    BY <2>10 DEF GoOffline, KeptInv, Kept, InRun, history
  <2>11. CASE GoOnline
    <3>1. CASE CanStart
      BY <2>11, <3>1, StartKept DEF GoOnline
    <3>2. CASE ~CanStart
      BY <2>11, <3>2 DEF GoOnline, KeptInv, Kept, InRun, history
    <3> QED BY <3>1, <3>2
  <2>12. CASE Reload
    BY <2>12 DEF Reload, KeptInv, Kept, IdleRun, history, TypeOK
  <2>13. CASE UNCHANGED vars
    BY <2>13 DEF vars, KeptInv, Kept, InRun, history
  <2> QED BY <2>1, <2>2, <2>3, <2>4, <2>5, <2>6, <2>7, <2>8, <2>9, <2>10, <2>11, <2>12,
             <2>13 DEF Next
<1>3. KeptInv => Kept
  BY DEF KeptInv
<1> QED BY <1>1, <1>2, <1>3, QueueTypeCorrect, PTL DEF Spec

-----------------------------------------------------------------------------
(* The server carries nothing out again without a fault.                      *)

\* The operations that will be sent unless something happens to them first.
ToSend == IF run.step = "idle" THEN queue
          ELSE run.todo \cup run.failed \cup
               (IF run.step \in {"call", "sleep"} THEN {run.op} ELSE {})

\* An operation that will be sent was executed at most once per fault; the connection
\* is lost while an answer is under way only by a fault.
ResentInv ==
    /\ ResentOnlyAfterFault
    /\ \A op \in ToSend : executed[op] <= faults
    /\ run.step = "answer" => run.op \notin Rejected
    /\ run.step = "answer" /\ ~online => executed[run.op] <= faults
    /\ \A op \in Op \ added : executed[op] = 0
    /\ queue \cup stored.ops \cup ToSend \subseteq added
    /\ run.step = "answer" => run.op \in added

\* Going on to the next operation sends none again without a fault.
LEMMA AdvanceResent ==
  ASSUME TypeOK, ResentInv, run.step # "idle", UNCHANGED <<executed, added, online>>,
         faults' \in Nat, faults' >= faults,
         NEW failed \in SUBSET Op, failed \subseteq run.failed \cup {run.op},
         run.op \in failed => executed[run.op] <= faults' /\ run.op \in added,
         Advance(failed)
  PROVE  ResentInv'
<1>1. \A op \in Op : executed[op] \in Nat /\ executed[op] <= 1 + faults
  BY DEF TypeOK, ResentInv, ResentOnlyAfterFault
<1>2. run.todo \cup run.failed \subseteq ToSend /\ run.todo \in SUBSET Op
      /\ faults \in Nat
  BY DEF ToSend, TypeOK, RunOK, IdleRun
<1>3. \A op \in run.todo \cup failed : executed[op] <= faults' /\ op \in added
  BY <1>1, <1>2 DEF ResentInv
<1>4. CASE run.todo = {} /\ EndRun(failed)
  <2>1. queue' = failed /\ stored'.ops = failed /\ run' = IdleRun
    BY <1>4 DEF EndRun, Save
  <2>2. ToSend' = failed
    BY <2>1 DEF ToSend, IdleRun
  <2> QED BY <1>1, <1>2, <1>3, <2>1, <2>2 DEF ResentInv, ResentOnlyAfterFault, IdleRun
<1>5. CASE /\ \E op \in run.todo : run' = Begin(op, run.todo, failed)
           /\ UNCHANGED <<queue, stored>>
  <2>1. ToSend' = run.todo \cup failed /\ run'.step = "call"
    BY <1>5 DEF ToSend, Begin
  <2> QED BY <1>1, <1>2, <1>3, <1>5, <2>1 DEF ResentInv, ResentOnlyAfterFault
<1> QED BY <1>4, <1>5, AdvanceCases

\* Nor does starting a run.
LEMMA StartResent ==
  ASSUME TypeOK, ResentInv, CanStart, StartRun,
         UNCHANGED <<queue, stored, executed, faults, history>>
  PROVE  ResentInv'
<1>1. PICK op \in queue : run' = Begin(op, queue, {})
  BY DEF StartRun, Foremost
<1>2. run'.step = "call" /\ ToSend' = queue /\ ToSend = queue
  BY <1>1 DEF Begin, ToSend, CanStart
<1> QED BY <1>2 DEF ResentInv, ResentOnlyAfterFault, history

\* An operation is carried out at most once more than there were faults.
THEOREM QueueResendsOnlyAfterFaults == Spec => []ResentOnlyAfterFault
<1>1. Init => ResentInv
  BY DEF Init, ResentInv, ResentOnlyAfterFault, ToSend, IdleRun
<1>2. TypeOK /\ ResentInv /\ [Next]_vars => ResentInv'
  <2> SUFFICES ASSUME TypeOK, ResentInv, [Next]_vars PROVE ResentInv'
    OBVIOUS
  <2>0. /\ faults \in Nat /\ added \subseteq Op
        /\ \A op \in Op : executed[op] \in Nat /\ executed[op] <= 1 + faults
    BY DEF TypeOK, ResentInv, ResentOnlyAfterFault
  <2>1. CASE Sync
    BY <2>1, StartResent DEF Sync
  <2>2. CASE Execute
    <3>1. /\ run.op \in Op /\ run.op \notin Rejected /\ run.step = "call"
          /\ run'.step = "answer" /\ run'.op = run.op
          /\ run'.todo = run.todo /\ run'.failed = run.failed
          /\ run.op \notin run.todo \cup run.failed
      BY <2>2 DEF Execute, TypeOK, RunOK, IdleRun
    <3>2. run.op \in ToSend /\ ToSend' = ToSend \ {run.op}
      BY <3>1 DEF ToSend
    <3>3. /\ executed'[run.op] <= 1 + faults
          /\ \A op \in Op \ {run.op} : executed'[op] = executed[op]
      BY <2>0, <2>2, <3>1, <3>2 DEF Execute, TypeOK, ResentInv
    <3>4. UNCHANGED <<queue, stored, faults, online, added>> /\ online
      BY <2>2 DEF Execute, history
    <3> QED BY <2>0, <3>1, <3>2, <3>3, <3>4 DEF ResentInv, ResentOnlyAfterFault
  <2>3. CASE Succeed
    <3>1. /\ run.step = "answer" /\ run.failed \in SUBSET Op
          /\ run.op \notin run.failed /\ Advance(run.failed)
          /\ UNCHANGED <<executed, added, online, faults>>
      BY <2>3 DEF Succeed, TypeOK, RunOK, IdleRun, history
    <3> QED BY <2>0, <3>1, AdvanceResent
  <2>4. ASSUME CallFails PROVE /\ run.op \in Op /\ run.step # "idle"
                               /\ faults' \in Nat /\ faults' >= faults
                               /\ executed[run.op] <= faults' /\ run.op \in added
    <3>1. run.op \in Op /\ run.step \in {"call", "answer"}
      BY <2>4 DEF CallFails, TypeOK, RunOK, IdleRun
    <3>2. CASE run.step = "call"
      <4>1. run.op \in ToSend
        BY <3>2 DEF ToSend
      <4> QED BY <2>0, <2>4, <3>1, <4>1 DEF CallFails, ResentInv
    <3>3. CASE run.step = "answer"
      BY <2>0, <2>4, <3>1, <3>3 DEF CallFails, ResentInv
    <3> QED BY <3>1, <3>2, <3>3
  <2>5. CASE Retry
    <3>1. CallFails /\ run'.step = "sleep" /\ run'.op = run.op
          /\ run'.todo = run.todo /\ run'.failed = run.failed
          /\ UNCHANGED <<queue, stored, executed, added>>
      BY <2>5 DEF Retry, CallFails, TypeOK, RunOK, IdleRun, history
    <3>2. ToSend' \subseteq ToSend \cup {run.op}
      BY <2>4, <3>1 DEF ToSend
    <3>3. \A op \in ToSend' : executed[op] <= faults' /\ op \in added
      BY <2>0, <2>4, <3>1, <3>2 DEF ResentInv
    <3> QED BY <2>0, <2>4, <3>1, <3>3 DEF ResentInv, ResentOnlyAfterFault
  <2>6. CASE Wake
    <3>1. run'.step = "call" /\ run'.op = run.op /\ run.step = "sleep"
          /\ run'.todo = run.todo /\ run'.failed = run.failed
          /\ UNCHANGED <<queue, stored, executed, added, faults>>
      BY <2>6 DEF Wake, TypeOK, RunOK, IdleRun, history
    <3>2. ToSend' = ToSend
      BY <3>1 DEF ToSend
    <3> QED BY <3>1, <3>2 DEF ResentInv, ResentOnlyAfterFault
  <2>7. CASE GiveUp
    <3> DEFINE failed == IF retryCount[run.op] >= MaxRetries THEN run.failed
                         ELSE run.failed \cup {run.op}
    <3>1. CallFails /\ Advance(failed) /\ UNCHANGED <<executed, added, online>>
      BY <2>7 DEF GiveUp, history
    <3>2. failed \in SUBSET Op /\ failed \subseteq run.failed \cup {run.op}
      BY <2>4, <3>1 DEF TypeOK, RunOK, IdleRun
    <3> HIDE DEF failed
    <3> QED BY <2>4, <3>1, <3>2, AdvanceResent
  <2>8. ASSUME NEW op \in Op, AddOperation(op) PROVE ResentInv'
    BY <2>0, <2>8 DEF AddOperation, Save, ResentInv, ResentOnlyAfterFault, ToSend
  <2>9. ASSUME NEW op \in Op, RemoveOperation(op) PROVE ResentInv'
    BY <2>9 DEF RemoveOperation, Save, ResentInv, ResentOnlyAfterFault, ToSend
  <2>10. CASE ClearQueue
    BY <2>10 DEF ClearQueue, Save, ResentInv, ResentOnlyAfterFault, ToSend
  <2>11. CASE GoOffline
    <3>1. /\ faults' = faults + 1 /\ ToSend' = ToSend
          /\ UNCHANGED <<queue, stored, run, executed, added>>
      BY <2>11 DEF GoOffline, ToSend, history
    <3>2. ToSend \subseteq Op /\ (run.step = "answer" => run.op \in Op)
      BY <2>0 DEF ResentInv
    <3> QED BY <2>0, <3>1, <3>2 DEF ResentInv, ResentOnlyAfterFault
  <2>12. CASE GoOnline
    <3>1. CASE CanStart
      BY <2>12, <3>1, StartResent DEF GoOnline
    <3>2. CASE ~CanStart
      BY <2>12, <3>2 DEF GoOnline, ResentInv, ResentOnlyAfterFault, ToSend, history
    <3> QED BY <3>1, <3>2
  <2>13. CASE Reload
    <3>1. /\ faults' = faults + 1 /\ queue' = stored.ops /\ run' = IdleRun
          /\ UNCHANGED <<stored, executed, added>>
      BY <2>13 DEF Reload, history
    <3>2. ToSend' = stored.ops
      BY <3>1 DEF ToSend, IdleRun
    <3>3. \A op \in stored.ops : op \in Op /\ op \in added
      BY <2>0 DEF ResentInv
    <3> QED BY <2>0, <3>1, <3>2, <3>3 DEF ResentInv, ResentOnlyAfterFault, IdleRun
  <2>14. CASE UNCHANGED vars
    BY <2>14 DEF vars, ResentInv, ResentOnlyAfterFault, ToSend, history
  <2> QED BY <2>1, <2>2, <2>3, <2>5, <2>6, <2>7, <2>8, <2>9, <2>10, <2>11, <2>12, <2>13,
             <2>14 DEF Next
<1>3. ResentInv => ResentOnlyAfterFault
  BY DEF ResentInv
<1> QED BY <1>1, <1>2, <1>3, QueueTypeCorrect, PTL DEF Spec

===============================================================================
