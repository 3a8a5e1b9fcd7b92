----------------------------- MODULE OfflineQueue -----------------------------
(***************************************************************************)
(* The desktop client's queue of operations that wait for a connection:     *)
(* OfflineQueueService (services/offline.ts) with the SyncService that       *)
(* drives it (services/sync.ts) and the server that executes operations.     *)
(*                                                                          *)
(* JavaScript runs one handler at a time; handlers interleave at the awaits  *)
(* of processQueue, the API call and the pause before a retry, and one step  *)
(* goes from an await to the next.  The order of operations of one priority  *)
(* is left open.                                                            *)
(***************************************************************************)
EXTENDS Naturals

CONSTANTS
    Op,          \* operations, known by their generated ids
    Rejected,    \* the operations that no call of the API carries out
    Priority,    \* Priority[op]
    MaxAttempts, \* retryConfig.maxAttempts: retries of a call in one run
    MaxRetries,  \* maxRetries of an operation
    MaxFaults,   \* bound on failed calls, lost connections and reloads
    NoOp         \* no operation

ASSUME QueueAssump ==
    /\ Rejected \subseteq Op
    /\ Priority \in [Op -> Nat]
    /\ MaxAttempts \in Nat /\ MaxFaults \in Nat
    /\ MaxRetries \in Nat \ {0}
    /\ NoOp \notin Op

VARIABLES
    queue,      \* this.queue.operations
    retryCount, \* retryCount[op]: the field of the operation in memory
    stored,     \* what localStorage holds
    run,        \* the call of processQueue, idle if isProcessing is false
    online,     \* SyncService.isOnline
    faults,     \* failed calls, lost connections and reloads so far
    executed,   \* executed[op]: how often the server carried it out
    added,      \* history: the operations that were added,
    withdrawn,  \*          removed or cleared by the user,
    late        \*          added while processQueue was running

history == <<added, withdrawn, late>>
vars    == <<queue, retryCount, stored, run, online, faults, executed, history>>

-----------------------------------------------------------------------------
(* processQueue.                                                              *)

\* step: the await processQueue is at.  "call": the request is under way, "answer":
\* the server has carried it out, "sleep": the pause before the next attempt.
IdleRun == [step |-> "idle", op |-> NoOp, attempt |-> 0, todo |-> {}, failed |-> {}]

\* The sort puts operations of higher priority first.
Foremost(ops) == {op \in ops : \A other \in ops : Priority[op] >= Priority[other]}

\* executeWithRetry begins with an operation of todo.
Begin(op, todo, failed) ==
    [step |-> "call", op |-> op, attempt |-> 0, todo |-> todo \ {op}, failed |-> failed]

Save(ops, retries) == stored' = [ops |-> ops, retries |-> retries]

\* Slip: what was processed stays in the queue.
EndRunKeepingAll(failed) ==
    /\ run' = IdleRun
    /\ UNCHANGED queue
    /\ Save(queue, retryCount')

\* processQueue ends: the queue becomes the failed operations and is saved.
EndRun(failed) ==
    /\ queue' = failed
    /\ run' = IdleRun
    /\ Save(failed, retryCount')

\* Slip: the loop ends at the first operation that fails.
AdvanceUntilFailure(failed) ==
    IF run.todo = {} \/ failed # {}
    THEN EndRun(failed \cup run.todo)
    ELSE /\ \E op \in Foremost(run.todo) : run' = Begin(op, run.todo, failed)
         /\ UNCHANGED <<queue, stored>>

\* The loop goes on with the next operation of the snapshot, or ends.
Advance(failed) ==
    IF run.todo = {}
    THEN EndRun(failed)
    ELSE /\ \E op \in Foremost(run.todo) : run' = Begin(op, run.todo, failed)
         /\ UNCHANGED <<queue, stored>>

\* processQueue takes a snapshot of the queue and makes the first call, unless it
\* is running or has nothing to do.
CanStart == run.step = "idle" /\ queue # {}
StartRun == \E op \in Foremost(queue) : run' = Begin(op, queue, {})

\* SyncService.sync: the interval, forceSync.
Sync ==
    /\ online
    /\ CanStart
    /\ StartRun
    /\ UNCHANGED <<queue, retryCount, stored, online, faults, executed, history>>

\* The server carries out the operation.
Execute ==
    /\ run.step = "call" /\ run.op \notin Rejected
    /\ online
    /\ run' = [run EXCEPT !.step = "answer"]
    /\ executed' = [executed EXCEPT ![run.op] = @ + 1]
    /\ UNCHANGED <<queue, retryCount, stored, online, faults, history>>

\* The answer arrives: the operation counts as processed.  A retry that succeeds
\* sets the operation's retryCount.
Succeed ==
    /\ run.step = "answer"
    /\ retryCount' = IF run.attempt > 0 THEN [retryCount EXCEPT ![run.op] = run.attempt]
                     ELSE retryCount
    /\ Advance(run.failed)
    /\ UNCHANGED <<online, faults, executed, history>>

\* A call fails because the server refuses the operation, because the connection is
\* down, or by a fault: the request or its answer is lost, or times out.
CallFails ==
    /\ run.step \in {"call", "answer"}
    /\ \/ /\ run.op \in Rejected \/ ~online
          /\ UNCHANGED faults
       \/ /\ run.op \notin Rejected /\ online /\ faults < MaxFaults
          /\ faults' = faults + 1

\* Slip: one attempt too many.
RetryOnceMore ==
    /\ CallFails
    /\ run.attempt <= MaxAttempts
    /\ run' = [run EXCEPT !.step = "sleep"]
    /\ UNCHANGED <<queue, retryCount, stored, online, executed, history>>

\* The failed call is tried again after a pause: a network error, 5xx, 429.
Retry ==
    /\ CallFails
    /\ run.attempt < MaxAttempts
    /\ run' = [run EXCEPT !.step = "sleep"]
    /\ UNCHANGED <<queue, retryCount, stored, online, executed, history>>

Wake ==
    /\ run.step = "sleep"
    /\ run' = [run EXCEPT !.step = "call", !.attempt = @ + 1]
    /\ UNCHANGED <<queue, retryCount, stored, online, faults, executed, history>>

\* Slip: a failure is a retry as well.
GiveUpCounting ==
    /\ CallFails
    /\ retryCount' = [retryCount EXCEPT ![run.op] = @ + 1]
    /\ Advance(IF retryCount'[run.op] >= MaxRetries THEN run.failed
               ELSE run.failed \cup {run.op})
    /\ UNCHANGED <<online, executed, history>>

\* The last attempt fails, or one with an error that is not tried again (4xx): the
\* operation stays in the queue unless its retryCount has reached maxRetries.
GiveUp ==
    /\ CallFails
    /\ UNCHANGED <<retryCount, online, executed, history>>
    /\ Advance(IF retryCount[run.op] >= MaxRetries THEN run.failed
               ELSE run.failed \cup {run.op})

-----------------------------------------------------------------------------
(* The user, the connection and the page.                                     *)

AddOperation(op) ==
    /\ op \notin added
    /\ queue' = queue \cup {op}
    /\ Save(queue', retryCount)
    /\ added' = added \cup {op}
    /\ late' = IF run.step = "idle" THEN late ELSE late \cup {op}
    /\ UNCHANGED <<retryCount, run, online, faults, executed, withdrawn>>

RemoveOperation(op) ==
    /\ op \in queue
    /\ queue' = queue \ {op}
    /\ Save(queue', retryCount)
    /\ withdrawn' = withdrawn \cup {op}
    /\ UNCHANGED <<retryCount, run, online, faults, executed, added, late>>

ClearQueue ==
    /\ queue' = {}
    /\ Save({}, retryCount)
    /\ withdrawn' = withdrawn \cup queue
    /\ UNCHANGED <<retryCount, run, online, faults, executed, added, late>>

GoOffline ==
    /\ online
    /\ faults < MaxFaults
    /\ online' = FALSE
    /\ faults' = faults + 1
    /\ UNCHANGED <<queue, retryCount, stored, run, executed, history>>

\* setOnlineStatus(true) calls sync at once.
GoOnline ==
    /\ ~online
    /\ online' = TRUE
    /\ IF CanStart THEN StartRun ELSE UNCHANGED run
    /\ UNCHANGED <<queue, retryCount, stored, faults, executed, history>>

\* The page is closed or crashes and is opened again: loadFromStorage.
Reload ==
    /\ faults < MaxFaults
    /\ queue' = stored.ops
    /\ retryCount' = stored.retries
    /\ run' = IdleRun
    /\ faults' = faults + 1
    /\ UNCHANGED <<stored, online, executed, history>>

-----------------------------------------------------------------------------

Init ==
    /\ queue = {}
    /\ retryCount = [op \in Op |-> 0]
    /\ stored = [ops |-> {}, retries |-> retryCount]
    /\ run = IdleRun
    /\ online \in BOOLEAN
    /\ faults = 0
    /\ executed = [op \in Op |-> 0]
    /\ added = {} /\ withdrawn = {} /\ late = {}

Next ==
    \/ Sync \/ Execute \/ Succeed \/ Retry \/ Wake \/ GiveUp
    \/ \E op \in Op : AddOperation(op) \/ RemoveOperation(op)
    \/ ClearQueue \/ GoOffline \/ GoOnline \/ Reload

Spec == Init /\ [][Next]_vars

\* While online the interval fires again and again; a call is answered or times out;
\* the pause before a retry ends; the connection comes back.
Fairness ==
    /\ WF_vars(Sync)
    /\ WF_vars(Execute \/ Succeed \/ Retry \/ GiveUp)
    /\ WF_vars(Wake)
    /\ WF_vars(GoOnline)

FairSpec == Spec /\ Fairness

-----------------------------------------------------------------------------
(* Properties.                                                                *)

RunOK ==
    \/ run = IdleRun
    \/ /\ run \in [step : {"call", "answer", "sleep"}, op : Op, attempt : 0..MaxAttempts,
                   todo : SUBSET Op, failed : SUBSET Op]
       /\ run.op \notin run.todo \cup run.failed
       /\ run.todo \cap run.failed = {}
       /\ run.step = "sleep" => run.attempt < MaxAttempts

\* Every variable holds a value of its kind; a run has each operation in one place
\* and makes at most MaxAttempts retries.
TypeOK ==
    /\ queue \subseteq Op
    /\ retryCount \in [Op -> 0..MaxAttempts]
    /\ stored \in [ops : SUBSET Op, retries : [Op -> 0..MaxAttempts]]
    /\ RunOK
    /\ online \in BOOLEAN
    /\ faults \in Nat
    /\ executed \in [Op -> Nat]
    /\ added \subseteq Op /\ withdrawn \subseteq Op /\ late \subseteq Op

\* An operation that was added while processQueue was not running and that the user
\* did not withdraw is in the queue and in localStorage until the server has carried
\* it out, whatever fails, however often the page is reloaded: in particular none is
\* dropped for its retryCount before it was executed.
Kept ==
    \A op \in added \ (withdrawn \cup late) :
        executed[op] = 0 => op \in queue /\ op \in stored.ops

\* The server carries an operation out again only if an answer was lost or the page was
\* reloaded in between.
ResentOnlyAfterFault == \A op \in Op : executed[op] <= 1 + faults

\* Such an operation, unless the server always refuses it, is eventually carried out
\* or withdrawn, although the operations in front of it may fail for ever.
Delivered ==
    \A op \in Op \ Rejected :
        op \in added \ late ~> executed[op] > 0 \/ op \in withdrawn

===============================================================================
