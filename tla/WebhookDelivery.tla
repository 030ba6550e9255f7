---------------------------- MODULE WebhookDelivery ----------------------------
(***************************************************************************)
(* Forwarding of transaction events to the callback URL of a store:        *)
(* internal/app/webhookdelivery/service.go, the task handler of            *)
(* cmd/worker/main.go, and the asynq queue between them (external, modelled*)
(* from the options the code gives it: MaxRetry(maxAttempts-1), no task id,*)
(* RetryDelayFunc, SkipRetry only for payloads nobody enqueues).           *)
(*                                                                         *)
(* A delivery is sent once when it is created and once more by every       *)
(* resend; <<d, k>> is the asynq task of the k-th send of d.  A handler    *)
(* runs in steps because what happens between them matters: the rows are   *)
(* locked from the SELECT ... FOR UPDATE to the commit, the POST is in the *)
(* middle, and the result is stored in a variable of run() before it is    *)
(* returned to asynq.  Time is abstract: a task that waits for its retry   *)
(* delay may run at any moment.                                            *)
(*                                                                         *)
(* A delivery is made by the transaction of internal/app/webhook that      *)
(* handles a notification.  It locks the row of the transaction and then,  *)
(* by its foreign keys, the store; a handler locks the store and then, by  *)
(* its audit row, the transaction: they can deadlock.                      *)
(***************************************************************************)
EXTENDS Naturals, FiniteSets

CONSTANTS
    Delivery,       \* rows of webhook_deliveries
    Store,          \* rows of stores
    StoreOf,        \* [Delivery -> Store], the store_id column
    Transaction,    \* rows of transactions
    TransactionOf,  \* [Delivery -> Transaction], the transaction_id column
    MaxAttempts,    \* defaultMaxAttempts
    Concurrency,    \* WORKER_CONCURRENCY
    NoTask,         \* the row lock of a store nobody holds
    MaxSends,       \* bound: sends of one delivery (1 + resends)
    MaxFaults,      \* bound: database or Redis calls that fail
    MaxCrashes,     \* bound: worker processes that die
    MaxShutdowns,   \* bound: graceful shutdowns of the worker
    MaxIncidents    \* bound: resends, failing calls and stops of the worker together

Task == Delivery \X (1..MaxSends)

ASSUME DeliveryAssumption ==
    /\ StoreOf \in [Delivery -> Store] /\ TransactionOf \in [Delivery -> Transaction]
    /\ \A d, e \in Delivery : TransactionOf[d] = TransactionOf[e] => StoreOf[d] = StoreOf[e]
ASSUME BoundAssumption ==
    /\ MaxAttempts \in Nat \ {0} /\ Concurrency \in Nat \ {0}
    /\ MaxSends \in Nat \ {0}    /\ MaxFaults \in Nat
    /\ MaxCrashes \in Nat        /\ MaxShutdowns \in Nat
    /\ MaxIncidents \in Nat
ASSUME NoTaskAssumption == NoTask \notin Task

VARIABLES
    delivery,   \* [Delivery -> row]: status and attempt_count
    attempts,   \* rows inserted in webhook_delivery_attempts since the last send
    posts,      \* POSTs made to the callback URL since the last send (history)
    unrecorded, \* runs since the last send that ended without a trace in the row (history)
    sends,      \* times the delivery was created or resent (history)
    processing, \* deliveries whose notification holds FOR UPDATE on their transaction
    alerted,    \* sends whose failure NotifyWebhookFailure announced
    task,       \* asynq state of every task
    retried,    \* asynq retry counter of every task
    pc,         \* where the handler of the task is, "idle" when none runs
    attempt,    \* attemptNumber, as the handler computed it
    outcome,    \* what the handler knows of its POST
    lock,       \* [Store -> holder of FOR UPDATE on the store and delivery row]
    err,        \* the variable err of run(), shared by every webhook handler
    faults, crashes, shutdowns

rowVars     == <<delivery, attempts, posts, unrecorded, sends, alerted>>
queueVars   == <<task, retried>>
handlerVars == <<pc, attempt, outcome, lock, err>>
budgetVars  == <<faults, crashes, shutdowns>>
vars        == <<rowVars, processing, queueVars, handlerVars, budgetVars>>

Status    == {"none", "pending", "retrying", "success", "failed_permanently"}
TaskState == {"none", "owed", "lost", "queued", "active", "retry", "done", "archived"}
Phase     == {"idle", "begin", "post", "record", "notify", "return"}
Outcome   == {"unknown", "ok", "rejected", "permanent"}

\* The type of every variable; in particular asynq's retry counter never exceeds the
\* MaxRetry that Enqueue gives its task.
TypeOK ==
    /\ delivery  \in [Delivery -> [status : Status, count : Nat]]
    /\ attempts  \in [Delivery -> Nat]
    /\ posts     \in [Delivery -> Nat]
    /\ unrecorded \in [Delivery -> Nat]
    /\ sends     \in [Delivery -> 0..MaxSends]
    /\ processing \subseteq Delivery
    /\ alerted   \subseteq Delivery \X (0..MaxSends)
    /\ task      \in [Task -> TaskState]
    /\ retried   \in [Task -> 0..MaxAttempts - 1]
    /\ pc        \in [Task -> Phase]
    /\ attempt   \in [Task -> Nat]
    /\ outcome   \in [Task -> Outcome]
    /\ lock      \in [Store -> Task \union {NoTask}]
    /\ err       \in {"nil", "error"}
    /\ faults    \in 0..MaxFaults
    /\ crashes   \in 0..MaxCrashes
    /\ shutdowns \in 0..MaxShutdowns

Init ==
    /\ delivery  = [d \in Delivery |-> [status |-> "none", count |-> 0]]
    /\ attempts  = [d \in Delivery |-> 0]
    /\ posts     = [d \in Delivery |-> 0]
    /\ unrecorded = [d \in Delivery |-> 0]
    /\ sends     = [d \in Delivery |-> 0]
    /\ processing = {}
    /\ alerted   = {}
    /\ task      = [t \in Task |-> "none"]
    /\ retried   = [t \in Task |-> 0]
    /\ pc        = [t \in Task |-> "idle"]
    /\ attempt   = [t \in Task |-> 0]
    /\ outcome   = [t \in Task |-> "unknown"]
    /\ lock      = [s \in Store |-> NoTask]
    /\ err       = "nil"
    /\ faults    = 0
    /\ crashes   = 0
    /\ shutdowns = 0

--------------------------------------------------------------------------------
(* The API: a delivery is created or resent by a transaction, and enqueued *)
(* by a call of Redis after that transaction has committed.                *)

\* The locks of FOR UPDATE on the join of a delivery with its store.
RowsFree(d) == lock[StoreOf[d]] = NoTask

\* Nobody has locked the transaction of d: an INSERT that refers to it has to wait.
TransactionFree(d) == \A e \in processing : TransactionOf[e] # TransactionOf[d]

\* The handler of t holds the store and wants the transaction, the notification of d
\* holds the transaction and wants the store.
Deadlocked(t, d) ==
    /\ d \in processing /\ TransactionOf[t[1]] = TransactionOf[d]
    /\ pc[t] = "record"

\* The bound MaxIncidents.
Resent    == {t \in Task : t[2] > 1 /\ task[t] # "none"}
MayHappen == faults + crashes + shutdowns + Cardinality(Resent) < MaxIncidents

Fault ==
    /\ faults < MaxFaults
    /\ MayHappen
    /\ faults' = faults + 1
    /\ UNCHANGED <<crashes, shutdowns>>

Lock(t)   == lock' = [lock EXCEPT ![StoreOf[t[1]]] = t]
Unlock(t) == lock' = [lock EXCEPT ![StoreOf[t[1]]] = NoTask]

\* A new send starts: the row is pending, and its Enqueue call is owed.
StartSend(d) ==
    /\ delivery' = [delivery EXCEPT ![d] = [status |-> "pending", count |-> 0]]
    /\ sends' = [sends EXCEPT ![d] = @ + 1]
    /\ task' = [task EXCEPT ![<<d, sends[d] + 1>>] = "owed"]
    /\ attempts' = [attempts EXCEPT ![d] = 0]
    /\ posts' = [posts EXCEPT ![d] = 0]
    /\ unrecorded' = [unrecorded EXCEPT ![d] = 0]
    /\ UNCHANGED <<alerted, retried, handlerVars, budgetVars>>

\* getTransactionState of a notification: SELECT ... FOR UPDATE.
LockTransaction(d) ==
    /\ delivery[d].status = "none"
    /\ TransactionFree(d)
    /\ processing' = processing \union {d}
    /\ UNCHANGED <<rowVars, queueVars, handlerVars, budgetVars>>

\* It fails, or Postgres aborts it for a deadlock: Midtrans will repeat the notification.
NotificationFails(d) ==
    /\ d \in processing
    /\ \/ UNCHANGED budgetVars /\ \E t \in Task : Deadlocked(t, d)
       \/ Fault
    /\ processing' = processing \ {d}
    /\ UNCHANGED <<rowVars, queueVars, handlerVars>>

\* CreateDeliveryTx and the commit of its caller.  The foreign key to stores
\* takes a share lock on the row that FOR UPDATE excludes.
CreateDelivery(d) ==
    /\ d \in processing /\ delivery[d].status = "none"
    /\ RowsFree(d)
    /\ StartSend(d)
    /\ processing' = processing \ {d}

Resend_NoStateCheck(d) ==
    /\ delivery[d].status \in {"success", "failed_permanently"}
    /\ sends[d] < MaxSends /\ MayHappen
    /\ RowsFree(d)
    /\ StartSend(d)
    /\ UNCHANGED processing

\* ResendByUser: only a delivery that has failed for good.
Resend(d) ==
    /\ delivery[d].status = "failed_permanently"
    /\ sends[d] < MaxSends /\ MayHappen
    /\ RowsFree(d)
    /\ StartSend(d)
    /\ UNCHANGED processing

Enqueue(t) ==
    /\ task[t] = "owed"
    /\ task' = [task EXCEPT ![t] = "queued"]
    /\ UNCHANGED <<rowVars, processing, retried, handlerVars, budgetVars>>

\* Redis refuses the task, or the API process stops before the call: the caller
\* answers with an error and nothing else ever enqueues this send.
EnqueueFails(t) ==
    /\ task[t] = "owed"
    /\ faults < MaxFaults
    /\ MayHappen
    /\ faults' = faults + 1
    /\ task' = [task EXCEPT ![t] = "lost"]
    /\ UNCHANGED <<rowVars, processing, retried, handlerVars, crashes, shutdowns>>

--------------------------------------------------------------------------------
(* asynq: a task is given to a handler, and what the handler returns decides *)
(* whether it is deleted, retried or archived.                             *)

Running == {t \in Task : pc[t] # "idle"}

GoTo(t, phase) == pc' = [pc EXCEPT ![t] = phase]

\* The handler of t has no more local state.
Reset(t) ==
    /\ GoTo(t, "idle")
    /\ attempt' = [attempt EXCEPT ![t] = 0]
    /\ outcome' = [outcome EXCEPT ![t] = "unknown"]

Dequeue(t) ==
    /\ task[t] \in {"queued", "retry"}
    /\ Cardinality(Running) < Concurrency
    /\ task' = [task EXCEPT ![t] = "active"]
    /\ GoTo(t, "begin")
    /\ UNCHANGED <<rowVars, processing, retried, attempt, outcome, lock, err, budgetVars>>

RetryOrArchive_ExtraRetry(t) ==
    \/ /\ retried[t] < MaxAttempts
       /\ task' = [task EXCEPT ![t] = "retry"]
       /\ retried' = [retried EXCEPT ![t] = @ + 1]
    \/ /\ retried[t] >= MaxAttempts
       /\ task' = [task EXCEPT ![t] = "archived"]
       /\ UNCHANGED retried

\* A failed run costs one retry; with none left the task is archived.
RetryOrArchive(t) ==
    \/ /\ retried[t] < MaxAttempts - 1
       /\ task' = [task EXCEPT ![t] = "retry"]
       /\ retried' = [retried EXCEPT ![t] = @ + 1]
    \/ /\ retried[t] >= MaxAttempts - 1
       /\ task' = [task EXCEPT ![t] = "archived"]
       /\ UNCHANGED retried

\* The lease of a task whose worker died expires and asynq recovers it.
RecoverLease(t) ==
    /\ task[t] = "active"
    /\ pc[t] = "idle"
    /\ RetryOrArchive(t)
    /\ UNCHANGED <<rowVars, processing, handlerVars, budgetVars>>

--------------------------------------------------------------------------------
(* ProcessTask, one transaction on the delivery of the task.               *)

\* Every return of ProcessTask goes through the shared variable err.
Returns(t, result) ==
    /\ err' = result
    /\ GoTo(t, "return")

\* The transaction of t is rolled back.
Lose(t) == unrecorded' = [unrecorded EXCEPT ![t[1]] = @ + 1]

\* BEGIN or the SELECT fails.
LoadFails(t) ==
    /\ pc[t] = "begin"
    /\ Fault
    /\ Lose(t)
    /\ Returns(t, "error")
    /\ UNCHANGED <<delivery, attempts, posts, sends, alerted, processing, queueVars, attempt,
                   outcome, lock>>

\* The delivery has succeeded already: nothing to do.
SkipDelivered(t) ==
    /\ pc[t] = "begin"
    /\ RowsFree(t[1])
    /\ delivery[t[1]].status = "success"
    /\ Returns(t, "nil")
    /\ UNCHANGED <<rowVars, processing, queueVars, attempt, outcome, lock, budgetVars>>

Load_WithoutForUpdate(t) ==
    /\ pc[t] = "begin"
    /\ delivery[t[1]].status # "success"
    /\ attempt' = [attempt EXCEPT ![t] = delivery[t[1]].count + 1]
    /\ GoTo(t, "post")
    /\ UNCHANGED <<rowVars, processing, queueVars, outcome, lock, err, budgetVars>>

\* loadDeliveryStateForUpdate: the rows stay locked until the transaction ends.
Load(t) ==
    /\ pc[t] = "begin"
    /\ RowsFree(t[1])
    /\ delivery[t[1]].status # "success"
    /\ Lock(t)
    /\ attempt' = [attempt EXCEPT ![t] = delivery[t[1]].count + 1]
    /\ GoTo(t, "post")
    /\ UNCHANGED <<rowVars, processing, queueVars, outcome, err, budgetVars>>

\* The POST is answered with 2xx ("ok"), or with anything else ("rejected").
Post(t) ==
    /\ pc[t] = "post"
    /\ \E result \in {"ok", "rejected"} : outcome' = [outcome EXCEPT ![t] = result]
    /\ posts' = [posts EXCEPT ![t[1]] = @ + 1]
    /\ GoTo(t, "record")
    /\ UNCHANGED <<delivery, attempts, unrecorded, sends, alerted, processing, queueVars,
                   attempt, lock, err, budgetVars>>

\* The secret of the store is missing or does not decrypt: there is no POST.
CannotSign(t) ==
    /\ pc[t] = "post"
    /\ outcome' = [outcome EXCEPT ![t] = "permanent"]
    /\ GoTo(t, "record")
    /\ UNCHANGED <<rowVars, processing, queueVars, attempt, lock, err, budgetVars>>

FinalFailure_OffByOne(t) == outcome[t] = "permanent" \/ attempt[t] > MaxAttempts

FinalFailure(t) == outcome[t] = "permanent" \/ attempt[t] >= MaxAttempts

NewStatus(t) ==
    IF outcome[t] = "ok" THEN "success"
    ELSE IF FinalFailure(t) THEN "failed_permanently" ELSE "retrying"

\* The attempt row and the delivery row are written by the same commit.
WriteAttempt_RowOnly(t) ==
    /\ delivery' = [delivery EXCEPT ![t[1]].status = NewStatus(t)]
    /\ attempts' = [attempts EXCEPT ![t[1]] = @ + 1]
    /\ Unlock(t)
    /\ UNCHANGED <<posts, unrecorded, sends, alerted, processing, queueVars, attempt, outcome>>

WriteAttempt_NoRow(t) ==
    /\ delivery' = [delivery EXCEPT ![t[1]] = [status |-> NewStatus(t), count |-> attempt[t]]]
    /\ Unlock(t)
    /\ UNCHANGED <<attempts, posts, unrecorded, sends, alerted, processing, queueVars, attempt,
                   outcome>>

WriteAttempt(t) ==
    /\ delivery' = [delivery EXCEPT ![t[1]] = [status |-> NewStatus(t), count |-> attempt[t]]]
    /\ attempts' = [attempts EXCEPT ![t[1]] = @ + 1]
    /\ Unlock(t)
    /\ UNCHANGED <<posts, unrecorded, sends, alerted, processing, queueVars, attempt, outcome>>

\* The audit row refers to the transaction.
Record(t) ==
    /\ pc[t] = "record"
    /\ TransactionFree(t[1])
    /\ WriteAttempt(t)
    /\ \/ NewStatus(t) = "success"  /\ Returns(t, "nil")
       \/ NewStatus(t) = "retrying" /\ Returns(t, "error")
       \/ NewStatus(t) = "failed_permanently" /\ GoTo(t, "notify") /\ UNCHANGED err
    /\ UNCHANGED budgetVars

Rollback(t) ==
    /\ Lose(t)
    /\ Unlock(t)
    /\ Returns(t, "error")
    /\ UNCHANGED <<delivery, attempts, posts, sends, alerted, processing, queueVars, attempt,
                   outcome>>

\* An INSERT, the UPDATE or the COMMIT fails, and the attempt leaves no trace.
RecordFails(t) ==
    /\ pc[t] = "record"
    /\ Fault
    /\ Rollback(t)

\* Postgres aborts the handler of a deadlock.
HandlerAborts(t) ==
    /\ \E d \in Delivery : Deadlocked(t, d)
    /\ Rollback(t)
    /\ UNCHANGED budgetVars

\* The COMMIT took effect but its answer is lost.
CommitAnswerLost(t) ==
    /\ pc[t] = "record"
    /\ TransactionFree(t[1])
    /\ Fault
    /\ WriteAttempt(t)
    /\ Returns(t, "error")

Notify_Skipped(t) ==
    /\ pc[t] = "notify"
    /\ Returns(t, "nil")
    /\ UNCHANGED <<rowVars, processing, queueVars, attempt, outcome, lock, budgetVars>>

\* NotifyWebhookFailure reads the delivery again: a resend may have come first.
Notify(t) ==
    /\ pc[t] = "notify"
    /\ alerted' = IF delivery[t[1]].status = "failed_permanently"
                  THEN alerted \union {<<t[1], sends[t[1]]>>} ELSE alerted
    /\ Returns(t, "nil")
    /\ UNCHANGED <<delivery, attempts, posts, unrecorded, sends, processing, queueVars, attempt,
                   outcome, lock, budgetVars>>

\* It fails, and the handler only counts the failure in a metric.
NotifyFails(t) ==
    /\ pc[t] = "notify"
    /\ Fault
    /\ Returns(t, "nil")
    /\ UNCHANGED <<rowVars, processing, queueVars, attempt, outcome, lock>>

\* "return err" of the handler: the value of err is the last one any handler
\* stored, and asynq acts on it.
Return(t) ==
    /\ pc[t] = "return"
    /\ \/ /\ err = "nil"
          /\ task' = [task EXCEPT ![t] = "done"]
          /\ UNCHANGED retried
       \/ /\ err = "error"
          /\ RetryOrArchive(t)
    /\ Reset(t)
    /\ UNCHANGED <<rowVars, processing, lock, err, budgetVars>>

--------------------------------------------------------------------------------
(* The worker process.                                                     *)

InTransaction(t) == pc[t] \in {"begin", "post", "record"}

\* Every handler is gone, Postgres rolls its transactions back, and a new
\* process starts with err = nil.
StopHandlers ==
    /\ pc' = [t \in Task |-> "idle"]
    /\ attempt' = [t \in Task |-> 0]
    /\ outcome' = [t \in Task |-> "unknown"]
    /\ lock' = [s \in Store |-> NoTask]
    /\ err' = "nil"
    /\ unrecorded' = [d \in Delivery |-> IF \E t \in Task : t[1] = d /\ InTransaction(t)
                                          THEN unrecorded[d] + 1 ELSE unrecorded[d]]
    /\ UNCHANGED <<delivery, attempts, posts, sends, alerted, processing>>

Crash ==
    /\ Running # {}
    /\ crashes < MaxCrashes /\ MayHappen
    /\ crashes' = crashes + 1
    /\ StopHandlers
    /\ UNCHANGED <<queueVars, faults, shutdowns>>

\* server.Shutdown: the handlers that do not end in time are aborted and their
\* tasks are put back in the queue without costing a retry.
Shutdown ==
    /\ Running # {}
    /\ shutdowns < MaxShutdowns /\ MayHappen
    /\ shutdowns' = shutdowns + 1
    /\ StopHandlers
    /\ task' = [t \in Task |-> IF t \in Running THEN "queued" ELSE task[t]]
    /\ UNCHANGED <<retried, faults, crashes>>

--------------------------------------------------------------------------------
Handler(t) ==
    \/ SkipDelivered(t) \/ Load(t) \/ Post(t) \/ CannotSign(t) \/ Record(t)
    \/ HandlerAborts(t) \/ Notify(t) \/ Return(t)

HandlerFault(t) ==
    LoadFails(t) \/ RecordFails(t) \/ CommitAnswerLost(t) \/ NotifyFails(t)

Next ==
    \/ \E d \in Delivery :
          LockTransaction(d) \/ NotificationFails(d) \/ CreateDelivery(d) \/ Resend(d)
    \/ \E t \in Task : \/ Enqueue(t) \/ EnqueueFails(t) \/ Dequeue(t)
                       \/ RecoverLease(t) \/ Handler(t) \/ HandlerFault(t)
    \/ Crash
    \/ Shutdown

Spec == Init /\ [][Next]_vars

\* Nothing obliges a merchant to resend or a process to stop; an API call that has
\* committed goes on to Redis, asynq serves its queues, recovers leases, and a
\* handler whose HTTP client has a timeout goes on (a waiter gets its row lock).
Fairness ==
    \A t \in Task : /\ WF_vars(Enqueue(t))
                    /\ WF_vars(Dequeue(t))
                    /\ WF_vars(RecoverLease(t))
                    /\ WF_vars(Handler(t))

FairSpec == Spec /\ Fairness

--------------------------------------------------------------------------------
(* Safety.                                                                 *)

Attempting(t) == pc[t] \in {"post", "record"}

\* FOR UPDATE locks the store row with the delivery row: between its SELECT and its
\* COMMIT a handler is alone, on its delivery and on every delivery of the store.
OneAttemptPerStore ==
    \A t, u \in Task :
        Attempting(t) /\ Attempting(u) /\ t # u => StoreOf[t[1]] # StoreOf[u[1]]

\* attempt_count is the number of attempt rows of the send: no attempt is counted
\* twice or lost, whatever number of tasks drive the delivery and wherever they fail.
AttemptRowPerCount ==
    \A d \in Delivery : attempts[d] = delivery[d].count

\* A delivery that succeeded is never touched again: not by a task that asynq runs
\* once more, not by the task of an earlier send, not by a resend.
DeliveredIsFinal ==
    [][\A d \in Delivery :
          delivery[d].status = "success" => delivery'[d] = delivery[d]]_vars

\* The rows go through the life of DeliveryLifecycle.
Lifecycle == INSTANCE DeliveryLifecycle

ImplementsLifecycle == Lifecycle!Spec

\* "Stop after: 10 failed attempts", as far as it is true: asynq's retry counter holds a
\* delivery that was not resent to the limit, except for one attempt for every graceful
\* shutdown, which puts a task back whose attempt is already counted.
AttemptLimit ==
    \A d \in Delivery : sends[d] = 1 => delivery[d].count <= MaxAttempts + shutdowns

\* "Setiap attempt dicatat", as far as it is true: outside the transaction of a handler,
\* a POST the merchant received has its row in webhook_delivery_attempts, except for
\* one for every run of the delivery that was rolled back.
PostsRecorded ==
    \A d \in Delivery :
        (\A t \in Task : t[1] = d => pc[t] # "record")
            => posts[d] <= attempts[d] + unrecorded[d]

Unsettled(d) == delivery[d].status \in {"pending", "retrying"}

\* Redis refused the last send of d.
NotEnqueued(d) == \E k \in 1..MaxSends : k = sends[d] /\ task[<<d, k>>] = "lost"

\* A run of d was rolled back, which costs its task a retry and the row no attempt; or
\* the task of an earlier send outlived it (its run had failed the delivery for good, and
\* a shutdown or a lost answer made asynq run it again), and may revive the row with
\* its last retry.
Disturbed(d) ==
    \/ unrecorded[d] > 0
    \/ \E k \in 1..MaxSends : k < sends[d] /\ task[<<d, k>>] # "done"

\* A delivery that is not settled still has a task that asynq will run, or an API
\* call that is about to enqueue it, unless it was disturbed: the retries of the task
\* last as long as the attempts of the row.  Nothing else ever picks a delivery up.
NotOrphaned ==
    \A d \in Delivery :
        Unsettled(d) /\ ~Disturbed(d) /\ ~NotEnqueued(d) =>
            \E k \in 1..MaxSends :
                k = sends[d] /\ task[<<d, k>>] \in {"owed", "queued", "active", "retry"}

\* No handler stores its result in err while another one is between storing its own and
\* returning it: what asynq is told of a task is what became of the task.  The code does
\* not see to it.
ResultsApart ==
    \A t, u \in Task : pc[t] = "return" /\ pc[u] = "return" => t = u

\* As long as no call has failed and no worker has died: a delivery that has failed for
\* good is announced, or a handler is about to announce it, or a run that was cut short
\* before it could comes once more (Record, Notify and Shutdown).
FailureNotForgotten ==
    \A d \in Delivery :
        delivery[d].status = "failed_permanently" /\ unrecorded[d] + faults + crashes = 0 =>
            \/ <<d, sends[d]>> \in alerted
            \/ \E t \in Task :
                  t[1] = d /\ (pc[t] = "notify" \/ InTransaction(t) \/ task[t] = "queued")

--------------------------------------------------------------------------------
(* Liveness.                                                               *)

Settled(d) == delivery[d].status \in {"success", "failed_permanently"}

\* Every delivery that is created or resent ends delivered or failed for good, deadlocks
\* or not, unless it was not enqueued or was disturbed.
EverySendSettles ==
    \A d \in Delivery : Unsettled(d) ~> Settled(d) \/ NotEnqueued(d) \/ Disturbed(d)

\* A failure for good is announced to the alert endpoints, unless a resend or a
\* later attempt has overtaken it, a run was rolled back, a call failed or the worker died.
FailureAlerted ==
    \A d \in Delivery, k \in 1..MaxSends :
        (delivery[d].status = "failed_permanently" /\ sends[d] = k)
            ~> \/ <<d, k>> \in alerted \/ sends[d] > k \/ delivery[d].status = "success"
               \/ unrecorded[d] > 0 \/ faults > 0 \/ crashes > 0
================================================================================
