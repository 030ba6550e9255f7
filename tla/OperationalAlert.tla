---------------------------- MODULE OperationalAlert ----------------------------
(***************************************************************************)
(* Operational alerts to the endpoints of a user:                          *)
(* internal/app/alertendpoint/service.go, the alert handler of             *)
(* cmd/worker/main.go, and asynq between them (external, as in             *)
(* WebhookDelivery: MaxRetry(maxAttempts-1), SkipRetry archives).          *)
(*                                                                         *)
(* A call of NotifyWebhookFailure makes an alert for every endpoint it     *)
(* finds, a call of SendTestByUser for one endpoint: <<c, e>> is the row of*)
(* alert_deliveries that call c makes for endpoint e, and its task.  A     *)
(* handler locks the alert and then its endpoint, POSTs with both locked,  *)
(* and commits.  A deletion of an endpoint locks the endpoint and then its *)
(* alerts (ON DELETE CASCADE), so that the two can deadlock and Postgres   *)
(* aborts one.  An edit reads the endpoint without a lock and writes every *)
(* column back.                                                            *)
(*                                                                         *)
(* Left out: names, channels, URLs, auth tokens and payloads (a body that  *)
(* cannot be built or a token that does not decrypt is a choice), the      *)
(* last_* columns, the number of workers.                                  *)
(***************************************************************************)
EXTENDS Naturals

CONSTANTS
    Endpoint,       \* rows of alert_endpoints
    Notice,         \* calls of NotifyWebhookFailure
    Test,           \* calls of SendTestByUser
    Editor,         \* edits handled at a time
    MaxAttempts,    \* defaultMaxAttempts
    None,           \* no endpoint; a lock nobody holds
    Owner,          \* the DELETE of an endpoint, as the holder of its lock
    Workloads       \* bounds, of which one is chosen: the endpoints, the calls, how many
                    \* edits and deletions, how many calls that fail and processes that stop

Call  == Notice \union Test
Alert == Call \X Endpoint

ASSUME AttemptAssumption == MaxAttempts \in Nat \ {0}
ASSUME HolderAssumption ==
    None \notin Alert \union Endpoint \union {Owner} /\ Owner \notin Alert
ASSUME WorkloadAssumption ==
    Workloads \subseteq [endpoints : SUBSET Endpoint,
                         calls : SUBSET {"edit", "delete", "notify", "test"},
                         changes : Nat, incidents : Nat]
ASSUME CallAssumption == Notice \intersect Test = {}

VARIABLES
    load,       \* the workload
    status,     \* [Endpoint -> status]; one that is not active is inactive
    hears,      \* endpoints whose events hold webhook.failed_permanently
    editing,    \* [Editor -> endpoint of an edit that has read it and not written]
    edit,       \* [Editor -> what it will write, and whether the status was asked for]
    off,        \* endpoints to stay inactive: switched off and not on since (history)
    late,       \* edits that had read their endpoint before that (history)
    alert,      \* [Alert -> row]: status and attempt_count
    accepted,   \* POSTs of the alert the destination has accepted (history)
    unrecorded, \* runs of its task that ended without a trace in the row (history)
    todo,       \* [Call -> endpoints it has still to make an alert for]
    listed,     \* [Call -> endpoints it has found] (history)
    result,     \* what the call returns as far as it knows
    task,       \* asynq state of every alert's task
    retried,    \* its retry counter
    pc,         \* where its handler is, or what it is about to return
    outcome,    \* what the handler knows of its POST
    lock,       \* [Endpoint -> holder of the lock on its row]
    changes, incidents

ownerVars   == <<load, status, hears, editing, edit, off, late>>
rowVars     == <<alert, accepted, unrecorded>>
callVars    == <<todo, listed, result>>
queueVars   == <<task, retried>>
handlerVars == <<pc, outcome>>
vars == <<ownerVars, rowVars, callVars, queueVars, handlerVars, lock, changes, incidents>>

Edit   == [asked : BOOLEAN, active : BOOLEAN, hears : BOOLEAN]
NoEdit == [asked |-> FALSE, active |-> FALSE, hears |-> FALSE]
Row    == [status : {"none", "pending", "retrying", "success", "failed", "deleted"},
           count : 0..MaxAttempts]

\* The type of every variable: no task is retried more than MaxRetry times and no alert
\* attempted more than MaxAttempts times.
TypeOK ==
    /\ load       \in Workloads
    /\ status     \in [Endpoint -> {"none", "active", "inactive", "deleted"}]
    /\ hears      \subseteq Endpoint
    /\ editing    \in [Editor -> Endpoint \union {None}]
    /\ edit       \in [Editor -> Edit]
    /\ off        \subseteq Endpoint
    /\ late       \subseteq Editor
    /\ alert      \in [Alert -> Row]
    /\ accepted   \in [Alert -> Nat]
    /\ unrecorded \in [Alert -> Nat]
    /\ todo       \in [Call -> SUBSET Endpoint]
    /\ listed     \in [Call -> SUBSET Endpoint]
    /\ result     \in [Call -> {"idle", "nil", "error"}]
    /\ task       \in [Alert -> {"none", "owed", "lost", "queued", "active", "retry", "done",
                                 "archived"}]
    /\ retried    \in [Alert -> 0..MaxAttempts - 1]
    /\ pc         \in [Alert -> {"idle", "begin", "endpoint", "post", "record",
                                 "nil", "error", "skip"}]
    /\ outcome    \in [Alert -> {"unknown", "ok", "rejected", "permanent"}]
    /\ lock       \in [Endpoint -> Alert \union {Owner, None}]
    /\ changes    \in 0..load.changes
    /\ incidents  \in 0..load.incidents

Init ==
    /\ load \in Workloads
    /\ status     = [e \in Endpoint |-> "none"]
    /\ hears = {} /\ off = {} /\ late = {}
    /\ editing    = [d \in Editor |-> None]
    /\ edit       = [d \in Editor |-> NoEdit]
    /\ alert      = [a \in Alert |-> [status |-> "none", count |-> 0]]
    /\ accepted   = [a \in Alert |-> 0]
    /\ unrecorded = [a \in Alert |-> 0]
    /\ todo       = [c \in Call |-> {}]
    /\ listed     = [c \in Call |-> {}]
    /\ result     = [c \in Call |-> "idle"]
    /\ task       = [a \in Alert |-> "none"]
    /\ retried    = [a \in Alert |-> 0]
    /\ pc         = [a \in Alert |-> "idle"]
    /\ outcome    = [a \in Alert |-> "unknown"]
    /\ lock       = [e \in Endpoint |-> None]
    /\ changes = 0 /\ incidents = 0

Incident ==
    /\ incidents < load.incidents
    /\ incidents' = incidents + 1

Change ==
    /\ changes < load.changes
    /\ changes' = changes + 1

Exists(e) == status[e] \in {"active", "inactive"}

--------------------------------------------------------------------------------
(* The dashboard: endpoints are created, edited and deleted.               *)

\* CreateByUser: no events are the default ones, no status is active.
CreateByUser(e) ==
    /\ e \in load.endpoints /\ status[e] = "none"
    /\ \E s \in {"active", "inactive"} : status' = [status EXCEPT ![e] = s]
    /\ hears' = hears \union {e}
    /\ UNCHANGED <<load, editing, edit, off, late, rowVars, callVars, queueVars, handlerVars, lock,
                   changes, incidents>>

\* getEndpointForUpdate, which locks nothing, and the columns the edit will write: those
\* it has read unless others are asked for.  An empty list of events passes the
\* validation, which puts the default one in a copy, and is written as it is.
ReadEndpoint(d, e) ==
    /\ "edit" \in load.calls /\ editing[d] = None
    /\ Exists(e)
    /\ Change
    /\ editing' = [editing EXCEPT ![d] = e]
    /\ \E asked, on, events \in BOOLEAN :
          /\ ~asked => on = (status[e] = "active")
          /\ edit' = [edit EXCEPT ![d] = [asked |-> asked, active |-> on, hears |-> events]]
    /\ UNCHANGED <<load, status, hears, off, late, rowVars, callVars, queueVars, handlerVars, lock,
                   incidents>>

\* What an edit does to the endpoint the owner wants switched off.
KeepHistory(d, e, on) ==
    LET others == {x \in Editor \ {d} : editing[x] = e}
    IN  IF edit[d].asked /\ ~edit[d].active
        THEN off' = off \union {e} /\ late' = (late \ {d}) \union others
        ELSE /\ off' = IF on /\ (edit[d].asked \/ d \in late) THEN off \ {e} ELSE off
             /\ late' = late \ {d}

WriteEndpoint(d, on) ==
    LET e == editing[d] IN
    /\ e # None
    /\ IF Exists(e)
       THEN /\ status' = [status EXCEPT ![e] = IF on THEN "active" ELSE "inactive"]
            /\ hears' = IF edit[d].hears THEN hears \union {e} ELSE hears \ {e}
            /\ KeepHistory(d, e, on)
       ELSE late' = late \ {d} /\ UNCHANGED <<status, hears, off>>
    /\ editing' = [editing EXCEPT ![d] = None]
    /\ edit' = [edit EXCEPT ![d] = NoEdit]
    /\ UNCHANGED <<load, rowVars, callVars, queueVars, handlerVars, lock, changes, incidents>>

\* The UPDATE waits for the lock on the row and asks nothing of it but to exist.
UpdateByUser(d) ==
    /\ editing[d] # None /\ lock[editing[d]] = None
    /\ WriteEndpoint(d, edit[d].active)

\* DeleteByUser: the DELETE has locked the endpoint and goes for its alerts.
DeleteByUser(e) ==
    /\ "delete" \in load.calls
    /\ Exists(e) /\ lock[e] = None
    /\ Change
    /\ lock' = [lock EXCEPT ![e] = Owner]
    /\ UNCHANGED <<ownerVars, rowVars, callVars, queueVars, handlerVars, incidents>>

\* A handler has locked an alert of e and waits for e, which the DELETE has locked.
Deadlocked(a) == pc[a] = "endpoint" /\ lock[a[2]] = Owner

\* ON DELETE CASCADE: the alerts that no handler has locked go with the endpoint.
Cascade(e) ==
    /\ lock[e] = Owner
    /\ \A c \in Call : pc[<<c, e>>] # "endpoint"
    /\ status' = [status EXCEPT ![e] = "deleted"]
    /\ hears' = hears \ {e} /\ off' = off \ {e}
    /\ alert' = [a \in Alert |-> IF a[2] = e /\ alert[a].status # "none"
                                 THEN [status |-> "deleted", count |-> 0] ELSE alert[a]]
    /\ lock' = [lock EXCEPT ![e] = None]
    /\ UNCHANGED <<load, editing, edit, late, accepted, unrecorded, callVars, queueVars, handlerVars,
                   changes, incidents>>

\* Postgres aborts the DELETE.
DeleteAborts(e) ==
    /\ lock[e] = Owner
    /\ \/ UNCHANGED incidents /\ \E c \in Call : Deadlocked(<<c, e>>)
       \/ Incident
    /\ lock' = [lock EXCEPT ![e] = None]
    /\ UNCHANGED <<ownerVars, rowVars, callVars, queueVars, handlerVars, changes>>

--------------------------------------------------------------------------------
(* Calls that make alerts: an INSERT and a call of Redis for each.         *)

Begin(c, E) ==
    /\ result[c] = "idle"
    /\ result' = [result EXCEPT ![c] = "nil"]
    /\ todo'   = [todo EXCEPT ![c] = E]
    /\ listed' = [listed EXCEPT ![c] = E]
    /\ UNCHANGED <<ownerVars, rowVars, queueVars, handlerVars, lock, changes, incidents>>

\* A delivery to a merchant has failed for good: loadWebhookFailureContext and
\* listActiveEndpointsForEvent.
NotifyWebhookFailure(c) ==
    /\ "notify" \in load.calls
    /\ Begin(c, {e \in Endpoint : status[e] = "active" /\ e \in hears})

\* A test goes to an inactive endpoint too.
SendTestByUser(c, e) ==
    /\ "test" \in load.calls
    /\ Exists(e)
    /\ Begin(c, {e})

Owing(c) == \E e \in Endpoint : task[<<c, e>>] = "owed"

\* The endpoint whose turn it is.
Turn(c, e) == e \in todo[c] /\ ~Owing(c)

Done(c, e) == todo' = [todo EXCEPT ![c] = @ \ {e}]

\* createAlertDelivery: the foreign key takes a lock on the endpoint, which FOR UPDATE
\* and DELETE exclude.
CreateAlertDelivery(c, e) ==
    /\ Turn(c, e)
    /\ lock[e] = None /\ Exists(e)
    /\ alert' = [alert EXCEPT ![<<c, e>>].status = "pending"]
    /\ task' = [task EXCEPT ![<<c, e>>] = "owed"]
    /\ Done(c, e)
    /\ UNCHANGED <<ownerVars, accepted, unrecorded, listed, result, retried, handlerVars, lock,
                   changes, incidents>>

CreateFails_Ignored(c, e) ==
    /\ Turn(c, e)
    /\ \/ lock[e] = None /\ ~Exists(e) /\ UNCHANGED incidents
       \/ Incident
    /\ Done(c, e)
    /\ UNCHANGED <<ownerVars, rowVars, listed, result, queueVars, handlerVars, lock, changes>>

\* The endpoint is deleted, or Postgres fails: the call goes on and returns an error.
CreateFails(c, e) ==
    /\ Turn(c, e)
    /\ \/ lock[e] = None /\ ~Exists(e) /\ UNCHANGED incidents
       \/ Incident
    /\ Done(c, e)
    /\ result' = [result EXCEPT ![c] = "error"]
    /\ UNCHANGED <<ownerVars, rowVars, listed, queueVars, handlerVars, lock, changes>>

\* enqueueAlert.
EnqueueAlert(a) ==
    /\ task[a] = "owed"
    /\ task' = [task EXCEPT ![a] = "queued"]
    /\ UNCHANGED <<ownerVars, rowVars, callVars, retried, handlerVars, lock, changes, incidents>>

\* Redis refuses the task: nothing enqueues the alert any more.
EnqueueFails(a) ==
    /\ task[a] = "owed"
    /\ Incident
    /\ task' = [task EXCEPT ![a] = "lost"]
    /\ result' = [result EXCEPT ![a[1]] = "error"]
    /\ UNCHANGED <<ownerVars, rowVars, todo, listed, retried, handlerVars, lock, changes>>

--------------------------------------------------------------------------------
(* asynq.                                                                  *)

GoTo(a, phase) == pc' = [pc EXCEPT ![a] = phase]

Dequeue(a) ==
    /\ task[a] \in {"queued", "retry"}
    /\ task' = [task EXCEPT ![a] = "active"]
    /\ GoTo(a, "begin")
    /\ UNCHANGED <<ownerVars, rowVars, callVars, retried, outcome, lock, changes, incidents>>

RetryOrArchive_FewerRetries(a) ==
    \/ /\ retried[a] + 1 < MaxAttempts - 1
       /\ task' = [task EXCEPT ![a] = "retry"]
       /\ retried' = [retried EXCEPT ![a] = @ + 1]
    \/ /\ retried[a] + 1 >= MaxAttempts - 1
       /\ task' = [task EXCEPT ![a] = "archived"]
       /\ UNCHANGED retried

\* A run that fails costs a retry; with none left the task is archived.
RetryOrArchive(a) ==
    \/ /\ retried[a] < MaxAttempts - 1
       /\ task' = [task EXCEPT ![a] = "retry"]
       /\ retried' = [retried EXCEPT ![a] = @ + 1]
    \/ /\ retried[a] >= MaxAttempts - 1
       /\ task' = [task EXCEPT ![a] = "archived"]
       /\ UNCHANGED retried

RecoverLease(a) ==
    /\ task[a] = "active" /\ pc[a] = "idle"
    /\ RetryOrArchive(a)
    /\ UNCHANGED <<ownerVars, rowVars, callVars, handlerVars, lock, changes, incidents>>

\* What ProcessTask returns decides what becomes of the task.
Return(a) ==
    /\ \/ pc[a] = "nil"   /\ task' = [task EXCEPT ![a] = "done"] /\ UNCHANGED retried
       \/ pc[a] = "skip"  /\ task' = [task EXCEPT ![a] = "archived"] /\ UNCHANGED retried
       \/ pc[a] = "error" /\ RetryOrArchive(a)
    /\ GoTo(a, "idle")
    /\ outcome' = [outcome EXCEPT ![a] = "unknown"]
    /\ UNCHANGED <<ownerVars, rowVars, callVars, lock, changes, incidents>>

--------------------------------------------------------------------------------
(* ProcessTask: one transaction on the alert and its endpoint.             *)

\* The row of the alert is locked; the endpoint is next.
LockAlert(a) ==
    /\ pc[a] = "begin"
    /\ alert[a].status # "deleted"
    /\ GoTo(a, "endpoint")
    /\ UNCHANGED <<ownerVars, rowVars, callVars, queueVars, outcome, lock, changes, incidents>>

\* There is no such row.
AlertGone(a) ==
    /\ pc[a] = "begin"
    /\ alert[a].status = "deleted"
    /\ GoTo(a, "skip")
    /\ UNCHANGED <<ownerVars, rowVars, callVars, queueVars, outcome, lock, changes, incidents>>

\* The alert is settled already: the transaction commits and nothing is done.
AlreadySettled(a) ==
    /\ pc[a] = "endpoint" /\ lock[a[2]] = None
    /\ alert[a].status \in {"success", "failed"}
    /\ GoTo(a, "nil")
    /\ UNCHANGED <<ownerVars, rowVars, callVars, queueVars, outcome, lock, changes, incidents>>

LockEndpoint_RowOnly(a) ==
    /\ pc[a] = "endpoint"
    /\ alert[a].status \in {"pending", "retrying"}
    /\ \/ status[a[2]] = "active" /\ GoTo(a, "post") /\ UNCHANGED outcome
       \/ /\ status[a[2]] # "active"
          /\ outcome' = [outcome EXCEPT ![a] = "permanent"]
          /\ GoTo(a, "record")
    /\ UNCHANGED <<ownerVars, rowVars, callVars, queueVars, lock, changes, incidents>>

LockEndpoint_AnyStatus(a) ==
    /\ pc[a] = "endpoint" /\ lock[a[2]] = None
    /\ lock' = [lock EXCEPT ![a[2]] = a]
    /\ \/ status[a[2]] = "active" /\ GoTo(a, "post") /\ UNCHANGED outcome
       \/ /\ status[a[2]] # "active"
          /\ outcome' = [outcome EXCEPT ![a] = "permanent"]
          /\ GoTo(a, "record")
    /\ UNCHANGED <<ownerVars, rowVars, callVars, queueVars, changes, incidents>>

\* loadDeliveryStateForUpdate is over: both rows stay locked until the transaction ends.
\* An endpoint that is not active is a permanent error.
LockEndpoint(a) ==
    /\ pc[a] = "endpoint" /\ lock[a[2]] = None
    /\ alert[a].status \in {"pending", "retrying"}
    /\ lock' = [lock EXCEPT ![a[2]] = a]
    /\ \/ status[a[2]] = "active" /\ GoTo(a, "post") /\ UNCHANGED outcome
       \/ /\ status[a[2]] # "active"
          /\ outcome' = [outcome EXCEPT ![a] = "permanent"]
          /\ GoTo(a, "record")
    /\ UNCHANGED <<ownerVars, rowVars, callVars, queueVars, changes, incidents>>

\* The POST is answered with 2xx ("ok") or with anything else; or there is none, because
\* the auth token does not decrypt or the body cannot be built.
Post(a) ==
    /\ pc[a] = "post"
    /\ \E x \in {"ok", "rejected", "permanent"} :
          /\ outcome' = [outcome EXCEPT ![a] = x]
          /\ accepted' = IF x = "ok" THEN [accepted EXCEPT ![a] = @ + 1] ELSE accepted
    /\ GoTo(a, "record")
    /\ UNCHANGED <<ownerVars, alert, unrecorded, callVars, queueVars, lock, changes, incidents>>

FinalFailure_OffByOne(a) == outcome[a] = "permanent" \/ alert[a].count + 1 > MaxAttempts

\* The row is locked, so attemptNumber is one more than its count.
FinalFailure(a) == outcome[a] = "permanent" \/ alert[a].count + 1 >= MaxAttempts

NextStatus(a) ==
    IF outcome[a] = "ok" THEN "success" ELSE IF FinalFailure(a) THEN "failed" ELSE "retrying"

WriteAttempt(a) ==
    /\ alert' = [alert EXCEPT ![a] = [status |-> NextStatus(a), count |-> @.count + 1]]
    /\ lock' = [lock EXCEPT ![a[2]] = None]
    /\ UNCHANGED <<ownerVars, accepted, unrecorded, callVars, queueVars, outcome, changes>>

Record_ErrorSwallowed(a) ==
    /\ pc[a] = "record"
    /\ WriteAttempt(a)
    /\ GoTo(a, "nil")
    /\ UNCHANGED incidents

\* The two UPDATEs and the COMMIT.
Record(a) ==
    /\ pc[a] = "record"
    /\ WriteAttempt(a)
    /\ GoTo(a, IF NextStatus(a) = "retrying" THEN "error" ELSE "nil")
    /\ UNCHANGED incidents

\* The COMMIT took effect but its answer is lost.
CommitAnswerLost(a) ==
    /\ pc[a] = "record"
    /\ Incident
    /\ WriteAttempt(a)
    /\ GoTo(a, "error")

\* The transaction is rolled back.
Rollback(a) ==
    /\ lock' = [e \in Endpoint |-> IF lock[e] = a THEN None ELSE lock[e]]
    /\ unrecorded' = [unrecorded EXCEPT ![a] = @ + 1]
    /\ GoTo(a, "error")
    /\ UNCHANGED <<ownerVars, alert, accepted, callVars, queueVars, outcome, changes>>

\* A statement or the COMMIT fails.
TransactionFails(a) ==
    /\ pc[a] \in {"begin", "endpoint", "record"}
    /\ Incident
    /\ Rollback(a)

\* Postgres aborts the handler of a deadlock.
HandlerAborts(a) ==
    /\ Deadlocked(a)
    /\ Rollback(a)
    /\ UNCHANGED incidents

--------------------------------------------------------------------------------
(* Processes that stop.                                                    *)

Unfinished(c) == todo[c] # {} \/ Owing(c)

\* The processes of the calls C are gone: what they have not enqueued nobody enqueues.
Drop(C) ==
    /\ todo' = [c \in Call |-> IF c \in C THEN {} ELSE todo[c]]
    /\ result' = [c \in Call |-> IF c \in C /\ Unfinished(c) THEN "error" ELSE result[c]]
    /\ UNCHANGED listed

\* The API process of a test is gone.
TestDies(c) ==
    /\ Unfinished(c)
    /\ Incident
    /\ Drop({c})
    /\ task' = [a \in Alert |-> IF a[1] = c /\ task[a] = "owed" THEN "lost" ELSE task[a]]
    /\ UNCHANGED <<ownerVars, rowVars, retried, handlerVars, lock, changes>>

InTransaction(a) == pc[a] \in {"begin", "endpoint", "post", "record"}

\* The worker is gone, with the handlers of alerts and those of deliveries that were
\* notifying; Postgres rolls their transactions back.
StopWorker ==
    /\ Incident
    /\ Drop(Notice)
    /\ pc' = [a \in Alert |-> "idle"]
    /\ outcome' = [a \in Alert |-> "unknown"]
    /\ lock' = [e \in Endpoint |-> IF lock[e] = Owner THEN Owner ELSE None]
    /\ unrecorded' = [a \in Alert |-> IF InTransaction(a) THEN unrecorded[a] + 1
                                      ELSE unrecorded[a]]
    /\ UNCHANGED <<ownerVars, alert, accepted, retried, changes>>

Undone(a) == IF a[1] \in Notice /\ task[a] = "owed" THEN "lost" ELSE task[a]

\* It dies: the tasks wait for their leases to expire.
Crash ==
    /\ StopWorker
    /\ task' = [a \in Alert |-> Undone(a)]

\* server.Shutdown: the tasks are put back without costing a retry.
Shutdown ==
    /\ StopWorker
    /\ task' = [a \in Alert |-> IF pc[a] # "idle" THEN "queued" ELSE Undone(a)]

--------------------------------------------------------------------------------
Handler(a) ==
    \/ LockAlert(a) \/ AlertGone(a) \/ AlreadySettled(a) \/ LockEndpoint(a) \/ Post(a)
    \/ Record(a) \/ Return(a) \/ HandlerAborts(a)

Next ==
    \/ \E e \in Endpoint : CreateByUser(e) \/ DeleteByUser(e) \/ Cascade(e) \/ DeleteAborts(e)
    \/ \E d \in Editor : UpdateByUser(d) \/ \E e \in Endpoint : ReadEndpoint(d, e)
    \/ \E c \in Notice : NotifyWebhookFailure(c)
    \/ \E c \in Test : TestDies(c) \/ \E e \in Endpoint : SendTestByUser(c, e)
    \/ \E c \in Call, e \in Endpoint : CreateAlertDelivery(c, e) \/ CreateFails(c, e)
    \/ \E a \in Alert : \/ EnqueueAlert(a) \/ EnqueueFails(a) \/ Dequeue(a) \/ RecoverLease(a)
                        \/ Handler(a) \/ CommitAnswerLost(a) \/ TransactionFails(a)
    \/ Crash \/ Shutdown

Spec == Init /\ [][Next]_vars

\* Nothing obliges a user to do anything, or a process to stop.  asynq serves its queues
\* and recovers leases; a handler, whose HTTP client has a timeout, goes on; Postgres
\* ends a DELETE and breaks deadlocks.
Fairness ==
    /\ \A a \in Alert : WF_vars(Dequeue(a)) /\ WF_vars(RecoverLease(a)) /\ WF_vars(Handler(a))
    /\ \A e \in Endpoint : WF_vars(Cascade(e) \/ DeleteAborts(e))

FairSpec == Spec /\ Fairness

--------------------------------------------------------------------------------
(* Properties.                                                             *)

\* Nothing is sent to an endpoint its owner has switched off: an edit waits for the POST
\* that is under way (FOR UPDATE OF ad, ae), and a handler that waited for the edit sees
\* what it wrote.  Only an edit that asks for it, or one that had read the endpoint
\* before it was switched off and writes every column back, undoes it.
QuietWhenOff == \A a \in Alert : pc[a] = "post" => a[2] \notin off

\* The destination accepts an alert once, except for runs that ended without a trace.
AcceptedOnce == \A a \in Alert : accepted[a] <= 1 + unrecorded[a]

\* Every endpoint that NotifyWebhookFailure or SendTestByUser found has an alert whose
\* task was enqueued, or is still to get one, unless the call returns an error: one that
\* fails in the middle hides nothing.
AnnouncedOrError ==
    \A c \in Call : result[c] = "nil" =>
        \A e \in listed[c] : e \in todo[c] \/ task[<<c, e>>] \notin {"none", "lost"}

\* asynq gives an alert up (archives its task) only when the row is settled or deleted, or
\* a run ended without a trace: MaxRetry agrees with maxAttempts.
NotAbandoned ==
    \A a \in Alert : alert[a].status \in {"pending", "retrying"} =>
        task[a] \in {"owed", "lost", "queued", "active", "retry"} \/ unrecorded[a] > 0

\* The rows go through the life of AlertLifecycle: every attempt counts once, at most
\* MaxAttempts are made, delivered and failed are final.
Lifecycle == INSTANCE AlertLifecycle

ImplementsLifecycle == Lifecycle!Spec

Settled(a) == alert[a].status \in {"success", "failed", "deleted"}

\* Every alert that is enqueued is delivered, fails for good or goes with its endpoint,
\* unless a run of it ends without a trace.
EveryAlertSettles ==
    \A a \in Alert : task[a] = "queued" ~> Settled(a) \/ unrecorded[a] > 0
================================================================================
