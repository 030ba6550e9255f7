------------------------- MODULE OperationalAlertProofs -------------------------
(***************************************************************************)
(* Proofs about OperationalAlert.                                          *)
(*                                                                         *)
(* The inductive invariant Inv says what the locks promise a handler       *)
(* (LockInv), how an alert that nobody has made yet looks (UnmadeInv), what*)
(* the edits of an endpoint that is to stay off will write (OffInv), that  *)
(* the retries of a task do not run ahead of the attempts in its row       *)
(* (RetryInv) nor the accepted POSTs ahead of a success (AcceptInv).       *)
(***************************************************************************)
EXTENDS OperationalAlert, TLAPS

Open(a) == alert[a].status \in {"pending", "retrying"}

LockInv ==
    \A a \in Alert :
        /\ pc[a] \in {"post", "record"} => Open(a) /\ lock[a[2]] = a
        /\ pc[a] = "post" => status[a[2]] = "active"
        /\ pc[a] # "idle" => task[a] = "active"
        /\ Open(a) => alert[a].count < MaxAttempts

UnmadeInv ==
    /\ \A a \in Alert : task[a] = "none" <=> alert[a].status = "none"
    /\ \A a \in Alert : task[a] = "none" => alert[a].count = 0 /\ retried[a] = 0
    /\ \A a \in Alert : task[a] = "owed" => retried[a] = 0
    /\ \A c \in Call, e \in Endpoint :
          e \in todo[c] \/ result[c] = "idle" => task[<<c, e>>] = "none"

CallInv == \A c \in Call : result[c] = "idle" => todo[c] = {}

OffInv ==
    /\ \A e \in off : status[e] = "inactive"
    /\ \A d \in Editor : editing[d] \in off /\ ~edit[d].asked /\ edit[d].active => d \in late

RetryInv ==
    \A a \in Alert : Open(a) /\ unrecorded[a] = 0 =>
        /\ task[a] \notin {"done", "archived"} /\ pc[a] \notin {"nil", "skip"}
        /\ IF task[a] = "active" /\ pc[a] \in {"idle", "error"}
           THEN retried[a] < alert[a].count ELSE retried[a] <= alert[a].count

AcceptInv ==
    \A a \in Alert :
        accepted[a] <= unrecorded[a]
                       + (IF alert[a].status \in {"none", "pending", "retrying"}
                             /\ ~(pc[a] = "record" /\ outcome[a] = "ok") THEN 0 ELSE 1)

OwnerTypes ==
    /\ load    \in Workloads
    /\ status  \in [Endpoint -> {"none", "active", "inactive", "deleted"}]
    /\ hears   \subseteq Endpoint
    /\ editing \in [Editor -> Endpoint \union {None}]
    /\ edit    \in [Editor -> Edit]
    /\ off     \subseteq Endpoint
    /\ late    \subseteq Editor

RowTypes ==
    /\ alert      \in [Alert -> Row]
    /\ accepted   \in [Alert -> Nat]
    /\ unrecorded \in [Alert -> Nat]

CallTypes ==
    /\ todo   \in [Call -> SUBSET Endpoint]
    /\ listed \in [Call -> SUBSET Endpoint]
    /\ result \in [Call -> {"idle", "nil", "error"}]

QueueTypes ==
    /\ task    \in [Alert -> {"none", "owed", "lost", "queued", "active", "retry", "done",
                              "archived"}]
    /\ retried \in [Alert -> 0..MaxAttempts - 1]

HandlerTypes ==
    /\ pc      \in [Alert -> {"idle", "begin", "endpoint", "post", "record",
                              "nil", "error", "skip"}]
    /\ outcome \in [Alert -> {"unknown", "ok", "rejected", "permanent"}]
    /\ lock    \in [Endpoint -> Alert \union {Owner, None}]

BudgetTypes == changes \in 0..load.changes /\ incidents \in 0..load.incidents

Inv == /\ TypeOK /\ LockInv /\ UnmadeInv /\ CallInv /\ OffInv /\ RetryInv
       /\ AcceptInv /\ AnnouncedOrError

--------------------------------------------------------------------------------
\* The types, in parts that a step disturbs one by one.
LEMMA TypeParts ==
    TypeOK <=> /\ OwnerTypes /\ RowTypes /\ CallTypes
               /\ QueueTypes /\ HandlerTypes /\ BudgetTypes
  BY DEF TypeOK, OwnerTypes, RowTypes, CallTypes, QueueTypes, HandlerTypes, BudgetTypes

\* The same, after a step.
LEMMA TypePartsNext ==
    TypeOK' <=> /\ OwnerTypes' /\ RowTypes' /\ CallTypes'
                /\ QueueTypes' /\ HandlerTypes' /\ BudgetTypes'
  BY DEF TypeOK, OwnerTypes, RowTypes, CallTypes, QueueTypes, HandlerTypes, BudgetTypes

\* An alert is a call and an endpoint.
LEMMA Pairs ==
    /\ \A a \in Alert : a[1] \in Call /\ a[2] \in Endpoint /\ a = <<a[1], a[2]>>
    /\ \A c \in Call, e \in Endpoint : <<c, e>> \in Alert
    /\ Notice \subseteq Call /\ Test \subseteq Call
  BY DEF Alert, Call

\* The fields of an edit.
LEMMA EditTypes ==
    /\ NoEdit \in Edit
    /\ \A x, y, z \in BOOLEAN : [asked |-> x, active |-> y, hears |-> z] \in Edit
    /\ \A x \in Edit : x.asked \in BOOLEAN /\ x.active \in BOOLEAN /\ x.hears \in BOOLEAN
  BY DEF NoEdit, Edit

\* The rows of alerts that a step may leave.
LEMMA RowTypesOf ==
    /\ \A r \in Row : r.count \in 0..MaxAttempts
    /\ [status |-> "none", count |-> 0] \in Row
    /\ [status |-> "deleted", count |-> 0] \in Row
    /\ \A r \in Row : [r EXCEPT !.status = "pending"] \in Row
  BY AttemptAssumption DEF Row

\* The first state satisfies the invariant.
LEMMA InitInv == Init => Inv
<1> SUFFICES ASSUME Init PROVE Inv
  OBVIOUS
<1>1. OwnerTypes
  BY EditTypes DEF Init, OwnerTypes
<1>2. RowTypes
  BY RowTypesOf DEF Init, RowTypes
<1>3. CallTypes /\ HandlerTypes
  BY DEF Init, CallTypes, HandlerTypes
<1>4. QueueTypes
  BY AttemptAssumption DEF Init, QueueTypes
<1>5. BudgetTypes
  BY WorkloadAssumption DEF Init, BudgetTypes
<1>6. LockInv /\ UnmadeInv /\ RetryInv /\ AcceptInv
  BY Pairs DEF Init, LockInv, UnmadeInv, RetryInv, AcceptInv, Open
<1>7. OffInv /\ CallInv /\ AnnouncedOrError
  BY DEF Init, OffInv, CallInv, AnnouncedOrError
<1> QED BY <1>1, <1>2, <1>3, <1>4, <1>5, <1>6, <1>7, TypeParts DEF Inv

--------------------------------------------------------------------------------
(* Types.                                                                  *)

\* Every step keeps the types of endpoints and edits.
LEMMA OwnerTypesStep == ASSUME Inv, [Next]_vars PROVE OwnerTypes'
<1>0. OwnerTypes
  BY TypeParts DEF Inv
<1>1. CASE UNCHANGED ownerVars
  BY <1>0, <1>1 DEF OwnerTypes, ownerVars
<1>2. ASSUME NEW e \in Endpoint, CreateByUser(e) PROVE OwnerTypes'
  BY <1>0, <1>2 DEF CreateByUser, OwnerTypes
<1>3. ASSUME NEW d \in Editor, NEW e \in Endpoint, ReadEndpoint(d, e) PROVE OwnerTypes'
  BY <1>0, <1>3, EditTypes DEF ReadEndpoint, OwnerTypes
<1>4. ASSUME NEW d \in Editor, UpdateByUser(d) PROVE OwnerTypes'
  <2>1. editing[d] \in Endpoint
    BY <1>0, <1>4 DEF UpdateByUser, OwnerTypes
  <2>2. status' \in [Endpoint -> {"none", "active", "inactive", "deleted"}]
    BY <1>0, <1>4 DEF UpdateByUser, WriteEndpoint, OwnerTypes
  <2>3. hears' \subseteq Endpoint /\ off' \subseteq Endpoint /\ late' \subseteq Editor
    BY <1>0, <1>4, <2>1 DEF UpdateByUser, WriteEndpoint, KeepHistory, OwnerTypes
  <2>4. /\ editing' \in [Editor -> Endpoint \union {None}] /\ edit' \in [Editor -> Edit]
        /\ load' = load
    BY <1>0, <1>4, EditTypes DEF UpdateByUser, WriteEndpoint, OwnerTypes
  <2> QED BY <1>0, <2>2, <2>3, <2>4 DEF OwnerTypes
<1>5. ASSUME NEW e \in Endpoint, Cascade(e) PROVE OwnerTypes'
  BY <1>0, <1>5 DEF Cascade, OwnerTypes
<1>6. CASE \/ UNCHANGED vars \/ Crash \/ Shutdown
           \/ \E e \in Endpoint : DeleteByUser(e) \/ DeleteAborts(e)
           \/ \E c \in Notice : NotifyWebhookFailure(c)
           \/ \E c \in Test : TestDies(c) \/ \E e \in Endpoint : SendTestByUser(c, e)
           \/ \E c \in Call, e \in Endpoint : CreateAlertDelivery(c, e) \/ CreateFails(c, e)
  BY <1>1, <1>6 DEF vars, Crash, Shutdown, StopWorker, DeleteByUser, DeleteAborts,
        NotifyWebhookFailure, SendTestByUser, Begin, TestDies, CreateAlertDelivery, CreateFails
<1>7. CASE \E a \in Alert : \/ EnqueueAlert(a) \/ EnqueueFails(a) \/ Dequeue(a) \/ RecoverLease(a)
                            \/ Handler(a) \/ CommitAnswerLost(a) \/ TransactionFails(a)
  BY <1>1, <1>7 DEF EnqueueAlert, EnqueueFails, Dequeue, RecoverLease, Handler, LockAlert, AlertGone,
        AlreadySettled, LockEndpoint, Post, Record, Return, HandlerAborts, CommitAnswerLost,
        TransactionFails, WriteAttempt, Rollback
<1> QED BY <1>2, <1>3, <1>4, <1>5, <1>6, <1>7 DEF Next

\* What becomes of the row of an alert.
LEMMA RowTypesStep == ASSUME Inv, [Next]_vars PROVE RowTypes'
<1>0. RowTypes /\ LockInv /\ CallTypes
  BY TypeParts DEF Inv
<1>1. CASE UNCHANGED rowVars
  BY <1>0, <1>1 DEF RowTypes, rowVars
<1>2. ASSUME NEW e \in Endpoint, Cascade(e) PROVE RowTypes'
  BY <1>0, <1>2, RowTypesOf DEF Cascade, RowTypes
<1>3. ASSUME NEW c \in Call, NEW e \in Endpoint, CreateAlertDelivery(c, e) PROVE RowTypes'
  BY <1>0, <1>3, RowTypesOf, Pairs DEF CreateAlertDelivery, RowTypes
<1>4. ASSUME NEW a \in Alert, Post(a) PROVE RowTypes'
  BY <1>0, <1>4 DEF Post, RowTypes
<1>5. ASSUME NEW a \in Alert, pc[a] = "record", WriteAttempt(a) PROVE RowTypes'
  <2>1. /\ alert[a].count \in 0..MaxAttempts /\ alert[a].count < MaxAttempts
        /\ NextStatus(a) \in {"success", "failed", "retrying"}
    BY <1>0, <1>5, RowTypesOf DEF LockInv, RowTypes, NextStatus
  <2>2. [status |-> NextStatus(a), count |-> alert[a].count + 1] \in Row
    BY <2>1, AttemptAssumption DEF Row
  <2> QED BY <1>0, <1>5, <2>2 DEF WriteAttempt, RowTypes
<1>6. ASSUME NEW a \in Alert, Rollback(a) PROVE RowTypes'
  BY <1>0, <1>6 DEF Rollback, RowTypes
<1>7. CASE StopWorker
  BY <1>0, <1>7 DEF StopWorker, RowTypes
<1>8. CASE \/ UNCHANGED vars
           \/ \E e \in Endpoint : CreateByUser(e) \/ DeleteByUser(e) \/ DeleteAborts(e)
           \/ \E d \in Editor : UpdateByUser(d) \/ \E e \in Endpoint : ReadEndpoint(d, e)
           \/ \E c \in Notice : NotifyWebhookFailure(c)
           \/ \E c \in Test : TestDies(c) \/ \E e \in Endpoint : SendTestByUser(c, e)
           \/ \E c \in Call, e \in Endpoint : CreateFails(c, e)
  BY <1>1, <1>8 DEF vars, CreateByUser, DeleteByUser, DeleteAborts, UpdateByUser, WriteEndpoint,
        ReadEndpoint, NotifyWebhookFailure, SendTestByUser, Begin, TestDies, CreateFails
<1>9. CASE \E a \in Alert : \/ EnqueueAlert(a) \/ EnqueueFails(a) \/ Dequeue(a) \/ RecoverLease(a)
                            \/ LockAlert(a) \/ AlertGone(a) \/ AlreadySettled(a)
                            \/ LockEndpoint(a) \/ Return(a)
  BY <1>1, <1>9 DEF EnqueueAlert, EnqueueFails, Dequeue, RecoverLease, LockAlert, AlertGone,
        AlreadySettled, LockEndpoint, Return
<1> QED
  BY <1>2, <1>3, <1>4, <1>5, <1>6, <1>7, <1>8, <1>9 DEF Next, Handler, Record, CommitAnswerLost,
     TransactionFails, HandlerAborts, Crash, Shutdown

\* Every step keeps the types of calls.
LEMMA CallTypesStep == ASSUME Inv, [Next]_vars PROVE CallTypes'
<1>0. CallTypes
  BY TypeParts DEF Inv
<1>1. CASE UNCHANGED callVars
  BY <1>0, <1>1 DEF CallTypes, callVars
<1>2. ASSUME NEW c \in Call, NEW E \in SUBSET Endpoint, Begin(c, E) PROVE CallTypes'
  BY <1>0, <1>2 DEF Begin, CallTypes
<1>3. ASSUME NEW c \in Call, NEW e \in Endpoint, CreateAlertDelivery(c, e) \/ CreateFails(c, e)
      PROVE  CallTypes'
  BY <1>0, <1>3 DEF CreateAlertDelivery, CreateFails, Done, CallTypes
<1>4. ASSUME NEW a \in Alert, EnqueueFails(a) PROVE CallTypes'
  BY <1>0, <1>4 DEF EnqueueFails, CallTypes
<1>5. ASSUME NEW C, Drop(C) PROVE CallTypes'
  BY <1>0, <1>5 DEF Drop, CallTypes
<1>6. CASE \/ UNCHANGED vars
           \/ \E e \in Endpoint : \/ CreateByUser(e) \/ DeleteByUser(e) \/ Cascade(e)
                                  \/ DeleteAborts(e)
           \/ \E d \in Editor : UpdateByUser(d) \/ \E e \in Endpoint : ReadEndpoint(d, e)
  BY <1>1, <1>6 DEF vars, CreateByUser, DeleteByUser, Cascade, DeleteAborts, UpdateByUser,
        WriteEndpoint, ReadEndpoint
<1>7. CASE \E a \in Alert : \/ EnqueueAlert(a) \/ Dequeue(a) \/ RecoverLease(a)
                            \/ Handler(a) \/ CommitAnswerLost(a) \/ TransactionFails(a)
  BY <1>1, <1>7 DEF EnqueueAlert, Dequeue, RecoverLease, Handler, LockAlert, AlertGone,
        AlreadySettled, LockEndpoint, Post, Record, Return, HandlerAborts, CommitAnswerLost,
        TransactionFails, WriteAttempt, Rollback
<1>8. CASE \/ \E c \in Notice : NotifyWebhookFailure(c)
           \/ \E c \in Test, e \in Endpoint : SendTestByUser(c, e)
  <2>1. {e \in Endpoint : status[e] = "active" /\ e \in hears} \in SUBSET Endpoint
    OBVIOUS
  <2>2. \A e \in Endpoint : {e} \in SUBSET Endpoint
    OBVIOUS
  <2> QED BY <1>2, <1>8, <2>1, <2>2, Pairs DEF NotifyWebhookFailure, SendTestByUser
<1> QED
  BY <1>3, <1>4, <1>5, <1>6, <1>7, <1>8 DEF Next, TestDies, Crash, Shutdown, StopWorker

\* Types after asynq has retried or archived a task.
LEMMA RetryTypes ==
  ASSUME Inv, NEW a \in Alert, RetryOrArchive(a)
  PROVE  QueueTypes'
<1>1. QueueTypes
  BY TypeParts DEF Inv
<1>2. CASE retried[a] < MaxAttempts - 1 /\ retried' = [retried EXCEPT ![a] = @ + 1]
  <2>1. retried[a] + 1 \in 0..MaxAttempts - 1
    BY <1>1, <1>2, AttemptAssumption DEF QueueTypes
  <2> QED BY <1>1, <1>2, <2>1 DEF RetryOrArchive, QueueTypes
<1>3. CASE UNCHANGED retried
  BY <1>1, <1>3 DEF RetryOrArchive, QueueTypes
<1> QED BY <1>2, <1>3 DEF RetryOrArchive

\* Every step keeps the types of tasks.
LEMMA QueueTypesStep == ASSUME Inv, [Next]_vars PROVE QueueTypes'
<1>0. QueueTypes
  BY TypeParts DEF Inv
<1>1. CASE UNCHANGED queueVars
  BY <1>0, <1>1 DEF QueueTypes, queueVars
<1>2. ASSUME NEW c \in Call, NEW e \in Endpoint, CreateAlertDelivery(c, e) PROVE QueueTypes'
  BY <1>0, <1>2 DEF CreateAlertDelivery, QueueTypes
<1>3. ASSUME NEW a \in Alert, EnqueueAlert(a) \/ EnqueueFails(a) \/ Dequeue(a) PROVE QueueTypes'
  BY <1>0, <1>3 DEF EnqueueAlert, EnqueueFails, Dequeue, QueueTypes
<1>4. ASSUME NEW a \in Alert, RecoverLease(a) PROVE QueueTypes'
  BY <1>4, RetryTypes DEF RecoverLease
<1>5. ASSUME NEW a \in Alert, Return(a) PROVE QueueTypes'
  <2>1. CASE RetryOrArchive(a)
    BY <2>1, RetryTypes
  <2>2. CASE \E s \in {"done", "archived"} : task' = [task EXCEPT ![a] = s] /\ UNCHANGED retried
    BY <1>0, <2>2 DEF QueueTypes
  <2> QED BY <1>5, <2>1, <2>2 DEF Return
<1>6. CASE (\E c \in Test : TestDies(c)) \/ Crash \/ Shutdown
  BY <1>0, <1>6 DEF TestDies, Crash, Shutdown, StopWorker, Undone, QueueTypes
<1>7. CASE \/ UNCHANGED vars
           \/ \E e \in Endpoint : \/ CreateByUser(e) \/ DeleteByUser(e) \/ Cascade(e)
                                  \/ DeleteAborts(e)
           \/ \E d \in Editor : UpdateByUser(d) \/ \E e \in Endpoint : ReadEndpoint(d, e)
           \/ \E c \in Notice : NotifyWebhookFailure(c)
           \/ \E c \in Test, e \in Endpoint : SendTestByUser(c, e)
           \/ \E c \in Call, e \in Endpoint : CreateFails(c, e)
  BY <1>1, <1>7 DEF vars, CreateByUser, DeleteByUser, Cascade, DeleteAborts, UpdateByUser,
        WriteEndpoint, ReadEndpoint, NotifyWebhookFailure, SendTestByUser, Begin, CreateFails
<1>8. CASE \E a \in Alert : \/ LockAlert(a) \/ AlertGone(a) \/ AlreadySettled(a) \/ LockEndpoint(a)
                            \/ Post(a) \/ Record(a) \/ HandlerAborts(a) \/ CommitAnswerLost(a)
                            \/ TransactionFails(a)
  BY <1>1, <1>8 DEF LockAlert, AlertGone, AlreadySettled, LockEndpoint, Post, Record,
        HandlerAborts, CommitAnswerLost, TransactionFails, WriteAttempt, Rollback
<1> QED BY <1>2, <1>3, <1>4, <1>5, <1>6, <1>7, <1>8 DEF Next, Handler

\* Every step keeps the types of handlers and locks.
LEMMA HandlerTypesStep == ASSUME Inv, [Next]_vars PROVE HandlerTypes'
<1>0. HandlerTypes
  BY TypeParts DEF Inv
<1>1. CASE UNCHANGED handlerVars /\ UNCHANGED lock
  BY <1>0, <1>1 DEF HandlerTypes, handlerVars
<1>2. CASE \E e \in Endpoint : DeleteByUser(e) \/ Cascade(e) \/ DeleteAborts(e)
  BY <1>0, <1>2 DEF DeleteByUser, Cascade, DeleteAborts, HandlerTypes, handlerVars
<1>3. ASSUME NEW a \in Alert, Dequeue(a) \/ Return(a) \/ LockAlert(a) \/ AlertGone(a) \/ AlreadySettled(a)
      PROVE  HandlerTypes'
  BY <1>0, <1>3 DEF Dequeue, Return, LockAlert, AlertGone, AlreadySettled, GoTo, HandlerTypes
<1>4. ASSUME NEW a \in Alert, LockEndpoint(a) \/ Post(a) PROVE HandlerTypes'
  BY <1>0, <1>4 DEF LockEndpoint, Post, GoTo, HandlerTypes
<1>5. ASSUME NEW a \in Alert, Record(a) \/ CommitAnswerLost(a) PROVE HandlerTypes'
  BY <1>0, <1>5 DEF Record, CommitAnswerLost, WriteAttempt, GoTo, HandlerTypes
<1>6. ASSUME NEW a \in Alert, Rollback(a) PROVE HandlerTypes'
  BY <1>0, <1>6 DEF Rollback, GoTo, HandlerTypes
<1>7. CASE StopWorker
  BY <1>0, <1>7 DEF StopWorker, HandlerTypes
<1>8. CASE \/ UNCHANGED vars \/ \E e \in Endpoint : CreateByUser(e)
           \/ \E d \in Editor : UpdateByUser(d) \/ \E e \in Endpoint : ReadEndpoint(d, e)
           \/ \E c \in Notice : NotifyWebhookFailure(c)
           \/ \E c \in Test : TestDies(c) \/ \E e \in Endpoint : SendTestByUser(c, e)
           \/ \E c \in Call, e \in Endpoint : CreateAlertDelivery(c, e) \/ CreateFails(c, e)
           \/ \E a \in Alert : EnqueueAlert(a) \/ EnqueueFails(a) \/ RecoverLease(a)
  BY <1>1, <1>8 DEF vars, CreateByUser, UpdateByUser, WriteEndpoint, ReadEndpoint, TestDies,
        NotifyWebhookFailure, SendTestByUser, Begin, CreateAlertDelivery, CreateFails,
        EnqueueAlert, EnqueueFails, RecoverLease
<1> QED
  BY <1>2, <1>3, <1>4, <1>5, <1>6, <1>7, <1>8 DEF Next, Handler, TransactionFails, HandlerAborts,
     Crash, Shutdown

\* Every step keeps the types of the bounds.
LEMMA BudgetTypesStep == ASSUME Inv, [Next]_vars PROVE BudgetTypes'
<1>0. BudgetTypes /\ load.changes \in Nat /\ load.incidents \in Nat
  BY TypeParts, WorkloadAssumption DEF Inv, OwnerTypes
<1>1. load' = load
  <2>1. CASE \E d \in Editor : UpdateByUser(d) \/ \E e \in Endpoint : ReadEndpoint(d, e)
    BY <2>1 DEF UpdateByUser, WriteEndpoint, ReadEndpoint
  <2>2. CASE \E e \in Endpoint : \/ CreateByUser(e) \/ DeleteByUser(e) \/ Cascade(e)
                                 \/ DeleteAborts(e)
    BY <2>2 DEF CreateByUser, DeleteByUser, Cascade, DeleteAborts, ownerVars
  <2>4. CASE \/ UNCHANGED vars \/ Crash \/ Shutdown
             \/ \E c \in Notice : NotifyWebhookFailure(c)
             \/ \E c \in Test : TestDies(c) \/ \E e \in Endpoint : SendTestByUser(c, e)
             \/ \E c \in Call, e \in Endpoint : CreateAlertDelivery(c, e) \/ CreateFails(c, e)
    BY <2>4 DEF vars, ownerVars, Crash, Shutdown, StopWorker, NotifyWebhookFailure, SendTestByUser,
          Begin, TestDies, CreateAlertDelivery, CreateFails
  <2>5. CASE \E a \in Alert : \/ EnqueueAlert(a) \/ EnqueueFails(a) \/ Dequeue(a)
                              \/ RecoverLease(a) \/ Handler(a) \/ CommitAnswerLost(a)
                              \/ TransactionFails(a)
    BY <2>5 DEF ownerVars, EnqueueAlert, EnqueueFails, Dequeue, RecoverLease, Handler, LockAlert,
          AlertGone, AlreadySettled, LockEndpoint, Post, Record, Return, HandlerAborts,
          CommitAnswerLost, TransactionFails, WriteAttempt, Rollback
  <2> QED BY <2>1, <2>2, <2>4, <2>5 DEF Next
<1>2. CASE UNCHANGED <<changes, incidents>>
  BY <1>0, <1>1, <1>2 DEF BudgetTypes
<1>3. CASE Change /\ UNCHANGED incidents
  BY <1>0, <1>1, <1>3 DEF Change, BudgetTypes
<1>4. CASE Incident /\ UNCHANGED changes
  BY <1>0, <1>1, <1>4 DEF Incident, BudgetTypes
<1>5. CASE \/ UNCHANGED vars \/ Crash \/ Shutdown
           \/ \E e \in Endpoint : \/ CreateByUser(e) \/ DeleteByUser(e) \/ Cascade(e)
                                  \/ DeleteAborts(e)
           \/ \E d \in Editor : UpdateByUser(d) \/ \E e \in Endpoint : ReadEndpoint(d, e)
           \/ \E c \in Notice : NotifyWebhookFailure(c)
           \/ \E c \in Test : TestDies(c) \/ \E e \in Endpoint : SendTestByUser(c, e)
           \/ \E c \in Call, e \in Endpoint : CreateAlertDelivery(c, e) \/ CreateFails(c, e)
  BY <1>2, <1>3, <1>4, <1>5 DEF vars, Crash, Shutdown, StopWorker, CreateByUser, DeleteByUser,
        Cascade, DeleteAborts, UpdateByUser, WriteEndpoint, ReadEndpoint, NotifyWebhookFailure,
        SendTestByUser, Begin, TestDies, CreateAlertDelivery, CreateFails
<1>6. CASE \E a \in Alert : \/ EnqueueAlert(a) \/ EnqueueFails(a) \/ Dequeue(a) \/ RecoverLease(a)
                            \/ Handler(a) \/ CommitAnswerLost(a) \/ TransactionFails(a)
  BY <1>2, <1>4, <1>6 DEF EnqueueAlert, EnqueueFails, Dequeue, RecoverLease, Handler, LockAlert,
        AlertGone, AlreadySettled, LockEndpoint, Post, Record, Return, HandlerAborts,
        CommitAnswerLost, TransactionFails, WriteAttempt, Rollback
<1> QED BY <1>5, <1>6 DEF Next

\* Every step keeps the types.
LEMMA TypeStep == ASSUME Inv, [Next]_vars PROVE TypeOK'
  BY OwnerTypesStep, RowTypesStep, CallTypesStep, QueueTypesStep, HandlerTypesStep,
     BudgetTypesStep, TypePartsNext

--------------------------------------------------------------------------------
(* The invariants of rows, locks and tasks.                                *)

\* An endpoint that is switched off stays inactive, but for edits that ask or are late.
LEMMA OffStep == ASSUME Inv, [Next]_vars PROVE OffInv'
<1>0. OffInv /\ OwnerTypes
  BY TypeParts DEF Inv
<1>t. \A d \in Editor : edit[d].asked \in BOOLEAN /\ edit[d].active \in BOOLEAN
  BY <1>0, EditTypes DEF OwnerTypes
<1>n. None \notin Endpoint
  BY HolderAssumption
<1>1. CASE UNCHANGED ownerVars
  BY <1>0, <1>1 DEF OffInv, ownerVars
<1>2. ASSUME NEW e \in Endpoint, CreateByUser(e) \/ Cascade(e) PROVE OffInv'
  BY <1>0, <1>2 DEF CreateByUser, Cascade, OffInv, OwnerTypes
<1>3. ASSUME NEW d \in Editor, NEW e \in Endpoint, ReadEndpoint(d, e) PROVE OffInv'
  BY <1>0, <1>t, <1>3 DEF ReadEndpoint, OffInv, OwnerTypes
<1>4. ASSUME NEW d \in Editor, UpdateByUser(d) PROVE OffInv'
  <2>1. /\ editing[d] \in Endpoint /\ editing' = [editing EXCEPT ![d] = None]
        /\ edit' = [edit EXCEPT ![d] = NoEdit]
    BY <1>0, <1>4 DEF UpdateByUser, WriteEndpoint, OwnerTypes
  <2>2. CASE ~Exists(editing[d])
    BY <1>0, <1>n, <1>4, <2>1, <2>2 DEF UpdateByUser, WriteEndpoint, OffInv, OwnerTypes
  <2>3. CASE Exists(editing[d]) /\ edit[d].asked /\ ~edit[d].active
    <3>1. /\ status' = [status EXCEPT ![editing[d]] = "inactive"]
          /\ off' = off \union {editing[d]}
          /\ late' = (late \ {d}) \union {x \in Editor \ {d} : editing[x] = editing[d]}
      BY <1>4, <2>3 DEF UpdateByUser, WriteEndpoint, KeepHistory
    <3>2. \A e \in off' : status'[e] = "inactive"
      BY <1>0, <2>1, <3>1 DEF OffInv, OwnerTypes
    <3>3. \A x \in Editor : editing'[x] \in off' /\ ~edit'[x].asked /\ edit'[x].active => x \in late'
      BY <1>0, <1>n, <2>1, <3>1 DEF OffInv, OwnerTypes
    <3> QED BY <3>2, <3>3 DEF OffInv
  <2>4. CASE Exists(editing[d]) /\ ~(edit[d].asked /\ ~edit[d].active)
    <3>1. /\ status' = [status EXCEPT ![editing[d]] =
                           IF edit[d].active THEN "active" ELSE "inactive"]
          /\ off' = IF edit[d].active /\ (edit[d].asked \/ d \in late)
                    THEN off \ {editing[d]} ELSE off
          /\ late' = late \ {d}
      BY <1>4, <2>4 DEF UpdateByUser, WriteEndpoint, KeepHistory
    <3>2. \A e \in off' : status'[e] = "inactive"
      BY <1>0, <1>t, <2>1, <2>4, <3>1 DEF OffInv, OwnerTypes
    <3>3. \A x \in Editor : editing'[x] \in off' /\ ~edit'[x].asked /\ edit'[x].active => x \in late'
      BY <1>0, <1>n, <2>1, <3>1 DEF OffInv, OwnerTypes
    <3> QED BY <3>2, <3>3 DEF OffInv
  <2> QED BY <2>2, <2>3, <2>4
<1>5. CASE \/ UNCHANGED vars \/ Crash \/ Shutdown
           \/ \E e \in Endpoint : DeleteByUser(e) \/ DeleteAborts(e)
           \/ \E c \in Notice : NotifyWebhookFailure(c)
           \/ \E c \in Test : TestDies(c) \/ \E e \in Endpoint : SendTestByUser(c, e)
           \/ \E c \in Call, e \in Endpoint : CreateAlertDelivery(c, e) \/ CreateFails(c, e)
  BY <1>1, <1>5 DEF vars, Crash, Shutdown, StopWorker, DeleteByUser, DeleteAborts,
        NotifyWebhookFailure, SendTestByUser, Begin, TestDies, CreateAlertDelivery, CreateFails
<1>6. CASE \E a \in Alert : \/ EnqueueAlert(a) \/ EnqueueFails(a) \/ Dequeue(a) \/ RecoverLease(a)
                            \/ Handler(a) \/ CommitAnswerLost(a) \/ TransactionFails(a)
  BY <1>1, <1>6 DEF EnqueueAlert, EnqueueFails, Dequeue, RecoverLease, Handler, LockAlert, AlertGone,
        AlreadySettled, LockEndpoint, Post, Record, Return, HandlerAborts, CommitAnswerLost,
        TransactionFails, WriteAttempt, Rollback
<1> QED BY <1>2, <1>3, <1>4, <1>5, <1>6 DEF Next

\* A handler keeps its two rows as it found them until its transaction ends.
LEMMA LockStep == ASSUME Inv, [Next]_vars PROVE LockInv'
<1> USE Pairs, HolderAssumption DEF LockInv, Open
<1>0. LockInv /\ UnmadeInv /\ OwnerTypes /\ RowTypes /\ QueueTypes /\ HandlerTypes /\ CallTypes
  BY TypeParts DEF Inv
<1>1. CASE UNCHANGED <<ownerVars, rowVars, queueVars, handlerVars, lock>>
  BY <1>0, <1>1 DEF ownerVars, rowVars, queueVars, handlerVars
<1>2. ASSUME NEW e \in Endpoint,
             CreateByUser(e) \/ DeleteByUser(e) \/ Cascade(e) \/ DeleteAborts(e)
      PROVE  LockInv'
  <2>1. CASE CreateByUser(e)
    BY <1>0, <2>1 DEF CreateByUser, OwnerTypes, rowVars, queueVars, handlerVars
  <2>2. CASE DeleteByUser(e)
    BY <1>0, <2>2 DEF DeleteByUser, HandlerTypes, ownerVars, rowVars, queueVars, handlerVars
  <2>3. CASE Cascade(e)
    <3>1. \A a \in Alert : a[2] = e => pc[a] \notin {"post", "record"}
      BY <1>0, <2>3 DEF Cascade, HandlerTypes
    <3> QED BY <1>0, <2>3, <3>1 DEF Cascade, HandlerTypes, OwnerTypes, queueVars, handlerVars
  <2>4. CASE DeleteAborts(e)
    BY <1>0, <2>4 DEF DeleteAborts, HandlerTypes, ownerVars, rowVars, queueVars, handlerVars
  <2> QED BY <1>2, <2>1, <2>2, <2>3, <2>4
<1>3. ASSUME NEW d \in Editor, UpdateByUser(d) PROVE LockInv'
  <2>1. CASE UNCHANGED status
    BY <1>0, <1>3, <2>1 DEF UpdateByUser, WriteEndpoint, rowVars, queueVars, handlerVars
  <2>2. CASE status' = [status EXCEPT ![editing[d]] = IF edit[d].active THEN "active" ELSE "inactive"]
    <3>1. \A a \in Alert : pc[a] = "post" => a[2] # editing[d]
      BY <1>0, <1>3 DEF UpdateByUser
    <3> QED
      BY <1>0, <1>3, <2>2, <3>1 DEF UpdateByUser, WriteEndpoint, OwnerTypes, rowVars, queueVars,
            handlerVars
  <2> QED BY <1>3, <2>1, <2>2 DEF UpdateByUser, WriteEndpoint
<1>4. ASSUME NEW c \in Call, NEW e \in Endpoint, CreateAlertDelivery(c, e) PROVE LockInv'
  <2>1. task[<<c, e>>] = "none" /\ alert[<<c, e>>].count = 0 /\ pc[<<c, e>>] = "idle"
    BY <1>0, <1>4 DEF CreateAlertDelivery, Turn, UnmadeInv, HandlerTypes
  <2>2. /\ alert'[<<c, e>>].count = 0 /\ UNCHANGED <<pc, lock, status>>
        /\ \A b \in Alert \ {<<c, e>>} : alert'[b] = alert[b] /\ task'[b] = task[b]
    BY <1>0, <1>4, <2>1 DEF CreateAlertDelivery, RowTypes, QueueTypes, ownerVars, handlerVars
  <2>3. 0 < MaxAttempts
    BY AttemptAssumption
  <2> QED BY <1>0, <2>1, <2>2, <2>3
<1>5. ASSUME NEW a \in Alert, EnqueueAlert(a) \/ EnqueueFails(a) \/ Dequeue(a) \/ RecoverLease(a)
      PROVE  LockInv'
  BY <1>0, <1>5 DEF EnqueueAlert, EnqueueFails, Dequeue, RecoverLease, RetryOrArchive, GoTo,
        QueueTypes, HandlerTypes, ownerVars, rowVars, handlerVars
<1>6. ASSUME NEW a \in Alert, LockAlert(a) \/ AlertGone(a) \/ AlreadySettled(a) \/ Post(a)
      PROVE  LockInv'
  BY <1>0, <1>6 DEF LockAlert, AlertGone, AlreadySettled, Post, GoTo, HandlerTypes, ownerVars,
        rowVars, queueVars
<1>7. ASSUME NEW a \in Alert, LockEndpoint(a) PROVE LockInv'
  BY <1>0, <1>7 DEF LockEndpoint, GoTo, HandlerTypes, ownerVars, rowVars, queueVars
<1>8. ASSUME NEW a \in Alert, Return(a) PROVE LockInv'
  BY <1>0, <1>8 DEF Return, RetryOrArchive, GoTo, QueueTypes, HandlerTypes, ownerVars, rowVars
<1>9. ASSUME NEW a \in Alert, pc[a] = "record", WriteAttempt(a), NEW s \in {"nil", "error"}, GoTo(a, s)
      PROVE  LockInv'
  <2>1. alert[a].count \in Nat /\ MaxAttempts \in Nat
    BY <1>0, RowTypesOf, AttemptAssumption DEF RowTypes
  <2>2. /\ alert'[a].status = NextStatus(a) /\ alert'[a].count = alert[a].count + 1
        /\ pc'[a] = s /\ task'[a] = "active"
        /\ \A b \in Alert \ {a} : alert'[b] = alert[b] /\ pc'[b] = pc[b]
    BY <1>0, <1>9 DEF WriteAttempt, GoTo, RowTypes, HandlerTypes, queueVars
  <2>3. NextStatus(a) = "retrying" => alert[a].count + 1 < MaxAttempts
    BY <2>1 DEF NextStatus, FinalFailure
  <2>4. \A b \in Alert \ {a} : pc[b] \in {"post", "record"} => lock'[b[2]] = b
    BY <1>0, <1>9 DEF WriteAttempt, HandlerTypes
  <2>5. UNCHANGED <<status, task>>
    BY <1>9 DEF WriteAttempt, ownerVars, queueVars
  <2>6. NextStatus(a) \in {"success", "failed", "retrying"}
    BY DEF NextStatus
  <2> QED BY <1>0, <2>2, <2>3, <2>4, <2>5, <2>6
<1>10. ASSUME NEW a \in Alert, Rollback(a), pc[a] # "idle" PROVE LockInv'
  BY <1>0, <1>10 DEF Rollback, GoTo, HandlerTypes, ownerVars, queueVars
<1>11. CASE StopWorker
  BY <1>0, <1>11 DEF StopWorker, HandlerTypes, ownerVars
<1>12. ASSUME NEW c \in Test, TestDies(c) PROVE LockInv'
  BY <1>0, <1>12 DEF TestDies, QueueTypes, ownerVars, rowVars, handlerVars
<1>13. CASE \/ UNCHANGED vars
            \/ \E d \in Editor, e \in Endpoint : ReadEndpoint(d, e)
            \/ \E c \in Notice : NotifyWebhookFailure(c)
            \/ \E c \in Test, e \in Endpoint : SendTestByUser(c, e)
            \/ \E c \in Call, e \in Endpoint : CreateFails(c, e)
  <2>1. UNCHANGED <<status, rowVars, queueVars, handlerVars, lock>>
    BY <1>13 DEF vars, ReadEndpoint, NotifyWebhookFailure, SendTestByUser, Begin, CreateFails,
          ownerVars
  <2> QED BY <1>0, <2>1 DEF rowVars, queueVars, handlerVars
<1> QED
  BY <1>2, <1>3, <1>4, <1>5, <1>6, <1>7, <1>8, <1>9, <1>10, <1>11, <1>12, <1>13
     DEF Next, Handler, Record, CommitAnswerLost, TransactionFails, HandlerAborts, Deadlocked, Crash,
         Shutdown

\* An alert that a call has still to make is not there yet.
LEMMA UnmadeStep == ASSUME Inv, [Next]_vars PROVE UnmadeInv'
<1> USE Pairs DEF UnmadeInv
<1>0. UnmadeInv /\ CallInv /\ LockInv /\ RowTypes /\ QueueTypes /\ HandlerTypes /\ CallTypes
  BY TypeParts DEF Inv
<1>1. CASE UNCHANGED <<alert, task, retried, todo, result>>
  BY <1>0, <1>1
<1>2. ASSUME NEW e \in Endpoint, Cascade(e) PROVE UnmadeInv'
  BY <1>0, <1>2 DEF Cascade, RowTypes, callVars, queueVars
<1>3. ASSUME NEW c \in Call, NEW E \in SUBSET Endpoint, Begin(c, E) PROVE UnmadeInv'
  BY <1>0, <1>3 DEF Begin, CallTypes, rowVars, queueVars
<1>4. ASSUME NEW c \in Call, NEW e \in Endpoint, CreateAlertDelivery(c, e) PROVE UnmadeInv'
  <2>1. /\ e \in todo[c] /\ task[<<c, e>>] = "none" /\ retried[<<c, e>>] = 0
    BY <1>0, <1>4 DEF CreateAlertDelivery, Turn
  <2>2. /\ alert'[<<c, e>>].status = "pending" /\ task'[<<c, e>>] = "owed"
        /\ \A b \in Alert \ {<<c, e>>} : alert'[b] = alert[b] /\ task'[b] = task[b]
        /\ UNCHANGED <<retried, result>>
    BY <1>0, <1>4 DEF CreateAlertDelivery, RowTypes, QueueTypes
  <2>3. result[c] # "idle"
    BY <1>0, <1>4, <2>1 DEF CallInv
  <2>4. /\ todo'[c] = todo[c] \ {e} /\ \A x \in Call \ {c} : todo'[x] = todo[x]
    BY <1>0, <1>4 DEF CreateAlertDelivery, Done, CallTypes
  <2>5. \A x \in Call, y \in Endpoint : y \in todo'[x] \/ result'[x] = "idle" => task'[<<x, y>>] = "none"
    <3> SUFFICES ASSUME NEW x \in Call, NEW y \in Endpoint, y \in todo'[x] \/ result'[x] = "idle"
                 PROVE  task'[<<x, y>>] = "none"
      OBVIOUS
    <3>1. <<x, y>> # <<c, e>>
      BY <2>2, <2>3, <2>4
    <3>2. y \in todo[x] \/ result[x] = "idle"
      BY <2>2, <2>4
    <3> QED BY <1>0, <2>2, <3>1, <3>2
  <2>6. \A a \in Alert : /\ task'[a] = "none" <=> alert'[a].status = "none"
                         /\ task'[a] = "none" => alert'[a].count = 0 /\ retried'[a] = 0
                         /\ task'[a] = "owed" => retried'[a] = 0
    BY <1>0, <2>1, <2>2
  <2> QED BY <2>5, <2>6
<1>5. ASSUME NEW c \in Call, NEW e \in Endpoint, CreateFails(c, e) PROVE UnmadeInv'
  BY <1>0, <1>5 DEF CreateFails, Done, CallTypes, rowVars, queueVars
<1>6. ASSUME NEW a \in Alert, EnqueueAlert(a) \/ Dequeue(a) \/ RecoverLease(a) \/ Return(a)
      PROVE  UnmadeInv'
  <2>1. /\ task[a] # "none" /\ task'[a] \notin {"none", "owed"}
        /\ \A b \in Alert \ {a} : task'[b] = task[b] /\ retried'[b] = retried[b]
        /\ UNCHANGED <<alert, todo, result>>
    BY <1>0, <1>6 DEF EnqueueAlert, Dequeue, RecoverLease, Return, RetryOrArchive, QueueTypes,
          LockInv, rowVars, callVars
  <2> QED BY <1>0, <2>1
<1>7. ASSUME NEW a \in Alert, EnqueueFails(a) PROVE UnmadeInv'
  BY <1>0, <1>7 DEF EnqueueFails, QueueTypes, CallTypes, rowVars
<1>8. ASSUME NEW a \in Alert, WriteAttempt(a), pc[a] = "record" PROVE UnmadeInv'
  <2>1. task[a] = "active" /\ NextStatus(a) # "none"
    BY <1>0, <1>8 DEF LockInv, NextStatus
  <2> QED BY <1>0, <1>8, <2>1 DEF WriteAttempt, RowTypes, callVars, queueVars
<1>9. ASSUME NEW C, Drop(C), UNCHANGED <<alert, retried>>,
             \A a \in Alert : \/ task'[a] = task[a]
                              \/ task[a] = "owed" /\ task'[a] = "lost"
                              \/ pc[a] # "idle" /\ task'[a] = "queued"
      PROVE  UnmadeInv'
  <2>1. \A a \in Alert : /\ task'[a] = "none" <=> task[a] = "none"
                         /\ task'[a] = "owed" => task[a] = "owed"
    BY <1>0, <1>9 DEF LockInv
  <2>2. \A c \in Call : todo'[c] \subseteq todo[c] /\ (result'[c] = "idle" => result[c] = "idle")
    BY <1>0, <1>9 DEF Drop, CallTypes
  <2> QED BY <1>0, <1>9, <2>1, <2>2
<1>10. CASE (\E c \in Test : TestDies(c)) \/ Crash \/ Shutdown
  BY <1>9, <1>10 DEF TestDies, Crash, Shutdown, StopWorker, Undone, rowVars
<1>11. CASE \/ UNCHANGED vars
            \/ \E e \in Endpoint : CreateByUser(e) \/ DeleteByUser(e) \/ DeleteAborts(e)
            \/ \E d \in Editor : UpdateByUser(d) \/ \E e \in Endpoint : ReadEndpoint(d, e)
  BY <1>1, <1>11 DEF vars, CreateByUser, DeleteByUser, DeleteAborts, UpdateByUser, WriteEndpoint,
        ReadEndpoint, rowVars, callVars, queueVars
<1>12. CASE \E a \in Alert : \/ LockAlert(a) \/ AlertGone(a) \/ AlreadySettled(a)
                             \/ LockEndpoint(a) \/ Post(a) \/ HandlerAborts(a)
                             \/ TransactionFails(a)
  BY <1>1, <1>12 DEF LockAlert, AlertGone, AlreadySettled, LockEndpoint, Post, HandlerAborts,
        TransactionFails, Rollback, rowVars, callVars, queueVars
<1>13. CASE \/ \E c \in Notice : NotifyWebhookFailure(c)
            \/ \E c \in Test, e \in Endpoint : SendTestByUser(c, e)
  <2>1. /\ {e \in Endpoint : status[e] = "active" /\ e \in hears} \in SUBSET Endpoint
        /\ \A e \in Endpoint : {e} \in SUBSET Endpoint
    OBVIOUS
  <2> QED BY <1>3, <1>13, <2>1 DEF NotifyWebhookFailure, SendTestByUser
<1> QED
  BY <1>2, <1>4, <1>5, <1>6, <1>7, <1>8, <1>10, <1>11, <1>12, <1>13
     DEF Next, Handler, Record, CommitAnswerLost

\* The retries of a task never outnumber the attempts in its row, unless a run left no trace.
LEMMA RetryStep == ASSUME Inv, [Next]_vars PROVE RetryInv'
<1> USE DEF RetryInv, Open
<1>0. RetryInv /\ LockInv /\ UnmadeInv /\ RowTypes /\ QueueTypes /\ HandlerTypes
  BY TypeParts DEF Inv
<1>n. /\ MaxAttempts \in Nat \ {0}
      /\ \A a \in Alert : /\ alert[a].count \in Nat /\ retried[a] \in Nat
                          /\ unrecorded[a] \in Nat
  BY <1>0, RowTypesOf, AttemptAssumption DEF RowTypes, QueueTypes
<1>1. CASE UNCHANGED <<alert, unrecorded, task, retried, pc>>
  BY <1>0, <1>1
<1>2. ASSUME NEW e \in Endpoint, Cascade(e) PROVE RetryInv'
  BY <1>0, <1>2 DEF Cascade, RowTypes, queueVars, handlerVars
<1>3. ASSUME NEW c \in Call, NEW e \in Endpoint, CreateAlertDelivery(c, e) PROVE RetryInv'
  <2>1. /\ task[<<c, e>>] = "none" /\ alert[<<c, e>>].count = 0 /\ retried[<<c, e>>] = 0
        /\ pc[<<c, e>>] = "idle"
    BY <1>0, <1>3, Pairs DEF CreateAlertDelivery, Turn, UnmadeInv, LockInv, HandlerTypes
  <2>2. /\ alert'[<<c, e>>].count = 0 /\ task'[<<c, e>>] = "owed"
        /\ \A b \in Alert \ {<<c, e>>} : alert'[b] = alert[b] /\ task'[b] = task[b]
        /\ UNCHANGED <<retried, pc, unrecorded>>
    BY <1>0, <1>3, <2>1, Pairs DEF CreateAlertDelivery, RowTypes, QueueTypes, handlerVars
  <2> QED BY <1>0, <2>1, <2>2
<1>4. ASSUME NEW a \in Alert, EnqueueAlert(a) \/ EnqueueFails(a) PROVE RetryInv'
  BY <1>0, <1>4 DEF EnqueueAlert, EnqueueFails, QueueTypes, LockInv, rowVars, handlerVars
<1>5. ASSUME NEW a \in Alert, Dequeue(a) PROVE RetryInv'
  BY <1>0, <1>5 DEF Dequeue, GoTo, QueueTypes, HandlerTypes, rowVars
<1>6. ASSUME NEW a \in Alert, task[a] = "active", pc[a] \in {"idle", "error"}, RetryOrArchive(a),
             pc' = [pc EXCEPT ![a] = "idle"], UNCHANGED rowVars
      PROVE  RetryInv'
  <2>1. UNCHANGED <<alert, unrecorded>>
    BY <1>6 DEF rowVars
  <2>2. \A b \in Alert \ {a} : task'[b] = task[b] /\ retried'[b] = retried[b] /\ pc'[b] = pc[b]
    BY <1>0, <1>6 DEF RetryOrArchive, QueueTypes, HandlerTypes
  <2>3. ASSUME Open(a), unrecorded[a] = 0
        PROVE  task'[a] = "retry" /\ pc'[a] = "idle" /\ retried'[a] <= alert[a].count
    <3>1. retried[a] < alert[a].count /\ alert[a].count < MaxAttempts
      BY <1>0, <1>6, <2>3 DEF LockInv
    <3>2. retried[a] < MaxAttempts - 1
      BY <1>n, <3>1
    <3>3. task' = [task EXCEPT ![a] = "retry"] /\ retried' = [retried EXCEPT ![a] = @ + 1]
      BY <1>6, <1>n, <3>2 DEF RetryOrArchive
    <3> QED BY <1>0, <1>6, <1>n, <3>1, <3>3 DEF QueueTypes, HandlerTypes
  <2> QED BY <1>0, <2>1, <2>2, <2>3
<1>7. ASSUME NEW a \in Alert, RecoverLease(a) PROVE RetryInv'
  <2>1. pc' = [pc EXCEPT ![a] = "idle"]
    BY <1>0, <1>7 DEF RecoverLease, HandlerTypes, handlerVars
  <2> QED BY <1>6, <1>7, <2>1 DEF RecoverLease
<1>8. ASSUME NEW a \in Alert, Return(a) PROVE RetryInv'
  <2>1. CASE pc[a] = "error" /\ RetryOrArchive(a)
    BY <1>0, <1>6, <1>8, <2>1 DEF Return, GoTo, LockInv
  <2>2. CASE pc[a] \in {"nil", "skip"}
    <3>1. ~(Open(a) /\ unrecorded[a] = 0)
      BY <1>0, <2>2
    <3>2. \A b \in Alert \ {a} : task'[b] = task[b] /\ retried'[b] = retried[b] /\ pc'[b] = pc[b]
      BY <1>0, <1>8, <2>2 DEF Return, GoTo, RetryOrArchive, QueueTypes, HandlerTypes
    <3> QED BY <1>0, <1>8, <3>1, <3>2 DEF Return, rowVars
  <2> QED BY <1>8, <2>1, <2>2 DEF Return
<1>9. ASSUME NEW a \in Alert,
             LockAlert(a) \/ AlertGone(a) \/ AlreadySettled(a) \/ LockEndpoint(a) \/ Post(a)
      PROVE  RetryInv'
  <2>1. UNCHANGED <<alert, unrecorded, task, retried>>
    BY <1>9 DEF LockAlert, AlertGone, AlreadySettled, LockEndpoint, Post, rowVars, queueVars
  <2>2. /\ \A b \in Alert \ {a} : pc'[b] = pc[b]
        /\ pc[a] \in {"begin", "endpoint", "post"}
        /\ pc'[a] \in {"endpoint", "post", "record"} \/ ~Open(a)
    BY <1>0, <1>9 DEF LockAlert, AlertGone, AlreadySettled, LockEndpoint, Post, GoTo, HandlerTypes
  <2> QED BY <1>0, <2>1, <2>2
<1>10. ASSUME NEW a \in Alert, pc[a] = "record", WriteAttempt(a), NEW s \in {"nil", "error"},
              GoTo(a, s), s = "nil" => NextStatus(a) # "retrying"
       PROVE  RetryInv'
  <2>1. /\ \A b \in Alert \ {a} : alert'[b] = alert[b] /\ pc'[b] = pc[b]
        /\ alert'[a].status = NextStatus(a) /\ alert'[a].count = alert[a].count + 1
        /\ pc'[a] = s
        /\ UNCHANGED <<unrecorded, task, retried>>
    BY <1>0, <1>10 DEF WriteAttempt, GoTo, RowTypes, HandlerTypes, queueVars
  <2>2. NextStatus(a) \in {"success", "failed", "retrying"} /\ Open(a) /\ task[a] = "active"
    BY <1>0, <1>10 DEF NextStatus, LockInv
  <2>3. Open(a)' /\ unrecorded'[a] = 0 => s = "error" /\ retried'[a] < alert'[a].count
    BY <1>0, <1>n, <1>10, <2>1, <2>2
  <2> QED BY <1>0, <1>n, <2>1, <2>2, <2>3
<1>11. ASSUME NEW a \in Alert, Rollback(a) PROVE RetryInv'
  <2>1. /\ \A b \in Alert \ {a} : pc'[b] = pc[b] /\ unrecorded'[b] = unrecorded[b]
        /\ unrecorded'[a] = unrecorded[a] + 1
        /\ UNCHANGED <<alert, task, retried>>
    BY <1>0, <1>11 DEF Rollback, GoTo, HandlerTypes, RowTypes, queueVars
  <2>2. unrecorded'[a] # 0
    BY <1>n, <2>1
  <2> QED BY <1>0, <2>1, <2>2
<1>12. ASSUME NEW c \in Test, TestDies(c) PROVE RetryInv'
  BY <1>0, <1>12 DEF TestDies, LockInv, QueueTypes, rowVars, handlerVars
<1>13. CASE Crash \/ Shutdown
  <2> SUFFICES ASSUME NEW a \in Alert, Open(a)', unrecorded'[a] = 0
               PROVE  /\ task'[a] \notin {"done", "archived"} /\ pc'[a] \notin {"nil", "skip"}
                      /\ IF task'[a] = "active" /\ pc'[a] \in {"idle", "error"}
                         THEN retried'[a] < alert'[a].count ELSE retried'[a] <= alert'[a].count
    OBVIOUS
  <2>1. UNCHANGED <<alert, retried>> /\ pc'[a] = "idle"
    BY <1>13 DEF Crash, Shutdown, StopWorker
  <2>2. unrecorded[a] = 0 /\ ~InTransaction(a)
    BY <1>13, <1>n DEF Crash, Shutdown, StopWorker
  <2>3. Open(a) /\ pc[a] \in {"idle", "error"}
    BY <1>0, <2>1, <2>2 DEF InTransaction, HandlerTypes
  <2>4. CASE Crash
    <3>1. task'[a] = task[a] \/ task'[a] = "lost"
      BY <2>4 DEF Crash, Undone
    <3> QED BY <1>0, <1>n, <2>1, <2>2, <2>3, <3>1
  <2>5. CASE Shutdown
    <3>1. \/ pc[a] = "error" /\ task'[a] = "queued"
          \/ pc[a] = "idle" /\ (task'[a] = task[a] \/ task'[a] = "lost")
      BY <2>3, <2>5 DEF Shutdown, Undone
    <3> QED BY <1>0, <1>n, <2>1, <2>2, <2>3, <3>1
  <2> QED BY <1>13, <2>4, <2>5
<1>14. CASE \/ UNCHANGED vars
            \/ \E e \in Endpoint : CreateByUser(e) \/ DeleteByUser(e) \/ DeleteAborts(e)
            \/ \E d \in Editor : UpdateByUser(d) \/ \E e \in Endpoint : ReadEndpoint(d, e)
            \/ \E c \in Notice : NotifyWebhookFailure(c)
            \/ \E c \in Test, e \in Endpoint : SendTestByUser(c, e)
            \/ \E c \in Call, e \in Endpoint : CreateFails(c, e)
  BY <1>1, <1>14 DEF vars, CreateByUser, DeleteByUser, DeleteAborts, UpdateByUser, WriteEndpoint,
        ReadEndpoint, NotifyWebhookFailure, SendTestByUser, Begin, CreateFails, rowVars, queueVars,
        handlerVars
<1>15. ASSUME NEW a \in Alert, Record(a) \/ CommitAnswerLost(a) PROVE RetryInv'
  <2>1. CASE Record(a)
    BY <1>10, <2>1 DEF Record
  <2>2. CASE CommitAnswerLost(a)
    BY <1>10, <2>2 DEF CommitAnswerLost
  <2> QED BY <1>15, <2>1, <2>2
<1> QED
  BY <1>2, <1>3, <1>4, <1>5, <1>7, <1>8, <1>9, <1>11, <1>12, <1>13, <1>14, <1>15
     DEF Next, Handler, TransactionFails, HandlerAborts

\* A call that has not begun owes nothing.
LEMMA CallStep == ASSUME Inv, [Next]_vars PROVE CallInv'
<1> USE DEF CallInv
<1>0. CallInv /\ CallTypes
  BY TypeParts DEF Inv
<1>1. CASE UNCHANGED callVars
  BY <1>0, <1>1 DEF callVars
<1>2. ASSUME NEW c \in Call, NEW E, Begin(c, E) PROVE CallInv'
  BY <1>0, <1>2 DEF Begin, CallTypes
<1>3. ASSUME NEW c \in Call, NEW e \in Endpoint, CreateAlertDelivery(c, e) \/ CreateFails(c, e)
      PROVE  CallInv'
  BY <1>0, <1>3 DEF CreateAlertDelivery, CreateFails, Turn, Done, CallTypes
<1>4. ASSUME NEW a \in Alert, EnqueueFails(a) PROVE CallInv'
  BY <1>0, <1>4, Pairs DEF EnqueueFails, CallTypes
<1>5. ASSUME NEW C, Drop(C) PROVE CallInv'
  BY <1>0, <1>5 DEF Drop, CallTypes
<1>6. CASE \/ UNCHANGED vars
           \/ \E e \in Endpoint : \/ CreateByUser(e) \/ DeleteByUser(e) \/ Cascade(e)
                                  \/ DeleteAborts(e)
           \/ \E d \in Editor : UpdateByUser(d) \/ \E e \in Endpoint : ReadEndpoint(d, e)
  BY <1>1, <1>6 DEF vars, CreateByUser, DeleteByUser, Cascade, DeleteAborts, UpdateByUser,
        WriteEndpoint, ReadEndpoint
<1>7. CASE \E a \in Alert : \/ EnqueueAlert(a) \/ Dequeue(a) \/ RecoverLease(a)
                            \/ Handler(a) \/ CommitAnswerLost(a) \/ TransactionFails(a)
  BY <1>1, <1>7 DEF EnqueueAlert, Dequeue, RecoverLease, Handler, LockAlert, AlertGone,
        AlreadySettled, LockEndpoint, Post, Record, Return, HandlerAborts, CommitAnswerLost,
        TransactionFails, WriteAttempt, Rollback
<1> QED
  BY <1>2, <1>3, <1>4, <1>5, <1>6, <1>7, Pairs DEF Next, NotifyWebhookFailure, SendTestByUser,
     TestDies, Crash, Shutdown, StopWorker

\* The accepted POSTs of an alert have a row that says so or a run without a trace.
LEMMA AcceptStep == ASSUME Inv, [Next]_vars PROVE AcceptInv'
<1> USE DEF AcceptInv
<1>0. AcceptInv /\ LockInv /\ RowTypes /\ QueueTypes /\ HandlerTypes
  BY TypeParts DEF Inv
<1>n. \A a \in Alert : accepted[a] \in Nat /\ unrecorded[a] \in Nat
  BY <1>0 DEF RowTypes
<1>1. CASE UNCHANGED <<rowVars, handlerVars>>
  BY <1>0, <1>1 DEF rowVars, handlerVars
<1>2. ASSUME NEW e \in Endpoint, Cascade(e) PROVE AcceptInv'
  BY <1>0, <1>n, <1>2 DEF Cascade, RowTypes, handlerVars
<1>3. ASSUME NEW c \in Call, NEW e \in Endpoint, CreateAlertDelivery(c, e) PROVE AcceptInv'
  <2>1. task[<<c, e>>] = "none" /\ alert[<<c, e>>].status = "none"
    BY <1>3, Pairs DEF Inv, UnmadeInv, CreateAlertDelivery, Turn
  <2>2. /\ alert'[<<c, e>>].status = "pending"
        /\ \A b \in Alert \ {<<c, e>>} : alert'[b] = alert[b]
        /\ UNCHANGED <<accepted, unrecorded, pc, outcome>>
    BY <1>0, <1>3, Pairs DEF CreateAlertDelivery, RowTypes, handlerVars
  <2> QED BY <1>0, <2>1, <2>2
<1>4. ASSUME NEW a \in Alert, NEW s \in {"idle", "begin", "endpoint", "post", "nil", "error", "skip"},
             pc[a] # "record" \/ outcome[a] # "ok" \/ alert[a].status \notin {"none", "pending", "retrying"},
             pc' = [pc EXCEPT ![a] = s], \A b \in Alert \ {a} : outcome'[b] = outcome[b],
             UNCHANGED rowVars
      PROVE  AcceptInv'
  BY <1>0, <1>n, <1>4 DEF HandlerTypes, rowVars
<1>5. ASSUME NEW a \in Alert,
             Dequeue(a) \/ LockAlert(a) \/ AlertGone(a) \/ AlreadySettled(a) \/ Return(a)
      PROVE  AcceptInv'
  <2>1. /\ pc[a] # "record" /\ UNCHANGED rowVars
        /\ \A b \in Alert \ {a} : outcome'[b] = outcome[b]
        /\ \E s \in {"idle", "begin", "endpoint", "nil", "skip"} : pc' = [pc EXCEPT ![a] = s]
    BY <1>0, <1>5 DEF Dequeue, LockAlert, AlertGone, AlreadySettled, Return, GoTo, LockInv,
          HandlerTypes
  <2> QED BY <1>4, <2>1
<1>6. ASSUME NEW a \in Alert, LockEndpoint(a) PROVE AcceptInv'
  BY <1>0, <1>n, <1>6 DEF LockEndpoint, GoTo, HandlerTypes, rowVars
<1>7. ASSUME NEW a \in Alert, Post(a) PROVE AcceptInv'
  <2>1. /\ \A b \in Alert \ {a} : pc'[b] = pc[b] /\ outcome'[b] = outcome[b] /\ accepted'[b] = accepted[b]
        /\ pc'[a] = "record" /\ UNCHANGED <<alert, unrecorded>>
        /\ \/ outcome'[a] = "ok" /\ accepted'[a] = accepted[a] + 1
           \/ outcome'[a] # "ok" /\ accepted'[a] = accepted[a]
    BY <1>0, <1>7 DEF Post, GoTo, HandlerTypes, RowTypes
  <2>2. accepted[a] <= unrecorded[a]
    BY <1>0, <1>n, <1>7 DEF Post, LockInv, Open
  <2> QED BY <1>0, <1>n, <2>1, <2>2
<1>8. ASSUME NEW a \in Alert, pc[a] = "record", WriteAttempt(a), NEW s \in {"nil", "error"}, GoTo(a, s)
      PROVE  AcceptInv'
  <2>1. /\ \A b \in Alert \ {a} : alert'[b] = alert[b] /\ pc'[b] = pc[b]
        /\ alert'[a].status = NextStatus(a) /\ pc'[a] = s
        /\ UNCHANGED <<accepted, unrecorded, outcome>>
    BY <1>0, <1>8 DEF WriteAttempt, GoTo, RowTypes, HandlerTypes
  <2>2. alert[a].status \in {"pending", "retrying"}
    BY <1>0, <1>8 DEF LockInv, Open
  <2>3. CASE outcome[a] = "ok"
    <3>1. alert'[a].status = "success"
      BY <2>1, <2>3 DEF NextStatus
    <3> QED BY <1>0, <1>n, <1>8, <2>1, <2>2, <2>3, <3>1
  <2>4. CASE outcome[a] # "ok"
    BY <1>0, <1>n, <1>8, <2>1, <2>2, <2>4
  <2> QED BY <2>3, <2>4
<1>9. ASSUME NEW a \in Alert, Rollback(a) PROVE AcceptInv'
  BY <1>0, <1>n, <1>9 DEF Rollback, GoTo, HandlerTypes, RowTypes
<1>10. CASE StopWorker
  BY <1>0, <1>n, <1>10 DEF StopWorker, InTransaction
<1>11. CASE \/ UNCHANGED vars
            \/ \E e \in Endpoint : CreateByUser(e) \/ DeleteByUser(e) \/ DeleteAborts(e)
            \/ \E d \in Editor : UpdateByUser(d) \/ \E e \in Endpoint : ReadEndpoint(d, e)
            \/ \E c \in Notice : NotifyWebhookFailure(c)
            \/ \E c \in Test : TestDies(c) \/ \E e \in Endpoint : SendTestByUser(c, e)
            \/ \E c \in Call, e \in Endpoint : CreateFails(c, e)
            \/ \E a \in Alert : EnqueueAlert(a) \/ EnqueueFails(a) \/ RecoverLease(a)
  BY <1>1, <1>11 DEF vars, CreateByUser, DeleteByUser, DeleteAborts, UpdateByUser, WriteEndpoint,
        ReadEndpoint, NotifyWebhookFailure, SendTestByUser, Begin, TestDies, CreateFails,
        EnqueueAlert, EnqueueFails, RecoverLease
<1>12. ASSUME NEW a \in Alert, Record(a) \/ CommitAnswerLost(a) PROVE AcceptInv'
  <2>1. CASE Record(a)
    BY <1>8, <2>1 DEF Record
  <2>2. CASE CommitAnswerLost(a)
    BY <1>8, <2>2 DEF CommitAnswerLost
  <2> QED BY <1>12, <2>1, <2>2
<1> QED
  BY <1>2, <1>3, <1>5, <1>6, <1>7, <1>9, <1>10, <1>11, <1>12 DEF Next, Handler, TransactionFails,
     HandlerAborts, Crash, Shutdown

\* What a call has not enqueued is still to do, or makes it return an error.
LEMMA AnnounceStep == ASSUME Inv, [Next]_vars PROVE AnnouncedOrError'
<1> USE Pairs DEF AnnouncedOrError
<1>0. AnnouncedOrError /\ CallTypes /\ QueueTypes /\ LockInv
  BY TypeParts DEF Inv
<1>1. CASE UNCHANGED callVars /\ UNCHANGED task
  BY <1>0, <1>1 DEF callVars
<1>2. ASSUME NEW c \in Call, NEW E, Begin(c, E) PROVE AnnouncedOrError'
  BY <1>0, <1>2 DEF Begin, CallTypes, queueVars
<1>3. ASSUME NEW c \in Call, NEW e \in Endpoint, CreateAlertDelivery(c, e) PROVE AnnouncedOrError'
  <2>1. /\ \A x \in Call, y \in Endpoint :
              <<x, y>> # <<c, e>> => /\ task'[<<x, y>>] = task[<<x, y>>]
                                     /\ y \in todo[x] => y \in todo'[x]
        /\ task'[<<c, e>>] = "owed" /\ UNCHANGED <<result, listed>>
    BY <1>0, <1>3 DEF CreateAlertDelivery, Done, CallTypes, QueueTypes
  <2> QED BY <1>0, <2>1 DEF CallTypes
<1>4. ASSUME NEW c \in Call, NEW e \in Endpoint, CreateFails(c, e) PROVE AnnouncedOrError'
  BY <1>0, <1>4 DEF CreateFails, Done, CallTypes, queueVars
<1>5. ASSUME NEW a \in Alert, EnqueueFails(a) PROVE AnnouncedOrError'
  BY <1>0, <1>5 DEF EnqueueFails, CallTypes, QueueTypes
<1>6. ASSUME NEW a \in Alert, UNCHANGED callVars,
             NEW s \in {"queued", "active", "retry", "done", "archived"}, task' = [task EXCEPT ![a] = s]
      PROVE  AnnouncedOrError'
  <2>1. \A b \in Alert : task'[b] \in {"none", "lost"} => task[b] = task'[b]
    BY <1>0, <1>6 DEF QueueTypes
  <2> QED BY <1>0, <1>6, <2>1 DEF callVars, CallTypes
<1>7. ASSUME NEW a \in Alert, EnqueueAlert(a) \/ Dequeue(a) \/ RecoverLease(a) \/ Return(a)
      PROVE  AnnouncedOrError'
  BY <1>6, <1>7 DEF EnqueueAlert, Dequeue, RecoverLease, Return, RetryOrArchive
<1>8. ASSUME NEW C, Drop(C),
             \A a \in Alert : \/ task'[a] \notin {"none", "lost"} \/ task'[a] = task[a]
                              \/ a[1] \in C /\ task[a] = "owed"
      PROVE  AnnouncedOrError'
  <2> SUFFICES ASSUME NEW c \in Call, result'[c] = "nil", NEW e \in listed'[c]
               PROVE  e \in todo'[c] \/ task'[<<c, e>>] \notin {"none", "lost"}
    OBVIOUS
  <2>1. /\ listed' = listed /\ result'[c] = IF c \in C /\ Unfinished(c) THEN "error" ELSE result[c]
        /\ todo'[c] = IF c \in C THEN {} ELSE todo[c]
    BY <1>8 DEF Drop
  <2>2. e \in Endpoint /\ result[c] = "nil" /\ ~(c \in C /\ Unfinished(c))
    BY <1>0, <2>1 DEF CallTypes
  <2>3. e \in todo[c] \/ task[<<c, e>>] \notin {"none", "lost"}
    BY <1>0, <2>1, <2>2
  <2>4. CASE c \in C
    BY <1>8, <2>2, <2>3, <2>4 DEF Unfinished, Owing
  <2>5. CASE c \notin C
    BY <1>8, <2>1, <2>2, <2>3, <2>5
  <2> QED BY <2>4, <2>5
<1>9. CASE (\E c \in Test : TestDies(c)) \/ Crash \/ Shutdown
  BY <1>8, <1>9 DEF TestDies, Crash, Shutdown, StopWorker, Undone
<1>10. CASE \/ UNCHANGED vars
            \/ \E e \in Endpoint : \/ CreateByUser(e) \/ DeleteByUser(e) \/ Cascade(e)
                                   \/ DeleteAborts(e)
            \/ \E d \in Editor : UpdateByUser(d) \/ \E e \in Endpoint : ReadEndpoint(d, e)
  BY <1>1, <1>10 DEF vars, CreateByUser, DeleteByUser, Cascade, DeleteAborts, UpdateByUser,
        WriteEndpoint, ReadEndpoint, queueVars
<1>11. CASE \E a \in Alert : \/ LockAlert(a) \/ AlertGone(a) \/ AlreadySettled(a)
                             \/ LockEndpoint(a) \/ Post(a) \/ Record(a) \/ HandlerAborts(a)
                             \/ CommitAnswerLost(a) \/ TransactionFails(a)
  BY <1>1, <1>11 DEF LockAlert, AlertGone, AlreadySettled, LockEndpoint, Post, Record,
        HandlerAborts, CommitAnswerLost, TransactionFails, WriteAttempt, Rollback, queueVars
<1> QED
  BY <1>2, <1>3, <1>4, <1>5, <1>7, <1>9, <1>10, <1>11 DEF Next, Handler, NotifyWebhookFailure,
     SendTestByUser

--------------------------------------------------------------------------------
\* Inv is an invariant, for every number of endpoints, calls, edits and failures.
THEOREM Invariance == Spec => []Inv
<1>1. Init => Inv
  BY InitInv
<1>2. Inv /\ [Next]_vars => Inv'
  BY TypeStep, LockStep, UnmadeStep, CallStep, OffStep, RetryStep, AcceptStep, AnnounceStep DEF Inv
<1> QED BY <1>1, <1>2, PTL DEF Spec

\* The variables of OperationalAlert have their types: no task is retried, and no alert
\* attempted, more often than the limits allow.
THEOREM TypeCorrect == Spec => []TypeOK
<1>1. Inv => TypeOK
  BY DEF Inv
<1> QED BY <1>1, Invariance, PTL

\* No POST is under way to an endpoint that its owner has switched off.
THEOREM QuietWhenOffHolds == Spec => []QuietWhenOff
<1>1. Inv => QuietWhenOff
  BY DEF Inv, LockInv, OffInv, QuietWhenOff
<1> QED BY <1>1, Invariance, PTL

\* The destination accepts an alert once, except for runs that ended without a trace.
THEOREM AcceptedOnceHolds == Spec => []AcceptedOnce
<1>1. Inv => AcceptedOnce
  <2> SUFFICES ASSUME Inv, NEW a \in Alert PROVE accepted[a] <= 1 + unrecorded[a]
    BY DEF AcceptedOnce
  <2>1. accepted[a] \in Nat /\ unrecorded[a] \in Nat
    BY DEF Inv, TypeOK
  <2> QED BY <2>1 DEF Inv, AcceptInv
<1> QED BY <1>1, Invariance, PTL

\* A call that returns no error has enqueued an alert for every endpoint it found.
THEOREM AnnouncedOrErrorHolds == Spec => []AnnouncedOrError
<1>1. Inv => AnnouncedOrError
  BY DEF Inv
<1> QED BY <1>1, Invariance, PTL

\* asynq archives no task whose alert is not settled, unless a run left no trace.
THEOREM NotAbandonedHolds == Spec => []NotAbandoned
<1>1. Inv => NotAbandoned
  <2> SUFFICES ASSUME Inv, NEW a \in Alert, alert[a].status \in {"pending", "retrying"}
               PROVE  \/ task[a] \in {"owed", "lost", "queued", "active", "retry"}
                      \/ unrecorded[a] > 0
    BY DEF NotAbandoned
  <2>1. unrecorded[a] \in Nat /\ task[a] # "none"
    BY DEF Inv, TypeOK, UnmadeInv
  <2>2. task[a] \in {"none", "owed", "lost", "queued", "active", "retry", "done", "archived"}
    BY DEF Inv, TypeOK
  <2>3. unrecorded[a] = 0 => task[a] \notin {"done", "archived"}
    BY DEF Inv, RetryInv, Open
  <2> QED BY <2>1, <2>2, <2>3
<1> QED BY <1>1, Invariance, PTL

--------------------------------------------------------------------------------
(* Refinement of AlertLifecycle.                                           *)

\* Every step of OperationalAlert is a step of the row's life or leaves the rows alone.
LEMMA LifecycleStep ==
  ASSUME Inv, [Next]_vars
  PROVE  [Lifecycle!Next]_alert
<1>0. LockInv /\ RowTypes /\ UnmadeInv
  BY TypeParts DEF Inv
<1>1. ASSUME NEW e \in Endpoint, Cascade(e) PROVE Lifecycle!Next
  <2>1. {a \in Alert : a[2] = e} \in SUBSET Alert
    OBVIOUS
  <2>2. Lifecycle!Delete({a \in Alert : a[2] = e})
    BY <1>1 DEF Cascade, Lifecycle!Delete
  <2> QED BY <2>1, <2>2 DEF Lifecycle!Next
<1>2. ASSUME NEW c \in Call, NEW e \in Endpoint, CreateAlertDelivery(c, e) PROVE Lifecycle!Next
  <2>1. <<c, e>> \in Alert /\ alert[<<c, e>>].status = "none"
    BY <1>0, <1>2, Pairs DEF CreateAlertDelivery, Turn, UnmadeInv
  <2> QED BY <1>2, <2>1 DEF CreateAlertDelivery, Lifecycle!Create, Lifecycle!Next
<1>3. ASSUME NEW a \in Alert, pc[a] = "record", WriteAttempt(a) PROVE Lifecycle!Next
  <2>1. /\ alert[a].status \in {"pending", "retrying"} /\ alert[a].count < MaxAttempts
        /\ alert[a].count \in Nat /\ MaxAttempts \in Nat
    BY <1>0, <1>3, RowTypesOf, AttemptAssumption DEF LockInv, Open, RowTypes
  <2>2. /\ NextStatus(a) \in {"success", "retrying", "failed"}
        /\ NextStatus(a) = "retrying" => alert[a].count + 1 < MaxAttempts
    BY <2>1 DEF NextStatus, FinalFailure
  <2>3. Lifecycle!Attempt(a)
    BY <1>3, <2>1, <2>2 DEF WriteAttempt, Lifecycle!Attempt, Lifecycle!Open
  <2> QED BY <2>3 DEF Lifecycle!Next
<1>4. CASE \/ UNCHANGED vars \/ Crash \/ Shutdown
           \/ \E e \in Endpoint : CreateByUser(e) \/ DeleteByUser(e) \/ DeleteAborts(e)
           \/ \E d \in Editor : UpdateByUser(d) \/ \E e \in Endpoint : ReadEndpoint(d, e)
           \/ \E c \in Notice : NotifyWebhookFailure(c)
           \/ \E c \in Test : TestDies(c) \/ \E e \in Endpoint : SendTestByUser(c, e)
           \/ \E c \in Call, e \in Endpoint : CreateFails(c, e)
  <2> UNCHANGED alert
    BY <1>4 DEF vars, rowVars, Crash, Shutdown, StopWorker, CreateByUser, DeleteByUser,
          DeleteAborts, UpdateByUser, WriteEndpoint, ReadEndpoint, NotifyWebhookFailure,
          SendTestByUser, Begin, TestDies, CreateFails
  <2> QED OBVIOUS
<1>5. CASE \E a \in Alert : \/ EnqueueAlert(a) \/ EnqueueFails(a) \/ Dequeue(a) \/ RecoverLease(a)
                            \/ LockAlert(a) \/ AlertGone(a) \/ AlreadySettled(a) \/ LockEndpoint(a)
                            \/ Post(a) \/ Return(a) \/ HandlerAborts(a) \/ TransactionFails(a)
  <2> UNCHANGED alert
    BY <1>5 DEF rowVars, EnqueueAlert, EnqueueFails, Dequeue, RecoverLease, LockAlert, AlertGone,
          AlreadySettled, LockEndpoint, Post, Return, HandlerAborts, TransactionFails, Rollback
  <2> QED OBVIOUS
<1> QED
  BY <1>1, <1>2, <1>3, <1>4, <1>5 DEF Next, Handler, Record, CommitAnswerLost

\* Whatever fails, stops, deadlocks or is edited, the rows of alert_deliveries live as in
\* AlertLifecycle.
THEOREM ImplementsLifecycleHolds == Spec => ImplementsLifecycle
<1>1. Init => Lifecycle!Init
  BY DEF Init, Lifecycle!Init
<1>2. Inv /\ [Next]_vars => [Lifecycle!Next]_alert
  BY LifecycleStep
<1> QED BY <1>1, <1>2, Invariance, PTL DEF Spec, ImplementsLifecycle, Lifecycle!Spec
================================================================================
