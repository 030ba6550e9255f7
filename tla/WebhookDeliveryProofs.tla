------------------------- MODULE WebhookDeliveryProofs -------------------------
(***************************************************************************)
(* Proofs about WebhookDelivery, for every number of deliveries, stores,   *)
(* attempts, sends, concurrent handlers and failures.                      *)
(***************************************************************************)
EXTENDS WebhookDelivery, FiniteSetTheorems, TLAPS

\* A delivery that does not exist has not been sent.
Unsent == \A d \in Delivery : delivery[d].status = "none" => sends[d] = 0

TypeInv == TypeOK /\ Unsent

\* A task belongs to a delivery of a store.
LEMMA TaskFields ==
    ASSUME NEW t \in Task
    PROVE  t[1] \in Delivery /\ t[2] \in 1..MaxSends /\ StoreOf[t[1]] \in Store
BY DeliveryAssumption DEF Task

\* The next send of a delivery has a task.
LEMMA TaskOfSend ==
    ASSUME NEW d \in Delivery, NEW k \in 0..MaxSends, k < MaxSends
    PROVE  <<d, k + 1>> \in Task
BY BoundAssumption DEF Task

\* The statuses an attempt can write.
LEMMA NewStatusValues ==
    ASSUME NEW t \in Task
    PROVE  NewStatus(t) \in {"success", "retrying", "failed_permanently"}
BY DEF NewStatus

\* The first state has the types.
LEMMA TypeInit == Init => TypeInv
<1> SUFFICES ASSUME Init PROVE TypeInv
    OBVIOUS
<1> USE BoundAssumption
<1>1. TypeOK
    BY DEF Init, TypeOK, Status, TaskState, Phase, Outcome
<1>2. Unsent
    BY DEF Init, Unsent
<1>. QED
    BY <1>1, <1>2 DEF TypeInv

\* Types after asynq has retried or archived a task.
LEMMA RetryOrArchiveTypes ==
    ASSUME TypeInv, NEW t \in Task, RetryOrArchive(t)
    PROVE  task' \in [Task -> TaskState] /\ retried' \in [Task -> 0..MaxAttempts - 1]
<1> USE BoundAssumption DEF TypeInv, TypeOK, TaskState
<1>1. CASE retried[t] < MaxAttempts - 1
    <2>1. /\ task' = [task EXCEPT ![t] = "retry"]
          /\ retried' = [retried EXCEPT ![t] = retried[t] + 1]
        BY <1>1 DEF RetryOrArchive
    <2>2. retried[t] + 1 \in 0..MaxAttempts - 1
        BY <1>1
    <2>. QED
        BY <2>1, <2>2
<1>2. CASE retried[t] >= MaxAttempts - 1
    BY <1>2 DEF RetryOrArchive
<1>. QED
    BY <1>1, <1>2

\* Types after an attempt is written.
LEMMA WriteAttemptTypes ==
    ASSUME TypeInv, NEW t \in Task, WriteAttempt(t)
    PROVE  /\ delivery' \in [Delivery -> [status : Status, count : Nat]]
           /\ attempts' \in [Delivery -> Nat]
           /\ lock' \in [Store -> Task \union {NoTask}]
           /\ UNCHANGED <<posts, unrecorded, sends, alerted, processing, queueVars, attempt, outcome>>
           /\ Unsent'
BY TaskFields, NewStatusValues
   DEF TypeInv, TypeOK, Unsent, Status, WriteAttempt, Unlock

\* Types after the transaction of a handler is rolled back.
LEMMA RollbackTypes ==
    ASSUME TypeInv, NEW t \in Task, Rollback(t)
    PROVE  /\ unrecorded' \in [Delivery -> Nat]
           /\ lock' \in [Store -> Task \union {NoTask}]
           /\ pc' \in [Task -> Phase] /\ err' \in {"nil", "error"}
           /\ UNCHANGED <<delivery, attempts, posts, sends, alerted, processing, queueVars,
                          attempt, outcome>>
BY TaskFields DEF TypeInv, TypeOK, Phase, Rollback, Lose, Unlock, Returns, GoTo

\* Every step keeps the types.
LEMMA TypeStep == TypeInv /\ [Next]_vars => TypeInv'
<1> SUFFICES ASSUME TypeInv, [Next]_vars PROVE TypeInv'
    OBVIOUS
<1> USE BoundAssumption, DeliveryAssumption, TaskFields
        DEF TypeInv, TypeOK, Unsent, Status, TaskState, Phase, Outcome,
            vars, rowVars, queueVars, handlerVars, budgetVars
<1>1. ASSUME NEW d \in Delivery, CreateDelivery(d)
      PROVE  TypeInv'
    <2>1. sends[d] = 0 /\ <<d, sends[d] + 1>> \in Task
        BY <1>1, TaskOfSend DEF CreateDelivery
    <2>. QED
        BY <1>1, <2>1 DEF CreateDelivery, StartSend
<1>2. ASSUME NEW d \in Delivery, Resend(d)
      PROVE  TypeInv'
    BY <1>2, TaskOfSend DEF Resend, StartSend
<1>3. ASSUME NEW t \in Task, Enqueue(t) \/ EnqueueFails(t)
      PROVE  TypeInv'
    <2>1. CASE Enqueue(t)
        BY <2>1 DEF Enqueue
    <2>2. CASE EnqueueFails(t)
        BY <2>2 DEF EnqueueFails
    <2>. QED
        BY <1>3, <2>1, <2>2
<1>4. ASSUME NEW t \in Task, Dequeue(t)
      PROVE  TypeInv'
    BY <1>4 DEF Dequeue, GoTo
<1>5. ASSUME NEW t \in Task, RecoverLease(t)
      PROVE  TypeInv'
    <2>1. task' \in [Task -> TaskState] /\ retried' \in [Task -> 0..MaxAttempts - 1]
        BY <1>5, RetryOrArchiveTypes DEF RecoverLease
    <2>. QED
        BY <1>5, <2>1 DEF RecoverLease
<1>6. ASSUME NEW t \in Task, SkipDelivered(t) \/ LoadFails(t)
      PROVE  TypeInv'
    <2>1. CASE SkipDelivered(t)
        BY <2>1 DEF SkipDelivered, Returns, GoTo
    <2>2. CASE LoadFails(t)
        BY <2>2 DEF LoadFails, Lose, Fault, Returns, GoTo
    <2>. QED
        BY <1>6, <2>1, <2>2
<1>7. ASSUME NEW t \in Task, Load(t)
      PROVE  TypeInv'
    BY <1>7 DEF Load, Lock, GoTo
<1>8. ASSUME NEW t \in Task, Post(t) \/ CannotSign(t)
      PROVE  TypeInv'
    <2>1. CASE Post(t)
        BY <2>1 DEF Post, GoTo
    <2>2. CASE CannotSign(t)
        BY <2>2 DEF CannotSign, GoTo
    <2>. QED
        BY <1>8, <2>1, <2>2
<1>9. ASSUME NEW t \in Task, Record(t)
      PROVE  TypeInv'
    <2>1. WriteAttempt(t) /\ UNCHANGED <<faults, crashes, shutdowns>>
        BY <1>9 DEF Record
    <2>2. pc' \in [Task -> Phase] /\ err' \in {"nil", "error"}
        BY <1>9 DEF Record, Returns, GoTo
    <2>. QED
        BY <2>1, <2>2, WriteAttemptTypes
<1>10. ASSUME NEW t \in Task, RecordFails(t)
       PROVE  TypeInv'
    BY <1>10, RollbackTypes DEF RecordFails, Fault
<1>11. ASSUME NEW t \in Task, CommitAnswerLost(t)
       PROVE  TypeInv'
    <2>1. WriteAttempt(t)
        BY <1>11 DEF CommitAnswerLost
    <2>2. /\ pc' \in [Task -> Phase] /\ err' \in {"nil", "error"}
          /\ faults' \in 0..MaxFaults /\ UNCHANGED <<crashes, shutdowns>>
        BY <1>11 DEF CommitAnswerLost, Fault, Returns, GoTo
    <2>. QED
        BY <2>1, <2>2, WriteAttemptTypes
<1>12. ASSUME NEW t \in Task, Notify(t)
       PROVE  TypeInv'
    <2>1. <<t[1], sends[t[1]]>> \in Delivery \X (0..MaxSends)
        BY <1>12
    <2>2. alerted' \subseteq Delivery \X (0..MaxSends)
        BY <1>12, <2>1 DEF Notify
    <2>. QED
        BY <1>12, <2>2 DEF Notify, Returns, GoTo
<1>13. ASSUME NEW t \in Task, NotifyFails(t)
       PROVE  TypeInv'
    BY <1>13 DEF NotifyFails, Fault, Returns, GoTo
<1>14. ASSUME NEW t \in Task, Return(t)
       PROVE  TypeInv'
    <2>1. task' \in [Task -> TaskState] /\ retried' \in [Task -> 0..MaxAttempts - 1]
        BY <1>14, RetryOrArchiveTypes DEF Return
    <2>. QED
        BY <1>14, <2>1 DEF Return, Reset, GoTo
<1>15. CASE Crash
    BY <1>15 DEF Crash, StopHandlers
<1>16. CASE Shutdown
    BY <1>16 DEF Shutdown, StopHandlers
<1>17. CASE UNCHANGED vars
    BY <1>17
<1>18. ASSUME NEW d \in Delivery, LockTransaction(d) \/ NotificationFails(d)
       PROVE  TypeInv'
    BY <1>18 DEF LockTransaction, NotificationFails, Fault
<1>19. ASSUME NEW t \in Task, HandlerAborts(t)
       PROVE  TypeInv'
    BY <1>19, RollbackTypes DEF HandlerAborts
<1>. QED
    BY <1>1, <1>2, <1>3, <1>4, <1>5, <1>6, <1>7, <1>8, <1>9, <1>10, <1>11, <1>12, <1>13,
       <1>14, <1>15, <1>16, <1>17, <1>18, <1>19 DEF Next, Handler, HandlerFault

\* The variables always have their types: in particular the retry counter of asynq
\* stays below the limit and no delivery is sent more often than the bound.
THEOREM TypeCorrect == Spec => []TypeOK
<1>1. Init => TypeInv
    BY TypeInit
<1>2. TypeInv /\ [Next]_vars => TypeInv'
    BY TypeStep
<1>3. TypeInv => TypeOK
    BY DEF TypeInv
<1>. QED
    BY <1>1, <1>2, <1>3, PTL DEF Spec

--------------------------------------------------------------------------------
(* The handler that is inside its transaction holds the rows, so what it   *)
(* has read of the delivery still holds when it writes.                    *)

HoldsRows == \A t \in Task : Attempting(t) => lock[StoreOf[t[1]]] = t

ReadIsCurrent ==
    \A t \in Task : Attempting(t) =>
        /\ attempt[t] = delivery[t[1]].count + 1
        /\ delivery[t[1]].status # "success"

\* A task that was ever queued belongs to a delivery that exists.
TaskHasRow ==
    \A t \in Task : task[t] # "none" => delivery[t[1]].status # "none"

\* The tasks of sends that have not happened do not exist.
TaskWasSent == \A t \in Task : task[t] # "none" => t[2] <= sends[t[1]]

HandlerHasTask == \A t \in Task : pc[t] # "idle" => task[t] = "active"

LockInv ==
    /\ HoldsRows
    /\ ReadIsCurrent
    /\ TaskHasRow
    /\ TaskWasSent
    /\ HandlerHasTask
    /\ AttemptRowPerCount

\* The first state satisfies LockInv.
LEMMA LockInit == Init => LockInv
BY DEF Init, LockInv, HoldsRows, ReadIsCurrent, TaskHasRow, TaskWasSent,
       HandlerHasTask, AttemptRowPerCount, Attempting

\* While the rows are free nobody is inside a transaction on them.
LEMMA FreeRows ==
    ASSUME TypeInv, LockInv, NEW d \in Delivery, RowsFree(d)
    PROVE  \A t \in Task : Attempting(t) => StoreOf[t[1]] # StoreOf[d] /\ t[1] # d
BY NoTaskAssumption DEF LockInv, HoldsRows, RowsFree

\* Two handlers inside a transaction work on different stores.
LEMMA DifferentStores ==
    ASSUME TypeInv, LockInv, NEW t \in Task, NEW u \in Task, t # u,
           Attempting(t), Attempting(u)
    PROVE  StoreOf[t[1]] # StoreOf[u[1]] /\ t[1] # u[1]
BY DEF LockInv, HoldsRows

\* A new send starts only while the rows are free.
LEMMA StartSendStep ==
    ASSUME TypeInv, LockInv, NEW d \in Delivery, RowsFree(d), sends[d] < MaxSends, StartSend(d)
    PROVE  LockInv'
<1> USE DEF StartSend, handlerVars, budgetVars
<1>1. <<d, sends[d] + 1>> \in Task
    BY TaskOfSend DEF TypeInv, TypeOK
<1>2. \A t \in Task : Attempting(t)' <=> Attempting(t)
    BY DEF Attempting
<1>3. HoldsRows'
    BY <1>2 DEF LockInv, HoldsRows
<1>4. \A e \in Delivery : e # d => delivery'[e] = delivery[e] /\ attempts'[e] = attempts[e]
    BY DEF TypeInv, TypeOK
<1>5. ReadIsCurrent'
    BY <1>2, <1>4, FreeRows, TaskFields DEF LockInv, ReadIsCurrent
<1>6. delivery'[d] = [status |-> "pending", count |-> 0] /\ attempts'[d] = 0
    BY DEF TypeInv, TypeOK
<1>7. TaskHasRow'
    <2> SUFFICES ASSUME NEW t \in Task, task'[t] # "none"
                 PROVE  delivery'[t[1]].status # "none"
        BY DEF TaskHasRow
    <2>1. CASE t[1] = d
        BY <2>1, <1>6
    <2>2. CASE t[1] # d
        <3>1. task'[t] = task[t]
            BY <2>2, <1>1 DEF TypeInv, TypeOK
        <3>. QED
            BY <2>2, <3>1, <1>4, TaskFields DEF LockInv, TaskHasRow
    <2>. QED
        BY <2>1, <2>2
<1>8. AttemptRowPerCount'
    BY <1>4, <1>6 DEF LockInv, AttemptRowPerCount
<1>9. task[<<d, sends[d] + 1>>] = "none"
    BY <1>1 DEF LockInv, TaskWasSent, TypeInv, TypeOK
<1>10. HandlerHasTask'
    BY <1>1, <1>9 DEF LockInv, HandlerHasTask, TypeInv, TypeOK
<1>11. TaskWasSent'
    <2> SUFFICES ASSUME NEW t \in Task, task'[t] # "none"
                 PROVE  t[2] <= sends'[t[1]]
        BY DEF TaskWasSent
    <2>1. CASE t = <<d, sends[d] + 1>>
        BY <2>1 DEF TypeInv, TypeOK
    <2>2. CASE t # <<d, sends[d] + 1>>
        <3>1. task'[t] = task[t] /\ t[2] <= sends[t[1]]
            BY <2>2, <1>1 DEF TypeInv, TypeOK, LockInv, TaskWasSent
        <3>2. sends[t[1]] <= sends'[t[1]] /\ sends[t[1]] \in Nat /\ sends'[t[1]] \in Nat
            BY TaskFields DEF TypeInv, TypeOK
        <3>. QED
            BY <3>1, <3>2, TaskFields
    <2>. QED
        BY <2>1, <2>2
<1>. QED
    BY <1>3, <1>5, <1>7, <1>8, <1>10, <1>11 DEF LockInv

\* A handler that writes or drops its attempt is not inside the transaction any more,
\* and disturbs nobody who is.
LEMMA WriteAttemptStep ==
    ASSUME TypeInv, LockInv, NEW t \in Task, pc[t] = "record", WriteAttempt(t),
           NEW ph \in {"return", "notify"}, GoTo(t, ph)
    PROVE  LockInv'
<1> USE DEF WriteAttempt, Unlock, GoTo, queueVars
<1>1. t[1] \in Delivery /\ Attempting(t)
    BY TaskFields DEF Attempting
<1>2. \A u \in Task : Attempting(u)' => u # t /\ Attempting(u)
    BY DEF Attempting, TypeInv, TypeOK
<1>3. \A u \in Task : Attempting(u)' => StoreOf[u[1]] # StoreOf[t[1]] /\ u[1] # t[1]
    BY <1>1, <1>2, DifferentStores
<1>4. HoldsRows'
    BY <1>2, <1>3, TaskFields DEF LockInv, HoldsRows, TypeInv, TypeOK
<1>5. \A e \in Delivery : e # t[1] => delivery'[e] = delivery[e] /\ attempts'[e] = attempts[e]
    BY DEF TypeInv, TypeOK
<1>6. ReadIsCurrent'
    BY <1>2, <1>3, <1>5, TaskFields DEF LockInv, ReadIsCurrent
<1>7. /\ delivery'[t[1]] = [status |-> NewStatus(t), count |-> attempt[t]]
      /\ attempts'[t[1]] = attempts[t[1]] + 1
    BY <1>1 DEF TypeInv, TypeOK
<1>8. attempt[t] = attempts[t[1]] + 1
    BY <1>1 DEF LockInv, ReadIsCurrent, AttemptRowPerCount
<1>9. AttemptRowPerCount'
    BY <1>5, <1>7, <1>8 DEF LockInv, AttemptRowPerCount
<1>10. TaskHasRow'
    <2>1. \A u \in Task : u[1] = t[1] => delivery'[u[1]].status # "none"
        BY <1>7, NewStatusValues
    <2>2. \A u \in Task : u[1] # t[1] => delivery'[u[1]] = delivery[u[1]]
        BY <1>5, TaskFields
    <2>. QED
        BY <2>1, <2>2 DEF LockInv, TaskHasRow
<1>11. TaskWasSent'
    BY DEF LockInv, TaskWasSent
<1>12. HandlerHasTask'
    <2>1. \A u \in Task : pc'[u] # "idle" => pc[u] # "idle"
        BY DEF TypeInv, TypeOK
    <2>. QED
        BY <2>1 DEF LockInv, HandlerHasTask
<1>. QED
    BY <1>4, <1>6, <1>9, <1>10, <1>11, <1>12 DEF LockInv

\* A handler that is rolled back leaves the transaction and the rows as they were.
LEMMA RollbackStep ==
    ASSUME TypeInv, LockInv, NEW t \in Task, pc[t] = "record", Rollback(t)
    PROVE  LockInv'
<1> USE DEF TypeInv, TypeOK, Rollback, Unlock, Returns, GoTo, queueVars
<1>1. Attempting(t)
    BY DEF Attempting
<1>2. \A u \in Task : Attempting(u)' => u # t /\ Attempting(u)
    BY DEF Attempting
<1>3. \A u \in Task : Attempting(u)' => StoreOf[u[1]] # StoreOf[t[1]]
    BY <1>1, <1>2, DifferentStores
<1>4. HoldsRows'
    BY <1>2, <1>3, TaskFields DEF LockInv, HoldsRows
<1>5. ReadIsCurrent'
    BY <1>2 DEF LockInv, ReadIsCurrent
<1>6. TaskHasRow' /\ TaskWasSent' /\ AttemptRowPerCount'
    BY DEF LockInv, TaskHasRow, TaskWasSent, AttemptRowPerCount
<1>7. HandlerHasTask'
    BY DEF LockInv, HandlerHasTask
<1>. QED
    BY <1>4, <1>5, <1>6, <1>7 DEF LockInv

\* Steps that leave the rows and the locks alone and put no handler in a transaction.
LEMMA OutsideStep ==
    ASSUME TypeInv, LockInv, UNCHANGED <<delivery, attempts, sends, lock>>,
           \A t \in Task : Attempting(t)' => Attempting(t) /\ attempt'[t] = attempt[t],
           \A t \in Task : task'[t] # "none" => task[t] # "none",
           \A t \in Task : pc'[t] # "idle" => task'[t] = "active"
    PROVE  LockInv'
<1>1. HoldsRows' /\ ReadIsCurrent'
    BY DEF LockInv, HoldsRows, ReadIsCurrent
<1>2. TaskHasRow' /\ TaskWasSent' /\ HandlerHasTask' /\ AttemptRowPerCount'
    BY DEF LockInv, TaskHasRow, TaskWasSent, HandlerHasTask, AttemptRowPerCount
<1>. QED
    BY <1>1, <1>2 DEF LockInv

\* Every step keeps LockInv.
LEMMA LockStep == TypeInv /\ LockInv /\ [Next]_vars => LockInv'
<1> SUFFICES ASSUME TypeInv, LockInv, [Next]_vars PROVE LockInv'
    OBVIOUS
<1> USE DEF TypeInv, TypeOK, vars, rowVars, queueVars, handlerVars, budgetVars
<1>1. ASSUME NEW d \in Delivery, CreateDelivery(d)
      PROVE  LockInv'
    <2>1. sends[d] < MaxSends
        BY <1>1, BoundAssumption DEF CreateDelivery, Unsent
    <2>. QED
        BY <1>1, <2>1, StartSendStep DEF CreateDelivery
<1>2. ASSUME NEW d \in Delivery, Resend(d)
      PROVE  LockInv'
    BY <1>2, StartSendStep DEF Resend
<1>3. ASSUME NEW t \in Task, Enqueue(t)
      PROVE  LockInv'
    BY <1>3, OutsideStep DEF Enqueue, Attempting, LockInv, HandlerHasTask
<1>4. ASSUME NEW t \in Task, EnqueueFails(t)
      PROVE  LockInv'
    BY <1>4, OutsideStep DEF EnqueueFails, Attempting, LockInv, HandlerHasTask
<1>5. ASSUME NEW t \in Task, Dequeue(t)
      PROVE  LockInv'
    BY <1>5, OutsideStep DEF Dequeue, GoTo, Attempting, LockInv, HandlerHasTask
<1>6. ASSUME NEW t \in Task, RecoverLease(t)
      PROVE  LockInv'
    <2>1. \/ task' = [task EXCEPT ![t] = "retry"]
          \/ task' = [task EXCEPT ![t] = "archived"]
        BY <1>6 DEF RecoverLease, RetryOrArchive
    <2>. QED
        BY <1>6, <2>1, OutsideStep DEF RecoverLease, Attempting, LockInv, HandlerHasTask
<1>7. ASSUME NEW t \in Task, SkipDelivered(t)
      PROVE  LockInv'
    BY <1>7, OutsideStep DEF SkipDelivered, Returns, GoTo, Attempting, LockInv, HandlerHasTask
<1>8. ASSUME NEW t \in Task, LoadFails(t)
      PROVE  LockInv'
    BY <1>8, OutsideStep DEF LoadFails, Lose, Fault, Returns, GoTo, Attempting,
        LockInv, HandlerHasTask
<1>9. ASSUME NEW t \in Task, Load(t)
      PROVE  LockInv'
    <2> USE <1>9 DEF Load, Lock, GoTo
    <2>1. t[1] \in Delivery /\ StoreOf[t[1]] \in Store
        BY TaskFields
    <2>2. \A u \in Task : u # t => (Attempting(u)' <=> Attempting(u))
        BY DEF Attempting
    <2>3. \A u \in Task : Attempting(u) => StoreOf[u[1]] # StoreOf[t[1]]
        BY <2>1, FreeRows
    <2>4. HoldsRows'
        BY <2>1, <2>2, <2>3, TaskFields DEF LockInv, HoldsRows
    <2>5. ReadIsCurrent'
        BY <2>1, <2>2 DEF LockInv, ReadIsCurrent
    <2>6. TaskHasRow' /\ TaskWasSent' /\ AttemptRowPerCount'
        BY DEF LockInv, TaskHasRow, TaskWasSent, AttemptRowPerCount
    <2>7. HandlerHasTask'
        BY DEF LockInv, HandlerHasTask
    <2>. QED
        BY <2>4, <2>5, <2>6, <2>7 DEF LockInv
<1>10. ASSUME NEW t \in Task, Post(t)
       PROVE  LockInv'
    BY <1>10, OutsideStep DEF Post, GoTo, Attempting, LockInv, HandlerHasTask
<1>11. ASSUME NEW t \in Task, CannotSign(t)
       PROVE  LockInv'
    BY <1>11, OutsideStep DEF CannotSign, GoTo, Attempting, LockInv, HandlerHasTask
<1>12. ASSUME NEW t \in Task, Record(t)
       PROVE  LockInv'
    <2>1. pc[t] = "record" /\ WriteAttempt(t) /\ (GoTo(t, "return") \/ GoTo(t, "notify"))
        BY <1>12 DEF Record, Returns
    <2>. QED
        BY <2>1, WriteAttemptStep
<1>13. ASSUME NEW t \in Task, CommitAnswerLost(t)
       PROVE  LockInv'
    BY <1>13, WriteAttemptStep DEF CommitAnswerLost, Returns
<1>14. ASSUME NEW t \in Task, RecordFails(t) \/ HandlerAborts(t)
       PROVE  LockInv'
    BY <1>14, RollbackStep DEF RecordFails, HandlerAborts, Deadlocked
<1>15. ASSUME NEW t \in Task, Notify(t)
       PROVE  LockInv'
    BY <1>15, OutsideStep DEF Notify, Returns, GoTo, Attempting, LockInv, HandlerHasTask
<1>16. ASSUME NEW t \in Task, NotifyFails(t)
       PROVE  LockInv'
    BY <1>16, OutsideStep DEF NotifyFails, Fault, Returns, GoTo, Attempting, LockInv, HandlerHasTask
<1>17. ASSUME NEW t \in Task, Return(t)
       PROVE  LockInv'
    <2>1. \/ task' = [task EXCEPT ![t] = "retry"]
          \/ task' = [task EXCEPT ![t] = "archived"]
          \/ task' = [task EXCEPT ![t] = "done"]
        BY <1>17 DEF Return, RetryOrArchive
    <2>2. \A u \in Task : Attempting(u)' => Attempting(u) /\ attempt'[u] = attempt[u]
        BY <1>17 DEF Return, Reset, GoTo, Attempting
    <2>3. \A u \in Task : pc'[u] # "idle" => u # t /\ pc[u] # "idle"
        BY <1>17 DEF Return, Reset, GoTo
    <2>4. task[t] = "active"
        BY <1>17 DEF Return, LockInv, HandlerHasTask
    <2>5. \A u \in Task : task'[u] # "none" => task[u] # "none"
        BY <2>1, <2>4
    <2>6. \A u \in Task : pc'[u] # "idle" => task'[u] = "active"
        BY <2>1, <2>3 DEF LockInv, HandlerHasTask
    <2>. QED
        BY <1>17, <2>2, <2>5, <2>6, OutsideStep DEF Return
<1>18. CASE Crash
    <2>1. \A t \in Task : pc'[t] = "idle" /\ ~Attempting(t)'
        BY <1>18 DEF Crash, StopHandlers, Attempting
    <2>. QED
        BY <1>18, <2>1 DEF Crash, StopHandlers, LockInv, HoldsRows, ReadIsCurrent,
           TaskHasRow, TaskWasSent, HandlerHasTask, AttemptRowPerCount
<1>19. CASE Shutdown
    <2>1. \A t \in Task : pc'[t] = "idle" /\ ~Attempting(t)'
        BY <1>19 DEF Shutdown, StopHandlers, Attempting
    <2>2. \A t \in Task : task'[t] # "none" => task[t] # "none"
        BY <1>19 DEF Shutdown, Running, LockInv, HandlerHasTask
    <2>. QED
        BY <1>19, <2>1, <2>2 DEF Shutdown, StopHandlers, LockInv, HoldsRows, ReadIsCurrent,
           TaskHasRow, TaskWasSent, HandlerHasTask, AttemptRowPerCount
<1>20. CASE UNCHANGED vars
    BY <1>20, OutsideStep DEF Attempting, LockInv, HandlerHasTask
<1>21. ASSUME NEW d \in Delivery, LockTransaction(d) \/ NotificationFails(d)
       PROVE  LockInv'
    BY <1>21, OutsideStep DEF LockTransaction, NotificationFails, Attempting, LockInv,
                              HandlerHasTask
<1>. QED
    BY <1>1, <1>2, <1>3, <1>4, <1>5, <1>6, <1>7, <1>8, <1>9, <1>10, <1>11, <1>12, <1>13,
       <1>14, <1>15, <1>16, <1>17, <1>18, <1>19, <1>20, <1>21 DEF Next, Handler, HandlerFault

--------------------------------------------------------------------------------
IInv == TypeInv /\ LockInv

\* IInv is an invariant.
LEMMA IInvariant == Spec => []IInv
<1>1. Init => IInv
    BY TypeInit, LockInit DEF IInv
<1>2. IInv /\ [Next]_vars => IInv'
    BY TypeStep, LockStep DEF IInv
<1>. QED
    BY <1>1, <1>2, PTL DEF Spec

\* No two handlers are between the SELECT and the COMMIT on deliveries of one store,
\* whatever the number of workers, tasks and failures.
THEOREM OneAttemptPerStoreHolds == Spec => []OneAttemptPerStore
<1>1. IInv => OneAttemptPerStore
    BY DifferentStores DEF IInv, OneAttemptPerStore
<1>. QED
    BY <1>1, IInvariant, PTL

\* attempt_count always equals the number of attempt rows of the send.
THEOREM AttemptRowPerCountHolds == Spec => []AttemptRowPerCount
<1>1. IInv => AttemptRowPerCount
    BY DEF IInv, LockInv
<1>. QED
    BY <1>1, IInvariant, PTL

\* What a step can do to the rows: nothing, start a send of a delivery that is new or
\* has failed for good, or write the attempt of the handler that holds the row.
LEMMA RowStep ==
    ASSUME IInv, [Next]_vars
    PROVE  \/ UNCHANGED delivery
           \/ \E d \in Delivery :
                 /\ delivery[d].status \in {"none", "failed_permanently"}
                 /\ delivery' = [delivery EXCEPT ![d] = [status |-> "pending", count |-> 0]]
           \/ \E t \in Task :
                 /\ Attempting(t)
                 /\ delivery' = [delivery EXCEPT ![t[1]] =
                                    [status |-> NewStatus(t), count |-> attempt[t]]]
<1> USE DEF rowVars, queueVars, handlerVars, budgetVars
<1>1. ASSUME NEW d \in Delivery, CreateDelivery(d) \/ Resend(d)
      PROVE  \E e \in Delivery :
                 /\ delivery[e].status \in {"none", "failed_permanently"}
                 /\ delivery' = [delivery EXCEPT ![e] = [status |-> "pending", count |-> 0]]
    BY <1>1 DEF CreateDelivery, Resend, StartSend
<1>2. ASSUME NEW t \in Task, Record(t) \/ CommitAnswerLost(t)
      PROVE  /\ Attempting(t)
             /\ delivery' = [delivery EXCEPT ![t[1]] =
                                [status |-> NewStatus(t), count |-> attempt[t]]]
    BY <1>2 DEF Record, CommitAnswerLost, WriteAttempt, Attempting
<1>3. ASSUME NEW t \in Task,
             \/ Enqueue(t) \/ EnqueueFails(t) \/ Dequeue(t) \/ RecoverLease(t)
             \/ SkipDelivered(t) \/ LoadFails(t) \/ Load(t) \/ Post(t) \/ CannotSign(t)
             \/ RecordFails(t) \/ HandlerAborts(t) \/ Notify(t) \/ NotifyFails(t) \/ Return(t)
      PROVE  UNCHANGED delivery
    BY <1>3 DEF Enqueue, EnqueueFails, Dequeue, RecoverLease, SkipDelivered, LoadFails, Load,
                Post, CannotSign, RecordFails, HandlerAborts, Rollback, Notify, NotifyFails, Return
<1>4. ASSUME Crash \/ Shutdown \/ UNCHANGED vars
      PROVE  UNCHANGED delivery
    BY <1>4 DEF Crash, Shutdown, StopHandlers, vars
<1>5. ASSUME NEW d \in Delivery, LockTransaction(d) \/ NotificationFails(d)
      PROVE  UNCHANGED delivery
    BY <1>5 DEF LockTransaction, NotificationFails
<1>. QED
    BY <1>1, <1>2, <1>3, <1>4, <1>5 DEF Next, Handler, HandlerFault

\* No step changes a delivered row.
LEMMA DeliveredStep ==
    ASSUME IInv, [Next]_vars, NEW d \in Delivery, delivery[d].status = "success"
    PROVE  delivery'[d] = delivery[d]
<1>1. \A t \in Task : Attempting(t) => t[1] # d
    BY DEF IInv, LockInv, ReadIsCurrent
<1>2. delivery \in [Delivery -> [status : Status, count : Nat]]
    BY DEF IInv, TypeInv, TypeOK
<1>. QED
    BY <1>1, <1>2, RowStep, TaskFields

\* No step changes a delivery that has succeeded.
THEOREM DeliveredIsFinalHolds == Spec => DeliveredIsFinal
<1>1. IInv /\ [Next]_vars =>
        [\A d \in Delivery :
            delivery[d].status = "success" => delivery'[d] = delivery[d]]_vars
    BY DeliveredStep
<1>. QED
    BY <1>1, IInvariant, PTL DEF Spec, DeliveredIsFinal

\* Every step is one of DeliveryLifecycle, or leaves the rows alone.
LEMMA LifecycleStep ==
    ASSUME IInv, [Next]_vars
    PROVE  [Lifecycle!Next]_delivery
<1> USE DEF Lifecycle!Next, Lifecycle!Create, Lifecycle!Resend, Lifecycle!Attempt, Lifecycle!Fresh
<1>1. delivery \in [Delivery -> [status : Status, count : Nat]]
    BY DEF IInv, TypeInv, TypeOK
<1>2. ASSUME NEW d \in Delivery,
             delivery[d].status \in {"none", "failed_permanently"},
             delivery' = [delivery EXCEPT ![d] = [status |-> "pending", count |-> 0]]
      PROVE  Lifecycle!Next
    BY <1>2
<1>3. ASSUME NEW t \in Task, Attempting(t),
             delivery' = [delivery EXCEPT ![t[1]] =
                            [status |-> NewStatus(t), count |-> attempt[t]]]
      PROVE  Lifecycle!Next
    <2>1. t[1] \in Delivery
        BY TaskFields
    <2>2. task[t] # "none"
        BY <1>3 DEF Attempting, IInv, LockInv, HandlerHasTask
    <2>3. /\ delivery[t[1]].status # "success"
          /\ delivery[t[1]].status # "none"
          /\ attempt[t] = delivery[t[1]].count + 1
        BY <1>3, <2>2 DEF IInv, LockInv, ReadIsCurrent, TaskHasRow
    <2>4. delivery[t[1]].status \in {"pending", "retrying", "failed_permanently"}
        BY <1>1, <2>1, <2>3 DEF Status
    <2>5. NewStatus(t) = "retrying" => attempt[t] < MaxAttempts
        <3>1. attempt[t] \in Nat /\ MaxAttempts \in Nat
            BY BoundAssumption DEF IInv, TypeInv, TypeOK
        <3>. QED
            BY <3>1 DEF NewStatus, FinalFailure
    <2>6. Lifecycle!Attempt(t[1])
        BY <1>3, <2>3, <2>4, <2>5, NewStatusValues
    <2>. QED
        BY <2>1, <2>6
<1>. QED
    BY RowStep, <1>2, <1>3

\* Workers, queue and failures together implement the life of a delivery.
THEOREM ImplementsLifecycleHolds == Spec => ImplementsLifecycle
<1>1. Init => Lifecycle!Init
    BY DEF Init, Lifecycle!Init
<1>2. IInv /\ [Next]_vars => [Lifecycle!Next]_delivery
    BY LifecycleStep
<1>. QED
    BY <1>1, <1>2, IInvariant, PTL DEF Spec, ImplementsLifecycle, Lifecycle!Spec

--------------------------------------------------------------------------------
(* The limit on attempts is kept by the retry counter of asynq alone: an   *)
(* attempt is only counted in a run that asynq has granted.  That needs a  *)
(* delivery to have one task, which a resend breaks, and a run to cost a   *)
(* retry, which a graceful shutdown saves it.                              *)

Budget ==
    /\ \A d \in Delivery : sends[d] = 0 => delivery[d].status = "none"
    /\ \A t \in Task : sends[t[1]] = 1 /\ t[2] = 1 =>
        /\ delivery[t[1]].count <= retried[t] + 1 + shutdowns
        /\ task[t] \in {"none", "owed"} => delivery[t[1]].count = 0
        /\ task[t] \in {"queued", "retry"} \/ pc[t] \in {"begin", "post", "record"}
              => delivery[t[1]].count <= retried[t] + shutdowns

\* A delivery that was sent once has one task.
LEMMA OneTask ==
    ASSUME IInv, NEW t \in Task, task[t] # "none", NEW u \in Task, t[1] = u[1],
           sends[u[1]] = 1, u[2] = 1
    PROVE  t = u
<1>1. t[2] = 1
    BY TaskFields DEF IInv, LockInv, TaskWasSent, TypeInv, TypeOK
<1>. QED
    BY <1>1 DEF Task

\* A recorded attempt uses one of the runs the task has left.
LEMMA BudgetRun ==
    ASSUME IInv, Budget, NEW t \in Task, Attempting(t),
           pc[t] = "record", WriteAttempt(t), UNCHANGED shutdowns,
           \A u \in Task : u # t => pc'[u] = pc[u], pc'[t] \in {"return", "notify"}
    PROVE  Budget'
<1> USE DEF IInv, TypeInv, TypeOK, queueVars
<1>1. delivery'[t[1]].count = delivery[t[1]].count + 1
    BY TaskFields DEF WriteAttempt, LockInv, ReadIsCurrent
<1>2. task[t] = "active" /\ task' = task /\ retried' = retried /\ sends' = sends
    BY DEF Attempting, LockInv, HandlerHasTask, WriteAttempt
<1>3. \A u \in Task : u # t /\ sends[u[1]] = 1 /\ u[2] = 1 => delivery'[u[1]] = delivery[u[1]]
    <2>1. \A u \in Task : u # t /\ sends[u[1]] = 1 /\ u[2] = 1 => u[1] # t[1]
        BY <1>2, OneTask
    <2>. QED
        BY <2>1 DEF WriteAttempt
<1>4. sends[t[1]] # 0
    BY <1>2, TaskFields DEF LockInv, TaskWasSent
<1>5. \A d \in Delivery : d # t[1] => delivery'[d] = delivery[d]
    BY DEF WriteAttempt
<1>6. \A d \in Delivery : sends'[d] = 0 => delivery'[d].status = "none"
    BY <1>2, <1>4, <1>5 DEF Budget
<1>7. ASSUME NEW u \in Task, sends'[u[1]] = 1, u[2] = 1
      PROVE  /\ delivery'[u[1]].count <= retried'[u] + 1 + shutdowns'
             /\ task'[u] \in {"none", "owed"} => delivery'[u[1]].count = 0
             /\ task'[u] \in {"queued", "retry"} \/ pc'[u] \in {"begin", "post", "record"}
                   => delivery'[u[1]].count <= retried'[u] + shutdowns'
    <2>1. CASE u = t
        BY <1>1, <1>2, <1>7, <2>1, TaskFields DEF Budget
    <2>2. CASE u # t
        BY <1>2, <1>3, <1>7, <2>2, TaskFields DEF Budget
    <2>. QED
        BY <2>1, <2>2
<1>. QED
    BY <1>6, <1>7 DEF Budget

\* A task whose run ends gets a larger budget with its next run.
LEMMA BudgetRetry ==
    ASSUME IInv, Budget, NEW t \in Task, task[t] = "active", RetryOrArchive(t),
           UNCHANGED <<delivery, sends, shutdowns>>,
           \A u \in Task : u # t => pc'[u] = pc[u], pc'[t] = "idle"
    PROVE  Budget'
<1> USE BoundAssumption, TaskFields DEF IInv, TypeInv, TypeOK, Budget
<1>1. CASE retried[t] < MaxAttempts - 1
    <2>1. /\ task' = [task EXCEPT ![t] = "retry"]
          /\ retried' = [retried EXCEPT ![t] = retried[t] + 1]
        BY <1>1 DEF RetryOrArchive
    <2>. QED
        BY <2>1
<1>2. CASE retried[t] >= MaxAttempts - 1
    BY <1>2 DEF RetryOrArchive
<1>. QED
    BY <1>1, <1>2

\* Every step keeps Budget.
LEMMA BudgetStep ==
    ASSUME IInv, Budget, [Next]_vars
    PROVE  Budget'
<1> USE TaskFields
        DEF IInv, TypeInv, TypeOK, vars, rowVars, queueVars, handlerVars, budgetVars
<1>1. ASSUME NEW d \in Delivery, StartSend(d)
      PROVE  Budget'
    <2>1. /\ delivery'[d].count = 0
          /\ \A u \in Task : u[1] # d => delivery'[u[1]] = delivery[u[1]]
          /\ \A e \in Delivery : e # d => delivery'[e] = delivery[e] /\ sends'[e] = sends[e]
          /\ sends'[d] = sends[d] + 1
        BY <1>1 DEF StartSend
    <2>2. pc' = pc /\ retried' = retried /\ shutdowns' = shutdowns
        BY <1>1 DEF StartSend
    <2>3. task' = [task EXCEPT ![<<d, sends[d] + 1>>] = "owed"]
        BY <1>1 DEF StartSend
    <2>4. \A u \in Task : u[1] # d => task'[u] = task[u]
        BY <2>3
    <2>. QED
        BY <2>1, <2>2, <2>4 DEF Budget
<1>2. ASSUME NEW d \in Delivery, CreateDelivery(d) \/ Resend(d)
      PROVE  Budget'
    BY <1>1, <1>2 DEF CreateDelivery, Resend
<1>3. ASSUME NEW t \in Task, Enqueue(t)
      PROVE  Budget'
    BY <1>3 DEF Enqueue, Budget
<1>4. ASSUME NEW t \in Task, EnqueueFails(t)
      PROVE  Budget'
    BY <1>4 DEF EnqueueFails, Budget
<1>5. ASSUME NEW t \in Task, Dequeue(t)
      PROVE  Budget'
    BY <1>5 DEF Dequeue, GoTo, Budget
<1>6. ASSUME NEW t \in Task, RecoverLease(t)
      PROVE  Budget'
    BY <1>6, BudgetRetry DEF RecoverLease
<1>7. ASSUME NEW t \in Task, SkipDelivered(t)
      PROVE  Budget'
    BY <1>7 DEF SkipDelivered, Returns, GoTo, Budget
<1>8. ASSUME NEW t \in Task, LoadFails(t)
      PROVE  Budget'
    BY <1>8 DEF LoadFails, Fault, Returns, GoTo, Budget
<1>9. ASSUME NEW t \in Task, Load(t)
      PROVE  Budget'
    BY <1>9 DEF Load, GoTo, Budget
<1>10. ASSUME NEW t \in Task, Post(t)
       PROVE  Budget'
    BY <1>10 DEF Post, GoTo, Budget
<1>11. ASSUME NEW t \in Task, CannotSign(t)
       PROVE  Budget'
    BY <1>11 DEF CannotSign, GoTo, Budget
<1>12. ASSUME NEW t \in Task, Record(t) \/ CommitAnswerLost(t)
       PROVE  Budget'
    <2>1. pc[t] = "record" /\ Attempting(t) /\ WriteAttempt(t) /\ UNCHANGED shutdowns
        BY <1>12 DEF Record, CommitAnswerLost, Attempting, Fault
    <2>2. GoTo(t, "return") \/ GoTo(t, "notify")
        BY <1>12 DEF Record, CommitAnswerLost, Returns
    <2>3. /\ \A u \in Task : u # t => pc'[u] = pc[u]
          /\ pc'[t] \in {"return", "notify"}
        BY <2>2 DEF GoTo
    <2>. QED
        BY <2>1, <2>3, BudgetRun
<1>13. ASSUME NEW t \in Task, RecordFails(t) \/ HandlerAborts(t)
       PROVE  Budget'
    BY <1>13 DEF RecordFails, HandlerAborts, Rollback, Fault, Returns, GoTo, Budget
<1>14. ASSUME NEW t \in Task, Notify(t)
       PROVE  Budget'
    BY <1>14 DEF Notify, Returns, GoTo, Budget
<1>15. ASSUME NEW t \in Task, NotifyFails(t)
       PROVE  Budget'
    BY <1>15 DEF NotifyFails, Fault, Returns, GoTo, Budget
<1>16. ASSUME NEW t \in Task, Return(t)
       PROVE  Budget'
    <2>1. task[t] = "active" /\ UNCHANGED <<delivery, sends, shutdowns>>
        BY <1>16 DEF Return, LockInv, HandlerHasTask
    <2>2. /\ \A u \in Task : u # t => pc'[u] = pc[u]
          /\ pc'[t] = "idle"
        BY <1>16 DEF Return, Reset, GoTo
    <2>3. CASE RetryOrArchive(t)
        BY <2>1, <2>2, <2>3, BudgetRetry
    <2>4. CASE task' = [task EXCEPT ![t] = "done"] /\ UNCHANGED retried
        BY <2>1, <2>2, <2>4 DEF Budget
    <2>. QED
        BY <1>16, <2>3, <2>4 DEF Return
<1>17. CASE Crash
    BY <1>17 DEF Crash, StopHandlers, Budget
<1>18. CASE Shutdown
    <2>1. /\ shutdowns' = shutdowns + 1 /\ UNCHANGED <<delivery, retried, sends>>
          /\ \A u \in Task : pc'[u] = "idle" /\ task'[u] \in {"queued", task[u]}
        BY <1>18 DEF Shutdown, StopHandlers
    <2>. QED
        BY <2>1 DEF Budget
<1>19. CASE UNCHANGED vars
    BY <1>19 DEF Budget
<1>20. ASSUME NEW d \in Delivery, LockTransaction(d) \/ NotificationFails(d)
       PROVE  Budget'
    BY <1>20 DEF LockTransaction, NotificationFails, Fault, Budget
<1>. QED
    BY <1>2, <1>3, <1>4, <1>5, <1>6, <1>7, <1>8, <1>9, <1>10, <1>11, <1>12, <1>13, <1>14,
       <1>15, <1>16, <1>17, <1>18, <1>19, <1>20 DEF Next, Handler, HandlerFault

\* A delivery that was not resent counts at most MaxAttempts attempts and one more for
\* every graceful shutdown: crashes, failed commits, a row that is tried again after it
\* failed for good and results swapped between handlers included.
THEOREM AttemptLimitHolds == Spec => []AttemptLimit
<1>1. Init => Budget
    BY TaskFields DEF Init, Budget
<1>2. IInv /\ Budget /\ [Next]_vars => Budget'
    BY BudgetStep
<1>3. IInv /\ Budget => AttemptLimit
    <2> SUFFICES ASSUME IInv, Budget, NEW d \in Delivery, sends[d] = 1
                 PROVE  delivery[d].count <= MaxAttempts + shutdowns
        BY DEF AttemptLimit
    <2>1. <<d, 1>> \in Task
        BY BoundAssumption DEF Task
    <2>2. delivery[d].count <= retried[<<d, 1>>] + 1 + shutdowns
        BY <2>1 DEF Budget
    <2>3. /\ retried[<<d, 1>>] \in 0..MaxAttempts - 1
          /\ delivery[d].count \in Nat /\ shutdowns \in Nat
        BY <2>1, BoundAssumption DEF IInv, TypeInv, TypeOK
    <2>. QED
        BY <2>2, <2>3, BoundAssumption
<1>. QED
    BY <1>1, <1>2, <1>3, IInvariant, PTL DEF Spec

--------------------------------------------------------------------------------
(* POSTs and their rows: while a handler has its POST behind it and its    *)
(* commit ahead, one POST of its delivery has no row yet.                  *)

InFlight(d) == IF \E t \in Task : t[1] = d /\ pc[t] = "record" THEN 1 ELSE 0

PostInv == \A d \in Delivery : posts[d] <= attempts[d] + unrecorded[d] + InFlight(d)

\* Rows of which no POST is recorded or forgotten.
LEMMA QuietPosts ==
    ASSUME IInv, PostInv, UNCHANGED <<posts, attempts, unrecorded>>,
           \A t \in Task : pc[t] = "record" => pc'[t] = "record"
    PROVE  PostInv'
BY DEF PostInv, InFlight, IInv, TypeInv, TypeOK

\* The handler that leaves the phase "record" has its row, or its run counts as lost.
LEMMA EndOfRecord ==
    ASSUME IInv, PostInv, NEW t \in Task, pc[t] = "record", NEW p, GoTo(t, p),
           UNCHANGED posts,
           \/ /\ attempts' = [attempts EXCEPT ![t[1]] = @ + 1]
              /\ UNCHANGED unrecorded
           \/ /\ unrecorded' = [unrecorded EXCEPT ![t[1]] = @ + 1]
              /\ UNCHANGED attempts
    PROVE  PostInv'
<1>0. t[1] \in Delivery
    BY TaskFields
<1>1. \A d \in Delivery : posts[d] \in Nat /\ attempts[d] \in Nat /\ unrecorded[d] \in Nat
    BY DEF IInv, TypeInv, TypeOK
<1>2. attempts'[t[1]] + unrecorded'[t[1]] = attempts[t[1]] + unrecorded[t[1]] + 1
    BY <1>0, <1>1 DEF IInv, TypeInv, TypeOK
<1>3. \A u \in Task : u # t => pc'[u] = pc[u]
    BY DEF GoTo
<1>4. \A d \in Delivery : d # t[1] =>
         InFlight(d)' = InFlight(d) /\ attempts'[d] + unrecorded'[d] = attempts[d] + unrecorded[d]
    BY <1>1, <1>3 DEF InFlight, IInv, TypeInv, TypeOK
<1>5. InFlight(t[1]) = 1 /\ InFlight(t[1])' \in {0, 1}
    BY DEF InFlight
<1>6. \A d \in Delivery : InFlight(d) \in {0, 1}
    BY DEF InFlight
<1>7. \A d \in Delivery : attempts'[d] \in Nat /\ unrecorded'[d] \in Nat
    BY <1>0, <1>1 DEF IInv, TypeInv, TypeOK
<1>8. ASSUME NEW d \in Delivery PROVE posts'[d] <= attempts'[d] + unrecorded'[d] + InFlight(d)'
    <2>1. posts[d] <= attempts[d] + unrecorded[d] + InFlight(d) /\ posts'[d] = posts[d]
        BY DEF PostInv
    <2>2. CASE d = t[1]
        BY <1>1, <1>2, <1>5, <1>7, <2>1, <2>2
    <2>3. CASE d # t[1]
        BY <1>1, <1>4, <1>6, <1>7, <2>1, <2>3
    <2>. QED
        BY <2>2, <2>3
<1>. QED
    BY <1>8 DEF PostInv

\* Every step keeps PostInv.
LEMMA PostStep ==
    ASSUME IInv, PostInv, [Next]_vars
    PROVE  PostInv'
<1>0. TypeInv /\ LockInv
      /\ \A d \in Delivery : posts[d] \in Nat /\ attempts[d] \in Nat /\ unrecorded[d] \in Nat
    BY DEF IInv, TypeInv, TypeOK
<1>1. ASSUME NEW t \in Task,
             SkipDelivered(t) \/ Load(t) \/ CannotSign(t) \/ Notify(t) \/ NotifyFails(t)
                \/ Return(t)
      PROVE  PostInv'
    <2>1. \A u \in Task : pc[u] = "record" => pc'[u] = "record"
        BY <1>0, <1>1 DEF SkipDelivered, Load, CannotSign, Notify, NotifyFails, Return,
                          Returns, Reset, GoTo, TypeInv, TypeOK
    <2>2. UNCHANGED <<posts, attempts, unrecorded>>
        BY <1>1 DEF SkipDelivered, Load, CannotSign, Notify, NotifyFails, Return, rowVars
    <2>. QED
        BY <2>1, <2>2, QuietPosts
<1>2. ASSUME NEW t \in Task, Post(t)
      PROVE  PostInv'
    <2>1. \A u \in Task : u[1] = t[1] => pc[u] # "record"
        BY <1>0, <1>2, DifferentStores DEF Post, Attempting
    <2>2. /\ posts' = [posts EXCEPT ![t[1]] = posts[t[1]] + 1] /\ UNCHANGED <<attempts, unrecorded>>
          /\ pc'[t] = "record" /\ \A u \in Task : u # t => pc'[u] = pc[u]
        BY <1>0, <1>2 DEF Post, GoTo, TypeInv, TypeOK
    <2>3. \A d \in Delivery : d # t[1] => posts'[d] = posts[d] /\ InFlight(d)' = InFlight(d)
        BY <2>2 DEF InFlight
    <2>4. posts'[t[1]] = posts[t[1]] + 1 /\ InFlight(t[1]) = 0 /\ InFlight(t[1])' = 1
        BY <1>0, <2>1, <2>2, TaskFields DEF InFlight, TypeInv, TypeOK
    <2>. QED
        BY <1>0, <2>2, <2>3, <2>4, TaskFields DEF PostInv
<1>3. ASSUME NEW t \in Task, Record(t) \/ CommitAnswerLost(t)
      PROVE  PostInv'
    <2>1. pc[t] = "record" /\ WriteAttempt(t) /\ (GoTo(t, "return") \/ GoTo(t, "notify"))
        BY <1>3 DEF Record, CommitAnswerLost, Returns
    <2>. QED
        BY <2>1, EndOfRecord DEF WriteAttempt
<1>4. ASSUME NEW t \in Task, RecordFails(t) \/ HandlerAborts(t)
      PROVE  PostInv'
    <2>1. pc[t] = "record" /\ Rollback(t)
        BY <1>4 DEF RecordFails, HandlerAborts, Deadlocked
    <2>. QED
        BY <2>1, EndOfRecord DEF Rollback, Lose, Returns
<1>5. ASSUME NEW t \in Task, LoadFails(t)
      PROVE  PostInv'
    <2>1. \A d \in Delivery : InFlight(d)' = InFlight(d)
        BY <1>0, <1>5 DEF LoadFails, Returns, GoTo, InFlight, TypeInv, TypeOK
    <2>2. UNCHANGED <<posts, attempts>>
          /\ \A d \in Delivery : unrecorded'[d] \in {unrecorded[d], unrecorded[d] + 1}
        BY <1>0, <1>5, TaskFields DEF LoadFails, Lose, TypeInv, TypeOK
    <2>3. \A d \in Delivery : InFlight(d) \in {0, 1}
        BY DEF InFlight
    <2>. QED
        BY <1>0, <2>1, <2>2, <2>3 DEF PostInv
<1>6. ASSUME NEW d \in Delivery, CreateDelivery(d) \/ Resend(d)
      PROVE  PostInv'
    <2>1. /\ posts' = [posts EXCEPT ![d] = 0] /\ attempts' = [attempts EXCEPT ![d] = 0]
          /\ unrecorded' = [unrecorded EXCEPT ![d] = 0] /\ pc' = pc
        BY <1>6 DEF CreateDelivery, Resend, StartSend, handlerVars
    <2>. QED
        BY <1>0, <2>1 DEF PostInv, InFlight, TypeInv, TypeOK
<1>7. ASSUME NEW t \in Task,
             Enqueue(t) \/ EnqueueFails(t) \/ Dequeue(t) \/ RecoverLease(t)
      PROVE  PostInv'
    <2>1. \A u \in Task : pc[u] = "record" => pc'[u] = "record"
        BY <1>0, <1>7 DEF Enqueue, EnqueueFails, Dequeue, RecoverLease, GoTo, handlerVars,
                          TypeInv, TypeOK, LockInv, HandlerHasTask
    <2>2. UNCHANGED <<posts, attempts, unrecorded>>
        BY <1>7 DEF Enqueue, EnqueueFails, Dequeue, RecoverLease, rowVars
    <2>. QED
        BY <2>1, <2>2, QuietPosts
<1>8. CASE Crash \/ Shutdown
    <2>1. UNCHANGED <<posts, attempts>> /\ \A t \in Task : pc'[t] = "idle"
        BY <1>0, <1>8 DEF Crash, Shutdown, StopHandlers
    <2>2. \A d \in Delivery : unrecorded'[d] \in Nat /\ unrecorded'[d] >= unrecorded[d] + InFlight(d)
        BY <1>0, <1>8 DEF Crash, Shutdown, StopHandlers, InFlight, InTransaction
    <2>3. \A d \in Delivery : InFlight(d)' = 0 /\ InFlight(d) \in {0, 1}
        BY <2>1 DEF InFlight
    <2>. QED
        BY <1>0, <2>1, <2>2, <2>3 DEF PostInv
<1>9. ASSUME (\E d \in Delivery : LockTransaction(d) \/ NotificationFails(d)) \/ UNCHANGED vars
      PROVE  PostInv'
    BY <1>9, QuietPosts DEF LockTransaction, NotificationFails, vars, rowVars, handlerVars
<1>. QED
    BY <1>1, <1>2, <1>3, <1>4, <1>5, <1>6, <1>7, <1>8, <1>9 DEF Next, Handler, HandlerFault

\* Every POST has its row, except for one for every run of the delivery that was rolled
\* back, for any number of deliveries, sends and worker slots.
THEOREM PostsRecordedHolds == Spec => []PostsRecorded
<1>1. Init => PostInv
    BY DEF Init, PostInv, InFlight
<1>2. IInv /\ PostInv /\ [Next]_vars => PostInv'
    BY PostStep
<1>3. IInv /\ PostInv => PostsRecorded
    BY DEF PostInv, PostsRecorded, InFlight, IInv, TypeInv, TypeOK
<1>. QED
    BY <1>1, <1>2, <1>3, IInvariant, PTL DEF Spec

--------------------------------------------------------------------------------
(* Orphans, as long as what asynq is told of a task is what became of it.   *)
(* The retries that the task of the last send has spent are attempts the    *)
(* row has counted, so the task is archived no earlier than the row fails   *)
(* for good; and no task of a row that is not settled ends, but for one     *)
(* whose handler has settled the row itself.                                *)

\* A row that is tried again has attempts left.
AttemptsLeft == \A d \in Delivery : Unsettled(d) => delivery[d].count < MaxAttempts

\* A task that asynq was not given has not been retried.
FreshTasks == \A t \in Task : task[t] \in {"none", "owed", "lost"} => retried[t] = 0

\* The handler has settled the row, and its task is about to be deleted.
Ends(t) == pc[t] = "notify" \/ (pc[t] = "return" /\ err = "nil")

\* A task that may still be run, or archived, or was never enqueued.
Carries(t) == t[2] <= sends[t[1]] /\ task[t] \notin {"none", "done"} /\ ~Ends(t)

Carried(d) == \E t \in Task : t[1] = d /\ Carries(t)

\* What the state of the newest task says of the attempts the row has counted.
Accounts(t) ==
    t[2] = sends[t[1]] /\ delivery[t[1]].status # "success" /\ unrecorded[t[1]] = 0 =>
        /\ task[t] # "none"
        /\ task[t] \in {"queued", "retry"} \/ pc[t] \in {"begin", "post", "record"}
              => retried[t] <= delivery[t[1]].count
        /\ pc[t] \in {"notify", "return"} \/ (task[t] = "active" /\ pc[t] = "idle")
              => retried[t] + 1 <= delivery[t[1]].count
        /\ task[t] = "archived" => delivery[t[1]].count >= MaxAttempts

OrphanInv ==
    /\ \A d \in Delivery : sends[d] = 0 => delivery[d].status = "none"
    /\ AttemptsLeft
    /\ FreshTasks
    /\ \A d \in Delivery : Unsettled(d) => Carried(d)
    /\ \A t \in Task : Accounts(t)

\* The row after an attempt is written.
LEMMA WrittenRow ==
    ASSUME IInv, NEW t \in Task, pc[t] = "record", WriteAttempt(t)
    PROVE  /\ delivery'[t[1]].status = NewStatus(t)
           /\ delivery'[t[1]].count = delivery[t[1]].count + 1
           /\ \A d \in Delivery : d # t[1] => delivery'[d] = delivery[d]
           /\ NewStatus(t) = "retrying" => delivery'[t[1]].count < MaxAttempts
<1>1. delivery' = [delivery EXCEPT ![t[1]] = [status |-> NewStatus(t), count |-> attempt[t]]]
    BY DEF WriteAttempt
<1>2. attempt[t] = delivery[t[1]].count + 1 /\ attempt[t] \in Nat
    BY DEF IInv, LockInv, ReadIsCurrent, Attempting, TypeInv, TypeOK
<1>3. NewStatus(t) = "retrying" => attempt[t] < MaxAttempts
    BY <1>2, BoundAssumption DEF NewStatus, FinalFailure
<1>. QED
    BY <1>1, <1>2, <1>3, TaskFields DEF IInv, TypeInv, TypeOK

\* The first state satisfies OrphanInv.
LEMMA OrphanInit == Init => OrphanInv
BY TaskFields DEF Init, OrphanInv, AttemptsLeft, FreshTasks, Accounts, Unsettled

\* Steps on one delivery leave the accounts of the others as they were.
LEMMA AccountsElsewhere ==
    ASSUME OrphanInv, NEW d \in Delivery,
           \A e \in Delivery : e # d =>
              UNCHANGED <<delivery[e], sends[e], unrecorded[e]>>,
           \A u \in Task : u[1] # d => UNCHANGED <<task[u], retried[u], pc[u]>>,
           \A u \in Task : u[1] = d => Accounts(u)'
    PROVE  \A u \in Task : Accounts(u)'
<1> SUFFICES ASSUME NEW u \in Task, u[1] # d
             PROVE  Accounts(u)'
    OBVIOUS
<1>1. Accounts(u) /\ u[1] \in Delivery
    BY TaskFields DEF OrphanInv
<1>2. UNCHANGED <<delivery[u[1]], sends[u[1]], unrecorded[u[1]], task[u], retried[u], pc[u]>>
    BY <1>1
<1>. QED
    BY <1>1, <1>2 DEF Accounts

\* Steps of the handler of t leave the tasks of the others what they are: the result it
\* stores is not theirs.
LEMMA CarriesElsewhere ==
    ASSUME NEW t \in Task, ResultsApart',
           UNCHANGED err \/ pc'[t] = "return",
           NEW u \in Task, u # t, UNCHANGED <<task[u], pc[u], sends[u[1]]>>, Carries(u)
    PROVE  Carries(u)'
<1>1. pc'[t] = "return" => pc'[u] # "return"
    BY DEF ResultsApart
<1>. QED
    BY <1>1 DEF Carries, Ends

\* A new send has a fresh task, and every handler of the delivery belongs to an earlier one.
LEMMA OrphanSend ==
    ASSUME IInv, OrphanInv, NEW d \in Delivery, sends[d] < MaxSends, StartSend(d)
    PROVE  OrphanInv'
<1> USE DEF IInv, TypeInv, TypeOK, handlerVars
<1>0. PICK new \in Task :
           new = <<d, sends[d] + 1>> /\ task[new] = "none" /\ pc[new] = "idle" /\ retried[new] = 0
    <2>1. <<d, sends[d] + 1>> \in Task
        BY TaskOfSend
    <2>2. task[<<d, sends[d] + 1>>] = "none"
        BY <2>1 DEF LockInv, TaskWasSent
    <2>. QED
        BY <2>1, <2>2 DEF LockInv, HandlerHasTask, OrphanInv, FreshTasks
<1>1. /\ delivery'[d] = [status |-> "pending", count |-> 0] /\ sends'[d] = sends[d] + 1
      /\ \A e \in Delivery : e # d => UNCHANGED <<delivery[e], sends[e], unrecorded[e]>>
    BY DEF StartSend
<1>2. task'[new] = "owed" /\ \A u \in Task : u # new => task'[u] = task[u]
    BY <1>0 DEF StartSend
<1>3. UNCHANGED <<pc, retried, err>>
    BY DEF StartSend
<1>4. \A u \in Task : u[1] = d /\ u[2] = sends'[u[1]] => u = new
    BY <1>0, <1>1 DEF Task
<1>5. \A e \in Delivery : sends'[e] = 0 => delivery'[e].status = "none"
    BY <1>1 DEF OrphanInv
<1>6. AttemptsLeft'
    BY <1>1, BoundAssumption DEF OrphanInv, AttemptsLeft, Unsettled
<1>7. FreshTasks'
    BY <1>0, <1>2, <1>3 DEF OrphanInv, FreshTasks
<1>8. ASSUME NEW e \in Delivery, Unsettled(e)'
      PROVE  Carried(e)'
    <2>1. CASE e = d
        <3>1. Carries(new)'
            BY <1>0, <1>1, <1>2, <1>3 DEF Carries, Ends
        <3>. QED
            BY <1>0, <2>1, <3>1 DEF Carried
    <2>2. CASE e # d
        <3>1. PICK u \in Task : u[1] = e /\ Carries(u)
            BY <1>1, <1>8, <2>2 DEF OrphanInv, Unsettled, Carried
        <3>2. Carries(u)'
            BY <1>1, <1>2, <1>3, <2>2, <3>1 DEF Carries, Ends
        <3>. QED
            BY <3>1, <3>2 DEF Carried
    <2>. QED
        BY <2>1, <2>2
<1>9. \A u \in Task : Accounts(u)'
    <2>1. ASSUME NEW u \in Task, u[1] = d PROVE Accounts(u)'
        <3>1. CASE u = new
            BY <1>0, <1>1, <1>2, <1>3, <3>1 DEF Accounts
        <3>2. CASE u # new
            BY <1>4, <2>1, <3>2 DEF Accounts
        <3>. QED
            BY <3>1, <3>2
    <2>2. \A u \in Task : u[1] # d => UNCHANGED <<task[u], retried[u], pc[u]>>
        <3>1. new[1] = d
            BY <1>0
        <3>. QED
            BY <1>2, <1>3, <3>1
    <2>. QED
        BY <1>1, <2>1, <2>2, AccountsElsewhere
<1>. QED
    BY <1>5, <1>6, <1>7, <1>8, <1>9 DEF OrphanInv

\* Steps of asynq or of a handler that leave the rows alone: what is left to show is
\* what becomes of the task of t and of its accounts.
LEMMA OrphanOutside ==
    ASSUME IInv, OrphanInv, ResultsApart', NEW t \in Task,
           UNCHANGED <<delivery, sends>>,
           \A e \in Delivery : e # t[1] => UNCHANGED unrecorded[e],
           unrecorded'[t[1]] \in Nat, unrecorded'[t[1]] >= unrecorded[t[1]],
           \A u \in Task : u # t => UNCHANGED <<task[u], retried[u], pc[u]>>,
           UNCHANGED err \/ pc'[t] = "return",
           task'[t] \in {"none", "owed", "lost"} => retried'[t] = 0,
           Carries(t) => Carries(t)' \/ Settled(t[1]),
           Accounts(t)'
    PROVE  OrphanInv'
<1> USE DEF IInv, TypeInv, TypeOK
<1>1. \A e \in Delivery : sends'[e] = 0 => delivery'[e].status = "none"
    BY DEF OrphanInv
<1>2. AttemptsLeft'
    BY DEF OrphanInv, AttemptsLeft, Unsettled
<1>3. FreshTasks'
    BY DEF OrphanInv, FreshTasks
<1>4. ASSUME NEW e \in Delivery, Unsettled(e)'
      PROVE  Carried(e)'
    <2>1. Unsettled(e) /\ ~Settled(e)
        BY <1>4 DEF Unsettled, Settled
    <2>2. PICK u \in Task : u[1] = e /\ Carries(u)
        BY <2>1 DEF OrphanInv, Carried
    <2>3. Carries(u)'
        <3>1. CASE u = t
            BY <2>1, <2>2, <3>1
        <3>2. CASE u # t
            BY <2>2, <3>2, CarriesElsewhere
        <3>. QED
            BY <3>1, <3>2
    <2>. QED
        BY <2>2, <2>3 DEF Carried
<1>5. ASSUME NEW u \in Task, u # t, u[1] = t[1]
      PROVE  Accounts(u)'
    <2>1. Accounts(u) /\ u[1] \in Delivery
        BY TaskFields DEF OrphanInv
    <2>2. UNCHANGED <<task[u], retried[u], pc[u]>> /\ unrecorded[t[1]] \in Nat
        BY <1>5, <2>1
    <2>3. unrecorded'[u[1]] = 0 => unrecorded[u[1]] = 0
        BY <1>5, <2>2
    <2>. QED
        BY <2>1, <2>2, <2>3 DEF Accounts
<1>6. \A u \in Task : Accounts(u)'
    <2>1. \A u \in Task : u[1] = t[1] => Accounts(u)'
        BY <1>5
    <2>2. \A u \in Task : u[1] # t[1] => UNCHANGED <<task[u], retried[u], pc[u]>>
        OBVIOUS
    <2>3. \A e \in Delivery : e # t[1] => UNCHANGED <<delivery[e], sends[e], unrecorded[e]>>
        OBVIOUS
    <2>. QED
        BY <2>1, <2>2, <2>3, AccountsElsewhere, TaskFields
<1>. QED
    BY <1>1, <1>2, <1>3, <1>4, <1>6 DEF OrphanInv

\* A run that ends costs a retry, which the row has counted.
LEMMA OrphanRetry ==
    ASSUME IInv, OrphanInv, ResultsApart', NEW t \in Task, task[t] = "active", RetryOrArchive(t),
           UNCHANGED <<delivery, sends, unrecorded, err>>,
           pc[t] \in {"return", "idle"}, pc'[t] = "idle",
           \A u \in Task : u # t => pc'[u] = pc[u]
    PROVE  OrphanInv'
<1> USE DEF IInv, TypeInv, TypeOK
<1>1. /\ task'[t] \in {"retry", "archived"}
      /\ \A u \in Task : u # t => UNCHANGED <<task[u], retried[u], pc[u]>>
    BY DEF RetryOrArchive
<1>2. Accounts(t)'
    <2>1. Accounts(t) /\ t[1] \in Delivery
        BY TaskFields DEF OrphanInv
    <2>2. delivery[t[1]].count \in Nat /\ retried[t] \in Nat /\ MaxAttempts \in Nat
        BY BoundAssumption, TaskFields
    <2>3. \/ task'[t] = "retry" /\ retried'[t] = retried[t] + 1
          \/ task'[t] = "archived" /\ retried'[t] = retried[t] /\ retried[t] >= MaxAttempts - 1
        BY DEF RetryOrArchive
    <2>. QED
        BY <2>1, <2>2, <2>3 DEF Accounts
<1>3. unrecorded[t[1]] \in Nat
    BY TaskFields
<1>4. Carries(t) => Carries(t)'
    BY <1>1 DEF Carries, Ends
<1>. QED
    BY <1>1, <1>2, <1>3, <1>4, OrphanOutside

\* The attempt that is written pays for the retry the run may cost, and settles the row
\* or leaves the task to be run again.
LEMMA OrphanWrite ==
    ASSUME IInv, OrphanInv, ResultsApart', NEW t \in Task, pc[t] = "record", WriteAttempt(t),
           \/ GoTo(t, "notify") /\ NewStatus(t) = "failed_permanently" /\ UNCHANGED err
           \/ Returns(t, "nil") /\ NewStatus(t) = "success"
           \/ Returns(t, "error")
    PROVE  OrphanInv'
<1> USE DEF IInv, TypeInv, TypeOK, queueVars
<1>0. t[1] \in Delivery /\ t[2] <= sends[t[1]] /\ task[t] = "active"
    BY TaskFields DEF LockInv, HandlerHasTask, TaskWasSent
<1>1. UNCHANGED <<sends, unrecorded, task, retried>>
    BY DEF WriteAttempt
<1>2. /\ delivery'[t[1]].status = NewStatus(t)
      /\ delivery'[t[1]].count = delivery[t[1]].count + 1
      /\ \A e \in Delivery : e # t[1] => delivery'[e] = delivery[e]
      /\ NewStatus(t) = "retrying" => delivery'[t[1]].count < MaxAttempts
    BY WrittenRow
<1>3. pc'[t] \in {"notify", "return"} /\ \A u \in Task : u # t => pc'[u] = pc[u]
    BY DEF Returns, GoTo
<1>4. \A e \in Delivery : sends'[e] = 0 => delivery'[e].status = "none"
    <2>1. sends[t[1]] # 0
        BY <1>0, TaskFields
    <2>. QED
        BY <1>1, <1>2, <2>1 DEF OrphanInv
<1>5. AttemptsLeft'
    BY <1>2, NewStatusValues DEF OrphanInv, AttemptsLeft, Unsettled
<1>6. FreshTasks'
    BY <1>1 DEF OrphanInv, FreshTasks
<1>7. ASSUME NEW e \in Delivery, Unsettled(e)'
      PROVE  Carried(e)'
    <2>1. CASE e = t[1]
        <3>1. NewStatus(t) \notin {"success", "failed_permanently"}
            BY <1>2, <1>7, <2>1 DEF Unsettled
        <3>2. pc'[t] = "return" /\ err' = "error"
            BY <3>1 DEF Returns, GoTo
        <3>. QED
            BY <1>0, <1>1, <2>1, <3>2 DEF Carried, Carries, Ends
    <2>2. CASE e # t[1]
        <3>1. PICK u \in Task : u[1] = e /\ Carries(u)
            BY <1>2, <1>7, <2>2 DEF OrphanInv, Unsettled, Carried
        <3>2. u # t /\ UNCHANGED <<task[u], pc[u], sends[u[1]]>>
            BY <1>1, <1>3, <2>2, <3>1
        <3>3. UNCHANGED err \/ pc'[t] = "return"
            BY DEF Returns, GoTo
        <3>4. Carries(u)'
            BY <3>1, <3>2, <3>3, CarriesElsewhere
        <3>. QED
            BY <3>1, <3>4 DEF Carried
    <2>. QED
        BY <2>1, <2>2
<1>8. ASSUME NEW u \in Task, u[1] = t[1]
      PROVE  Accounts(u)'
    <2>1. Accounts(u) /\ delivery[u[1]].status # "success"
        BY <1>0, <1>8 DEF OrphanInv, LockInv, ReadIsCurrent, Attempting
    <2>2. delivery[u[1]].count \in Nat /\ retried[u] \in Nat /\ MaxAttempts \in Nat
        BY BoundAssumption, TaskFields
    <2>3. CASE u = t
        BY <1>0, <1>1, <1>2, <1>3, <2>1, <2>2, <2>3 DEF Accounts
    <2>4. CASE u # t
        BY <1>0, <1>1, <1>2, <1>3, <1>8, <2>1, <2>2, <2>4 DEF Accounts
    <2>. QED
        BY <2>3, <2>4
<1>9. \A u \in Task : Accounts(u)'
    <2>1. \A e \in Delivery : e # t[1] => UNCHANGED <<delivery[e], sends[e], unrecorded[e]>>
        BY <1>1, <1>2
    <2>2. \A u \in Task : u[1] # t[1] => UNCHANGED <<task[u], retried[u], pc[u]>>
        BY <1>1, <1>3
    <2>. QED
        BY <1>0, <1>8, <2>1, <2>2, AccountsElsewhere
<1>. QED
    BY <1>4, <1>5, <1>6, <1>7, <1>9 DEF OrphanInv

\* A worker that stops in the middle of a transaction disturbs the delivery; later its
\* attempt is counted already.
LEMMA OrphanStop ==
    ASSUME IInv, OrphanInv, StopHandlers, UNCHANGED retried,
           \/ UNCHANGED task
           \/ task' = [t \in Task |-> IF t \in Running THEN "queued" ELSE task[t]]
    PROVE  OrphanInv'
<1> USE DEF IInv, TypeInv, TypeOK
<1>1. UNCHANGED <<delivery, sends>> /\ \A t \in Task : pc'[t] = "idle"
    BY DEF StopHandlers
<1>2. \A t \in Task : task'[t] = task[t] \/ (pc[t] # "idle" /\ task'[t] = "queued")
    BY DEF Running
<1>3. \A t \in Task : pc[t] # "idle" => task[t] = "active"
    BY DEF LockInv, HandlerHasTask
<1>4. ASSUME NEW d \in Delivery, Unsettled(d)'
      PROVE  Carried(d)'
    <2>1. PICK t \in Task : t[1] = d /\ Carries(t)
        BY <1>1, <1>4 DEF OrphanInv, Unsettled, Carried
    <2>2. Carries(t)'
        BY <1>1, <1>2, <2>1 DEF Carries, Ends
    <2>. QED
        BY <2>1, <2>2 DEF Carried
<1>5. AttemptsLeft' /\ \A e \in Delivery : sends'[e] = 0 => delivery'[e].status = "none"
    BY <1>1 DEF OrphanInv, AttemptsLeft, Unsettled
<1>6. FreshTasks'
    BY <1>2, <1>3 DEF OrphanInv, FreshTasks
<1>7. ASSUME NEW t \in Task
      PROVE  Accounts(t)'
    <2>1. Accounts(t) /\ t[1] \in Delivery
        BY TaskFields DEF OrphanInv
    <2>2. delivery[t[1]].count \in Nat /\ retried[t] \in Nat /\ unrecorded[t[1]] \in Nat
        BY <2>1
    <2>3. unrecorded'[t[1]] = 0 => unrecorded[t[1]] = 0 /\ ~InTransaction(t)
        BY <2>1, <2>2 DEF StopHandlers
    <2>4. ~InTransaction(t) => pc[t] \in {"idle", "notify", "return"}
        BY DEF InTransaction, Phase
    <2>. QED
        BY <1>1, <1>2, <1>3, <2>1, <2>2, <2>3, <2>4 DEF Accounts
<1>. QED
    BY <1>4, <1>5, <1>6, <1>7 DEF OrphanInv

\* Every step keeps OrphanInv.
LEMMA OrphanStep ==
    ASSUME IInv, OrphanInv, ResultsApart', [Next]_vars
    PROVE  OrphanInv'
<1> USE TaskFields
        DEF IInv, TypeInv, TypeOK, rowVars, queueVars, handlerVars, budgetVars
<1>0. /\ \A t \in Task : Accounts(t)
      /\ \A t \in Task : pc[t] # "idle" => task[t] = "active"
    BY DEF OrphanInv, LockInv, HandlerHasTask
<1>1. ASSUME NEW d \in Delivery, CreateDelivery(d) \/ Resend(d)
      PROVE  OrphanInv'
    <2>1. sends[d] < MaxSends /\ StartSend(d)
        BY <1>1, BoundAssumption DEF CreateDelivery, Resend, Unsent
    <2>. QED
        BY <2>1, OrphanSend
<1>2. ASSUME NEW t \in Task, Enqueue(t) \/ EnqueueFails(t)
      PROVE  OrphanInv'
    <2>1. /\ task[t] = "owed" /\ task'[t] \in {"queued", "lost"} /\ pc[t] = "idle"
          /\ \A u \in Task : u # t => task'[u] = task[u]
          /\ UNCHANGED <<delivery, sends, unrecorded, retried, pc, err>>
        BY <1>0, <1>2 DEF Enqueue, EnqueueFails
    <2>2. retried[t] = 0 /\ delivery[t[1]].count \in Nat
        BY <2>1 DEF OrphanInv, FreshTasks
    <2>3. Accounts(t)'
        BY <2>1, <2>2 DEF Accounts
    <2>4. Carries(t) => Carries(t)'
        BY <2>1 DEF Carries, Ends
    <2>5. unrecorded'[t[1]] \in Nat /\ unrecorded'[t[1]] >= unrecorded[t[1]]
        BY <2>1
    <2>6. \A u \in Task : u # t => UNCHANGED <<task[u], retried[u], pc[u]>>
        BY <2>1
    <2>. QED
        BY <2>1, <2>2, <2>3, <2>4, <2>5, <2>6, OrphanOutside
<1>3. ASSUME NEW t \in Task, Dequeue(t)
      PROVE  OrphanInv'
    <2>1. /\ task[t] \in {"queued", "retry"} /\ task'[t] = "active" /\ pc'[t] = "begin"
          /\ \A u \in Task : u # t => UNCHANGED <<task[u], pc[u]>>
          /\ UNCHANGED <<delivery, sends, unrecorded, retried, err>>
        BY <1>3 DEF Dequeue, GoTo
    <2>2. Accounts(t)'
        BY <1>0, <2>1 DEF Accounts
    <2>3. Carries(t) => Carries(t)'
        BY <2>1 DEF Carries, Ends
    <2>. QED
        BY <2>1, <2>2, <2>3, OrphanOutside
<1>4. ASSUME NEW t \in Task, RecoverLease(t)
      PROVE  OrphanInv'
    BY <1>4, OrphanRetry DEF RecoverLease
<1>5. ASSUME NEW t \in Task, SkipDelivered(t)
      PROVE  OrphanInv'
    <2>1. /\ delivery[t[1]].status = "success" /\ pc[t] = "begin" /\ pc'[t] = "return"
          /\ \A u \in Task : u # t => pc'[u] = pc[u]
          /\ UNCHANGED <<delivery, sends, unrecorded, task, retried>>
        BY <1>5 DEF SkipDelivered, Returns, GoTo
    <2>2. Accounts(t)' /\ Settled(t[1])
        BY <2>1 DEF Accounts, Settled
    <2>3. unrecorded'[t[1]] \in Nat /\ unrecorded'[t[1]] >= unrecorded[t[1]]
        BY <2>1
    <2>4. task'[t] \in {"none", "owed", "lost"} => retried'[t] = 0
        BY <2>1 DEF OrphanInv, FreshTasks
    <2>. QED
        BY <2>1, <2>2, <2>3, <2>4, OrphanOutside
<1>6. ASSUME NEW t \in Task, LoadFails(t) \/ RecordFails(t) \/ HandlerAborts(t)
      PROVE  OrphanInv'
    <2>1. /\ pc[t] \in {"begin", "record"} /\ pc'[t] = "return" /\ err' = "error"
          /\ \A u \in Task : u # t => pc'[u] = pc[u]
          /\ UNCHANGED <<delivery, sends, task, retried>>
        BY <1>6 DEF LoadFails, RecordFails, HandlerAborts, Deadlocked, Rollback, Returns, GoTo
    <2>2. /\ unrecorded'[t[1]] = unrecorded[t[1]] + 1
          /\ \A e \in Delivery : e # t[1] => UNCHANGED unrecorded[e]
        BY <1>6 DEF LoadFails, RecordFails, HandlerAborts, Rollback, Lose
    <2>3. /\ unrecorded[t[1]] \in Nat
          /\ unrecorded'[t[1]] \in Nat /\ unrecorded'[t[1]] >= unrecorded[t[1]]
        BY <2>2
    <2>4. Accounts(t)'
        BY <2>1, <2>2, <2>3 DEF Accounts
    <2>5. Carries(t) => Carries(t)'
        BY <2>1 DEF Carries, Ends
    <2>6. task'[t] \in {"none", "owed", "lost"} => retried'[t] = 0
        BY <2>1 DEF OrphanInv, FreshTasks
    <2>. QED
        BY <2>1, <2>2, <2>3, <2>4, <2>5, <2>6, OrphanOutside
<1>7. ASSUME NEW t \in Task, Load(t) \/ Post(t) \/ CannotSign(t)
      PROVE  OrphanInv'
    <2>1. /\ pc[t] \in {"begin", "post"} /\ pc'[t] \in {"post", "record"}
          /\ \A u \in Task : u # t => pc'[u] = pc[u]
          /\ UNCHANGED <<delivery, sends, unrecorded, task, retried, err>>
        BY <1>7 DEF Load, Post, CannotSign, GoTo
    <2>2. Accounts(t)' /\ (Carries(t) => Carries(t)')
        BY <1>0, <2>1 DEF Accounts, Carries, Ends
    <2>. QED
        BY <1>0, <2>1, <2>2, OrphanOutside
<1>8. ASSUME NEW t \in Task, Record(t) \/ CommitAnswerLost(t)
      PROVE  OrphanInv'
    <2>1. pc[t] = "record" /\ WriteAttempt(t)
        BY <1>8 DEF Record, CommitAnswerLost
    <2>. QED
        BY <1>8, <2>1, OrphanWrite DEF Record, CommitAnswerLost
<1>9. ASSUME NEW t \in Task, Notify(t) \/ NotifyFails(t)
      PROVE  OrphanInv'
    <2>1. /\ pc[t] = "notify" /\ pc'[t] = "return"
          /\ \A u \in Task : u # t => pc'[u] = pc[u]
          /\ UNCHANGED <<delivery, sends, unrecorded, task, retried>>
        BY <1>9 DEF Notify, NotifyFails, Returns, GoTo
    <2>2. Accounts(t)' /\ ~Carries(t)
        BY <1>0, <2>1 DEF Accounts, Carries, Ends
    <2>. QED
        BY <1>0, <2>1, <2>2, OrphanOutside
<1>10. ASSUME NEW t \in Task, Return(t)
       PROVE  OrphanInv'
    <2>1. /\ pc[t] = "return" /\ pc'[t] = "idle" /\ task[t] = "active"
          /\ \A u \in Task : u # t => pc'[u] = pc[u]
          /\ UNCHANGED <<delivery, sends, unrecorded, err>>
        BY <1>0, <1>10 DEF Return, Reset, GoTo
    <2>2. CASE RetryOrArchive(t)
        BY <2>1, <2>2, OrphanRetry
    <2>3. CASE err = "nil" /\ task' = [task EXCEPT ![t] = "done"] /\ UNCHANGED retried
        <3>1. task'[t] = "done" /\ \A u \in Task : u # t => task'[u] = task[u]
            BY <2>3
        <3>2. Accounts(t)' /\ ~Carries(t)
            BY <1>0, <2>1, <2>3, <3>1 DEF Accounts, Carries, Ends
        <3>. QED
            BY <1>0, <2>1, <2>3, <3>1, <3>2, OrphanOutside
    <2>. QED
        BY <1>10, <2>2, <2>3 DEF Return
<1>11. CASE Crash \/ Shutdown
    BY <1>11, OrphanStop DEF Crash, Shutdown
<1>12. ASSUME (\E d \in Delivery : LockTransaction(d) \/ NotificationFails(d)) \/ UNCHANGED vars
       PROVE  OrphanInv'
    <2>1. UNCHANGED <<delivery, sends, unrecorded, task, retried, pc, err>>
        BY <1>12 DEF LockTransaction, NotificationFails, vars
    <2>. QED
        BY <2>1 DEF OrphanInv, AttemptsLeft, Unsettled, FreshTasks, Carried, Carries, Ends, Accounts
<1>. QED
    BY <1>1, <1>2, <1>3, <1>4, <1>5, <1>6, <1>7, <1>8, <1>9, <1>10, <1>11, <1>12
       DEF Next, Handler, HandlerFault

\* An undisturbed row that is not settled is carried by its newest task.
LEMMA NewestCarries == ASSUME IInv, OrphanInv PROVE NotOrphaned
<1> SUFFICES ASSUME NEW d \in Delivery, Unsettled(d), ~Disturbed(d), ~NotEnqueued(d)
             PROVE  \E k \in 1..MaxSends :
                       k = sends[d] /\ task[<<d, k>>] \in {"owed", "queued", "active", "retry"}
    BY DEF NotOrphaned
<1> DEFINE k == sends[d]
           t == <<d, k>>
<1>1. k \in 1..MaxSends /\ t \in Task
    BY BoundAssumption DEF IInv, TypeInv, TypeOK, OrphanInv, Unsettled, Task
<1>2. /\ delivery[d].count \in Nat /\ unrecorded[d] = 0 /\ task[t] \in TaskState
      /\ delivery[d].count < MaxAttempts /\ MaxAttempts \in Nat
    BY <1>1, BoundAssumption
       DEF IInv, TypeInv, TypeOK, Disturbed, OrphanInv, AttemptsLeft
<1>3. Accounts(t) /\ t[1] = d /\ t[2] = k
    BY <1>1 DEF OrphanInv
<1>4. task[t] # "done"
    <2>1. PICK u \in Task : u[1] = d /\ Carries(u)
        BY DEF OrphanInv, Carried
    <2>2. u = <<d, u[2]>> /\ u[2] \in 1..MaxSends
        BY <2>1 DEF Task
    <2>3. u[2] < k \/ u[2] = k
        BY <1>1, <2>1, <2>2 DEF Carries
    <2>4. ~(u[2] < k)
        BY <2>1, <2>2 DEF Carries, Disturbed
    <2>. QED
        BY <2>1, <2>2, <2>3, <2>4 DEF Carries
<1>5. task[t] \notin {"none", "lost", "archived"}
    BY <1>1, <1>2, <1>3 DEF Accounts, Unsettled, NotEnqueued
<1>. QED
    BY <1>1, <1>2, <1>4, <1>5 DEF TaskState

\* However many handlers run, no delivery is orphaned as long as none stores its result in
\* err between another's result and its return, for any number of deliveries, attempts,
\* resends and failures: unless a run of it is rolled back or an earlier send's task
\* outlives its send, the retries of its task last as long as its attempts.
THEOREM NotOrphanedHolds == Spec /\ []ResultsApart => []NotOrphaned
<1>1. Init => OrphanInv
    BY OrphanInit
<1>2. IInv /\ OrphanInv /\ ResultsApart' /\ [Next]_vars => OrphanInv'
    BY OrphanStep
<1>3. IInv /\ OrphanInv => NotOrphaned
    BY NewestCarries
<1>. QED
    BY <1>1, <1>2, <1>3, IInvariant, PTL DEF Spec

OneHandler == \A t, u \in Task : pc[t] # "idle" /\ pc[u] # "idle" => t = u

\* With one slot a handler starts only when none runs.
LEMMA NobodyRuns ==
    ASSUME Concurrency = 1, IsFiniteSet(Delivery), Cardinality(Running) < Concurrency
    PROVE  \A t \in Task : pc[t] = "idle"
<1>1. IsFiniteSet(Task)
    <2>1. IsFiniteSet(1..MaxSends)
        BY FS_Interval, BoundAssumption
    <2>. QED
        BY <2>1, FS_Product DEF Task
<1>2. IsFiniteSet(Running)
    BY <1>1, FS_Subset DEF Running
<1>3. Cardinality(Running) = 0
    BY <1>2, FS_CardinalityType
<1>4. Running = {}
    BY <1>2, <1>3, FS_EmptySet
<1>. QED
    BY <1>4 DEF Running

\* With one slot at most one handler runs.
LEMMA OneHandlerStep ==
    ASSUME Concurrency = 1, IsFiniteSet(Delivery), TypeInv, OneHandler, [Next]_vars
    PROVE  OneHandler'
<1> USE DEF TypeInv, TypeOK, OneHandler, handlerVars, GoTo, Returns, Reset
<1>1. ASSUME NEW t \in Task, pc[t] # "idle", NEW p \in Phase, GoTo(t, p)
      PROVE  OneHandler'
    BY <1>1
<1>2. ASSUME NEW t \in Task, Handler(t) \/ HandlerFault(t)
      PROVE  OneHandler'
    BY <1>1, <1>2 DEF Handler, HandlerFault, SkipDelivered, Load, Post, CannotSign, Record,
                      HandlerAborts, Deadlocked, Rollback, Notify, Return, LoadFails,
                      RecordFails, CommitAnswerLost, NotifyFails, Phase
<1>3. ASSUME NEW t \in Task, Dequeue(t)
      PROVE  OneHandler'
    <2>1. \A u \in Task : pc[u] = "idle"
        BY <1>3, NobodyRuns DEF Dequeue
    <2>. QED
        BY <1>3, <2>1 DEF Dequeue
<1>4. ASSUME NEW t \in Task, Enqueue(t) \/ EnqueueFails(t) \/ RecoverLease(t)
      PROVE  OneHandler'
    BY <1>4 DEF Enqueue, EnqueueFails, RecoverLease
<1>5. ASSUME NEW d \in Delivery,
             LockTransaction(d) \/ NotificationFails(d) \/ CreateDelivery(d) \/ Resend(d)
      PROVE  OneHandler'
    BY <1>5 DEF LockTransaction, NotificationFails, CreateDelivery, Resend, StartSend
<1>6. CASE Crash \/ Shutdown \/ UNCHANGED vars
    BY <1>6 DEF Crash, Shutdown, StopHandlers, vars
<1>. QED
    BY <1>2, <1>3, <1>4, <1>5, <1>6 DEF Next

\* A worker with one slot keeps its results apart, so there no delivery is orphaned.
THEOREM NotOrphanedWithOneSlot ==
    ASSUME Concurrency = 1, IsFiniteSet(Delivery)
    PROVE  Spec => []NotOrphaned
<1>1. Init => OneHandler
    BY DEF Init, OneHandler
<1>2. TypeInv /\ OneHandler /\ [Next]_vars => OneHandler'
    BY OneHandlerStep
<1>3. OneHandler => ResultsApart
    BY DEF OneHandler, ResultsApart
<1>4. IInv => TypeInv
    BY DEF IInv
<1>. QED
    BY <1>1, <1>2, <1>3, <1>4, IInvariant, NotOrphanedHolds, PTL DEF Spec
--------------------------------------------------------------------------------
(* Failures for good and their announcement.                                *)

\* A task by which the failure of its delivery can still be announced.
WillTell(t) == pc[t] = "notify" \/ InTransaction(t) \/ task[t] = "queued"

\* A step that leaves the row and the announcements of d alone, and of its tasks those
\* that can tell of its failure.
LEMMA StillTold ==
    ASSUME FailureNotForgotten, NEW d \in Delivery,
           delivery[d].status = "failed_permanently", unrecorded[d] + faults + crashes = 0,
           <<d, sends[d]>> \notin alerted,
           \A t \in Task : t[1] = d /\ WillTell(t) => WillTell(t)'
    PROVE  \E t \in Task : t[1] = d /\ WillTell(t)'
<1>1. PICK t \in Task : t[1] = d /\ WillTell(t)
    BY DEF FailureNotForgotten, WillTell
<1>. QED
    BY <1>1

\* Every step keeps FailureNotForgotten: what ends a handler before its announcement
\* leaves a trace, or puts its task back.
LEMMA ForgottenStep ==
    ASSUME IInv, FailureNotForgotten, [Next]_vars
    PROVE  FailureNotForgotten'
<1> USE TaskFields DEF IInv, TypeInv, TypeOK, rowVars, queueVars, handlerVars, budgetVars
<1> SUFFICES ASSUME NEW d \in Delivery, delivery'[d].status = "failed_permanently",
                    unrecorded'[d] + faults' + crashes' = 0, <<d, sends'[d]>> \notin alerted'
             PROVE  \E t \in Task : t[1] = d /\ WillTell(t)'
    BY DEF FailureNotForgotten, WillTell, InTransaction
<1>0. unrecorded'[d] = 0 /\ faults' = 0 /\ crashes' = 0
    <2>1. TypeInv'
        BY TypeStep
    <2>. QED
        BY <2>1
<1> DEFINE Owed == /\ delivery[d].status = "failed_permanently"
                   /\ unrecorded[d] = 0 /\ faults = 0 /\ crashes = 0
                   /\ <<d, sends[d]>> \notin alerted
<1>1. ASSUME Owed, \A t \in Task : t[1] = d /\ WillTell(t) => WillTell(t)'
      PROVE  \E t \in Task : t[1] = d /\ WillTell(t)'
    BY <1>1, StillTold
<1> HIDE DEF Owed
<1>2. ASSUME NEW e \in Delivery, CreateDelivery(e) \/ Resend(e)
      PROVE  \E t \in Task : t[1] = d /\ WillTell(t)'
    <2>1. StartSend(e)
        BY <1>2 DEF CreateDelivery, Resend
    <2>2. e # d
        BY <2>1 DEF StartSend
    <2>3. Owed
        BY <1>0, <2>1, <2>2 DEF StartSend, Owed
    <2>4. \A t \in Task : t[1] = d => UNCHANGED <<task[t], pc[t]>>
        BY <2>1, <2>2 DEF StartSend
    <2>. QED
        BY <1>1, <2>3, <2>4 DEF WillTell, InTransaction
<1>3. ASSUME NEW t \in Task, Enqueue(t) \/ Dequeue(t) \/ RecoverLease(t) \/ Load(t)
                             \/ Post(t) \/ CannotSign(t)
      PROVE  \E u \in Task : u[1] = d /\ WillTell(u)'
    <2>1. Owed
        BY <1>0, <1>3 DEF Enqueue, Dequeue, RecoverLease, Load, Post, CannotSign, Owed
    <2>2. /\ \A u \in Task : u # t => UNCHANGED <<task[u], pc[u]>>
          /\ WillTell(t) => WillTell(t)'
        BY <1>3 DEF Enqueue, Dequeue, RecoverLease, RetryOrArchive, Load, Post, CannotSign, GoTo,
                    WillTell, InTransaction
    <2>. QED
        BY <1>1, <2>1, <2>2 DEF WillTell, InTransaction
<1>4. ASSUME NEW t \in Task, Record(t)
      PROVE  \E u \in Task : u[1] = d /\ WillTell(u)'
    <2>1. /\ \A e \in Delivery : e # t[1] => delivery'[e] = delivery[e]
          /\ delivery'[t[1]].status = NewStatus(t)
          /\ UNCHANGED <<sends, unrecorded, alerted, task, faults, crashes>>
          /\ NewStatus(t) = "failed_permanently" => pc'[t] = "notify"
          /\ \A u \in Task : u # t => pc'[u] = pc[u]
        BY <1>4, WrittenRow DEF Record, WriteAttempt, Returns, GoTo
    <2>2. CASE t[1] = d
        BY <2>1, <2>2 DEF WillTell
    <2>3. CASE t[1] # d
        <3>1. Owed
            BY <1>0, <2>1, <2>3 DEF Owed
        <3>2. \A u \in Task : u[1] = d => UNCHANGED <<task[u], pc[u]>>
            BY <2>1, <2>3
        <3>. QED
            BY <1>1, <3>1, <3>2 DEF WillTell, InTransaction
    <2>. QED
        BY <2>2, <2>3
<1>5. ASSUME NEW t \in Task, SkipDelivered(t) \/ Notify(t) \/ Return(t) \/ HandlerAborts(t)
      PROVE  \E u \in Task : u[1] = d /\ WillTell(u)'
    <2>1. /\ UNCHANGED <<delivery, sends, faults, crashes>>
          /\ unrecorded'[d] = unrecorded[d] \/ (t[1] = d /\ unrecorded'[d] = unrecorded[d] + 1)
          /\ alerted \subseteq alerted'
          /\ \A u \in Task : u # t => UNCHANGED <<task[u], pc[u]>>
        BY <1>5 DEF SkipDelivered, Notify, Return, RetryOrArchive, Reset, HandlerAborts, Rollback,
                    Lose, Returns, GoTo
    <2>2. unrecorded[d] \in Nat
        OBVIOUS
    <2>3. unrecorded'[d] = unrecorded[d]
        BY <1>0, <2>1, <2>2
    <2>4. Owed
        BY <1>0, <2>1, <2>3 DEF Owed
    <2>5. t[1] = d => ~WillTell(t) \/ WillTell(t)'
        <3> SUFFICES ASSUME t[1] = d PROVE ~WillTell(t) \/ WillTell(t)'
            OBVIOUS
        <3>1. task[t] = "active" \/ pc[t] = "idle"
            BY DEF LockInv, HandlerHasTask
        <3>2. ~SkipDelivered(t) /\ ~Notify(t)
            BY <2>1 DEF SkipDelivered, Notify
        <3>3. ~HandlerAborts(t)
            BY <2>2, <2>3 DEF HandlerAborts, Rollback, Lose
        <3>. QED
            BY <1>5, <3>1, <3>2, <3>3 DEF Return, WillTell, InTransaction
    <2>. QED
        BY <1>1, <2>1, <2>4, <2>5 DEF WillTell, InTransaction
<1>6. CASE Shutdown
    <2>1. Owed
        BY <1>0, <1>6 DEF Shutdown, StopHandlers, Owed
    <2>2. \A t \in Task : WillTell(t) => task'[t] = "queued"
        BY <1>6 DEF Shutdown, Running, WillTell, InTransaction
    <2>. QED
        BY <1>1, <2>1, <2>2 DEF WillTell
<1>7. ~Crash /\ \A t \in Task : ~HandlerFault(t) /\ ~EnqueueFails(t)
    BY <1>0 DEF Crash, HandlerFault, LoadFails, RecordFails, CommitAnswerLost, NotifyFails, Fault,
                EnqueueFails
<1>8. CASE \/ \E e \in Delivery : LockTransaction(e) \/ NotificationFails(e)
           \/ UNCHANGED vars
    <2>1. UNCHANGED <<delivery, sends, unrecorded, alerted, task, pc>>
        BY <1>8 DEF LockTransaction, NotificationFails, vars
    <2>2. faults = 0 /\ crashes = 0
        BY <1>0, <1>8 DEF LockTransaction, NotificationFails, Fault, vars
    <2>3. Owed
        BY <1>0, <2>1, <2>2 DEF Owed
    <2>. QED
        BY <1>1, <2>1, <2>3 DEF WillTell, InTransaction
<1>. QED
    BY <1>2, <1>3, <1>4, <1>5, <1>6, <1>7, <1>8 DEF Next, Handler

\* A failure for good is not forgotten: as long as no call has failed, no worker has died
\* and no run of the delivery was rolled back, it is announced, or somebody is still on the
\* way to announcing it, however many handlers, sends and graceful shutdowns.
THEOREM FailureNotForgottenHolds == Spec => []FailureNotForgotten
<1>1. Init => FailureNotForgotten
    BY DEF Init, FailureNotForgotten
<1>2. IInv /\ FailureNotForgotten /\ [Next]_vars => FailureNotForgotten'
    BY ForgottenStep
<1>. QED
    BY <1>1, <1>2, IInvariant, PTL DEF Spec
================================================================================
