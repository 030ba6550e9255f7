---------------------------- MODULE MidtransWebhook ----------------------------
(***************************************************************************)
(* The notifications of Midtrans and what the API does with them:          *)
(* internal/app/webhook/service.go (Process), and the end of a charge      *)
(* (internal/app/transaction/service.go) that inserts the row they are     *)
(* about.                                                                  *)
(*                                                                         *)
(* Midtrans is external: it moves a payment, sends a notification for every*)
(* move, repeats a notification until it is answered with 200, and may     *)
(* deliver them in any order and more than once.  Several requests are     *)
(* handled at a time; a handler runs in steps: the SELECT ... FOR UPDATE   *)
(* that reads the row, the COMMIT of what it decided from it, and the call *)
(* of Redis that enqueues the delivery for the merchant.                   *)
(*                                                                         *)
(* Left out: requests that are not a notification of Midtrans (invalid     *)
(* payload or signature) touch neither transactions nor deliveries.        *)
(***************************************************************************)
EXTENDS Naturals, Sequences, TransactionStatus

CONSTANTS
    Order,          \* platform_order_id of the charges
    Request,        \* HTTP requests handled at a time
    Payment,        \* statuses of a payment at Midtrans: records status, fraud
    Initial,        \* those with which Midtrans answers a charge
    Moves,          \* [Payment -> SUBSET Payment], the moves Midtrans makes
    Timeless,       \* those whose notification has no time that can be parsed
    HasCallback,    \* orders whose row has a callback_url
    NoRow,          \* no row, no payment, no notification, no holder of a lock
    MaxMoves,       \* bound: moves of one payment
    MaxDuplicates,  \* bound: notifications repeated after their 200
    MaxFaults       \* bound: calls that fail and processes that die

ASSUME PaymentAssumption ==
    /\ Initial \subseteq Payment
    /\ Moves \in [Payment -> SUBSET Payment]
    /\ \A p \in Payment : MapMidtransStatus(p) \in Status \ {"unknown"}
    /\ Timeless \subseteq Payment
ASSUME OrderAssumption == HasCallback \subseteq Order
ASSUME WebhookBoundAssumption ==
    MaxMoves \in Nat \ {0} /\ MaxDuplicates \in Nat /\ MaxFaults \in Nat

\* time is the number of the move, for transaction_time and settlement_time.
Notification == [order : Order, payment : Payment, time : 1..MaxMoves]

Stamped == {"paid", "expired", "cancelled"}
Row     == [status : Status, at : [Stamped -> Nat]]
Event   == [previous : Status, new : Status, delivery : {"none", "owed", "queued", "lost"}]

ASSUME NoRowAssumption == NoRow \notin Row \union Payment \union Notification \union Request

VARIABLES
    payment,    \* [Order -> status of the payment at Midtrans]
    moves,      \* [Order -> moves Midtrans has made]
    response,   \* [Order -> answer to the charge that is not persisted yet]
    trx,        \* [Order -> row of transactions]
    events,     \* [Order -> rows of transaction_events, each with its delivery]
    sent,       \* notifications of Midtrans
    acked,      \* notifications answered with 200
    dropped,    \* notifications answered with 200 because there was no row (history)
    lock,       \* [Order -> request that holds FOR UPDATE on the row]
    pc,         \* where the handler of a request is
    message,    \* the notification of the request
    read,       \* the row as the handler read it
    entry,      \* the event whose delivery the handler has to enqueue
    duplicates, faults

midtransVars == <<payment, moves, sent>>
rowVars      == <<trx, events>>
requestVars  == <<lock, pc, message, read, entry>>
vars == <<midtransVars, response, rowVars, acked, dropped, requestVars, duplicates, faults>>

\* The type of every variable.
TypeOK ==
    /\ payment  \in [Order -> Payment \union {NoRow}]
    /\ moves    \in [Order -> 0..MaxMoves]
    /\ response \in [Order -> Payment \union {NoRow}]
    /\ trx      \in [Order -> Row \union {NoRow}]
    /\ events   \in [Order -> Seq(Event)]
    /\ sent     \subseteq Notification
    /\ acked    \subseteq sent
    /\ dropped  \subseteq acked
    /\ lock     \in [Order -> Request \union {NoRow}]
    /\ pc       \in [Request -> {"idle", "begin", "update", "enqueue"}]
    /\ message  \in [Request -> Notification \union {NoRow}]
    /\ read     \in [Request -> Row \union {NoRow}]
    /\ entry    \in [Request -> Nat]
    /\ duplicates \in 0..MaxDuplicates
    /\ faults     \in 0..MaxFaults

Init ==
    /\ payment  = [o \in Order |-> NoRow]
    /\ moves    = [o \in Order |-> 0]
    /\ response = [o \in Order |-> NoRow]
    /\ trx      = [o \in Order |-> NoRow]
    /\ events   = [o \in Order |-> <<>>]
    /\ sent = {} /\ acked = {} /\ dropped = {}
    /\ lock     = [o \in Order |-> NoRow]
    /\ pc       = [r \in Request |-> "idle"]
    /\ message  = [r \in Request |-> NoRow]
    /\ read     = [r \in Request |-> NoRow]
    /\ entry    = [r \in Request |-> 0]
    /\ duplicates = 0
    /\ faults = 0

--------------------------------------------------------------------------------
(* Midtrans, and the end of the charge.                                    *)

Move(o, p) ==
    /\ moves[o] < MaxMoves
    /\ payment' = [payment EXCEPT ![o] = p]
    /\ moves' = [moves EXCEPT ![o] = @ + 1]
    /\ sent' = sent \union {[order |-> o, payment |-> p, time |-> moves[o] + 1]}

\* The charge call: its answer is on the way to the API.
AcceptCharge(o) ==
    /\ payment[o] = NoRow
    /\ \E p \in Initial :
         /\ Move(o, p)
         /\ response' = [response EXCEPT ![o] = p]
    /\ UNCHANGED <<rowVars, acked, dropped, requestVars, duplicates, faults>>

MovePayment(o) ==
    /\ payment[o] # NoRow
    /\ \E p \in Moves[payment[o]] : Move(o, p)
    /\ UNCHANGED <<response, rowVars, acked, dropped, requestVars, duplicates, faults>>

\* persistSuccessfulChargeTx: the row gets the status of the answer, and no times.
PersistCharge(o) ==
    /\ response[o] # NoRow
    /\ trx' = [trx EXCEPT ![o] = [status |-> MapMidtransStatus(response[o]),
                                  at |-> [s \in Stamped |-> 0]]]
    /\ response' = [response EXCEPT ![o] = NoRow]
    /\ UNCHANGED <<midtransVars, events, acked, dropped, requestVars, duplicates, faults>>

\* The answer is lost (timeout, failed INSERT): no row is ever inserted.
LoseCharge(o) ==
    /\ response[o] # NoRow
    /\ faults < MaxFaults
    /\ faults' = faults + 1
    /\ response' = [response EXCEPT ![o] = NoRow]
    /\ UNCHANGED <<midtransVars, rowVars, acked, dropped, requestVars, duplicates>>

--------------------------------------------------------------------------------
(* Process.                                                                *)

\* A notification that is not answered with 200 is sent again; one that is may still
\* be repeated, for the 200 may not have reached Midtrans.
Receive(r, n) ==
    /\ pc[r] = "idle"
    /\ n \in sent
    /\ \/ n \notin acked /\ UNCHANGED duplicates
       \/ /\ n \in acked
          /\ duplicates < MaxDuplicates
          /\ duplicates' = duplicates + 1
    /\ pc' = [pc EXCEPT ![r] = "begin"]
    /\ message' = [message EXCEPT ![r] = n]
    /\ UNCHANGED <<midtransVars, response, rowVars, acked, dropped, lock, read, entry,
                   faults>>

\* The handler is gone, with the transaction and the row lock it may have.
Finish(r) ==
    /\ pc' = [pc EXCEPT ![r] = "idle"]
    /\ message' = [message EXCEPT ![r] = NoRow]
    /\ read' = [read EXCEPT ![r] = NoRow]
    /\ entry' = [entry EXCEPT ![r] = 0]
    /\ lock' = [o \in Order |-> IF lock[o] = r THEN NoRow ELSE lock[o]]

Acknowledge_Forgotten(r) == acked' = acked

\* The answer 200.
Acknowledge(r) == acked' = acked \union {message[r]}

\* No transaction has the platform_order_id: the webhook is stored as processed.
NotFound(r) ==
    /\ pc[r] = "begin"
    /\ trx[message[r].order] = NoRow
    /\ Acknowledge(r)
    /\ dropped' = dropped \union {message[r]}
    /\ Finish(r)
    /\ UNCHANGED <<midtransVars, response, rowVars, duplicates, faults>>

GetTransactionState_NoLock(r) ==
    /\ pc[r] = "begin"
    /\ trx[message[r].order] # NoRow
    /\ read' = [read EXCEPT ![r] = trx[message[r].order]]
    /\ pc' = [pc EXCEPT ![r] = "update"]
    /\ UNCHANGED <<midtransVars, response, rowVars, acked, dropped, lock, message,
                   entry, duplicates, faults>>

\* getTransactionState: SELECT ... FOR UPDATE.
GetTransactionState(r) ==
    LET o == message[r].order IN
    /\ pc[r] = "begin"
    /\ trx[o] # NoRow
    /\ lock[o] = NoRow
    /\ lock' = [lock EXCEPT ![o] = r]
    /\ read' = [read EXCEPT ![r] = trx[o]]
    /\ pc' = [pc EXCEPT ![r] = "update"]
    /\ UNCHANGED <<midtransVars, response, rowVars, acked, dropped, message, entry,
                   duplicates, faults>>

\* parseMidtransTime of the notification's times: 0 (NULL) when there is none to read.
TimeOf(n) == IF n.payment \in Timeless THEN 0 ELSE n.time

BuildTimestampUpdate_Overwrite(row, s, n) ==
    IF s \in Stamped THEN [row.at EXCEPT ![s] = TimeOf(n)] ELSE row.at

\* buildTimestampUpdateInput and the COALESCE of the UPDATE: only a NULL is replaced.
BuildTimestampUpdate(row, s, n) ==
    IF s \in Stamped /\ row.at[s] = 0 THEN [row.at EXCEPT ![s] = TimeOf(n)] ELSE row.at

\* The row after notification n.
Updated(row, n) ==
    LET s == MapMidtransStatus(n.payment) IN
    IF ShouldApplyStatusUpdate(row.status, s)
    THEN [status |-> s, at |-> BuildTimestampUpdate(row, s, n)] ELSE row

\* UPDATE transactions, INSERT transaction_events and CreateDeliveryTx: also when the
\* notification changes nothing.
Write(r, delivery) ==
    LET o   == message[r].order
        row == Updated(read[r], message[r])
    IN  /\ trx' = [trx EXCEPT ![o] = row]
        /\ events' = [events EXCEPT ![o] = Append(@,
              [previous |-> read[r].status, new |-> row.status,
               delivery |-> IF o \in HasCallback THEN delivery ELSE "none"])]

\* Without a callback_url the request is over with the COMMIT.
Commit(r) ==
    LET o == message[r].order IN
    /\ pc[r] = "update"
    /\ Write(r, "owed")
    /\ \/ /\ o \in HasCallback
          /\ pc' = [pc EXCEPT ![r] = "enqueue"]
          /\ entry' = [entry EXCEPT ![r] = Len(events[o]) + 1]
          /\ lock' = [lock EXCEPT ![o] = NoRow]
          /\ read' = [read EXCEPT ![r] = NoRow]
          /\ UNCHANGED <<acked, message>>
       \/ o \notin HasCallback /\ Acknowledge(r) /\ Finish(r)
    /\ UNCHANGED <<midtransVars, response, dropped, duplicates, faults>>

SetDelivery(r, state) ==
    events' = [events EXCEPT ![message[r].order][entry[r]].delivery = state]

\* The delivery is enqueued after the COMMIT.
Enqueue(r) ==
    /\ pc[r] = "enqueue"
    /\ SetDelivery(r, "queued")
    /\ Acknowledge(r)
    /\ Finish(r)
    /\ UNCHANGED <<midtransVars, response, trx, dropped, duplicates, faults>>

--------------------------------------------------------------------------------
(* Failures.                                                               *)

Fault ==
    /\ faults < MaxFaults
    /\ faults' = faults + 1
    /\ UNCHANGED duplicates

\* A call before the COMMIT fails: the transaction is rolled back, the answer is 500.
RollBack(r) ==
    /\ pc[r] \in {"begin", "update"}
    /\ Fault
    /\ Finish(r)
    /\ UNCHANGED <<midtransVars, response, rowVars, acked, dropped>>

\* The COMMIT took effect but its answer is lost: 500, and no Enqueue.
CommitAnswerLost(r) ==
    /\ pc[r] = "update"
    /\ Fault
    /\ Write(r, "lost")
    /\ Finish(r)
    /\ UNCHANGED <<midtransVars, response, acked, dropped>>

EnqueueFails_Acknowledged(r) ==
    /\ pc[r] = "enqueue"
    /\ Fault
    /\ SetDelivery(r, "lost")
    /\ Acknowledge(r)
    /\ Finish(r)
    /\ UNCHANGED <<midtransVars, response, trx, dropped>>

\* Redis refuses the task: the row stays pending with no task, the answer is 500, and
\* the repeated notification makes a new delivery.
EnqueueFails(r) ==
    /\ pc[r] = "enqueue"
    /\ Fault
    /\ SetDelivery(r, "lost")
    /\ Finish(r)
    /\ UNCHANGED <<midtransVars, response, trx, acked, dropped>>

\* The API process dies: its requests get no answer, its charges no row.
Crash ==
    /\ Fault
    /\ response' = [o \in Order |-> NoRow]
    /\ events' = [o \in Order |-> [i \in DOMAIN events[o] |->
                     IF events[o][i].delivery = "owed"
                     THEN [events[o][i] EXCEPT !.delivery = "lost"] ELSE events[o][i]]]
    /\ lock' = [o \in Order |-> NoRow]
    /\ pc' = [r \in Request |-> "idle"]
    /\ message' = [r \in Request |-> NoRow]
    /\ read' = [r \in Request |-> NoRow]
    /\ entry' = [r \in Request |-> 0]
    /\ UNCHANGED <<midtransVars, trx, acked, dropped>>

--------------------------------------------------------------------------------
Handle(r) == NotFound(r) \/ GetTransactionState(r) \/ Commit(r) \/ Enqueue(r)

Next ==
    \/ \E o \in Order :
          AcceptCharge(o) \/ MovePayment(o) \/ PersistCharge(o) \/ LoseCharge(o)
    \/ \E r \in Request :
          \/ \E n \in sent : Receive(r, n)
          \/ Handle(r) \/ RollBack(r) \/ CommitAnswerLost(r) \/ EnqueueFails(r)
    \/ Crash

Spec == Init /\ [][Next]_vars

\* Midtrans repeats a notification until its 200, and a request that is running goes
\* on.  Nothing obliges a payment to move.
Fairness ==
    /\ \A o \in Order : WF_vars(PersistCharge(o))
    /\ \A n \in Notification : WF_vars(n \notin acked /\ \E r \in Request : Receive(r, n))
    /\ \A r \in Request : WF_vars(Handle(r))

FairSpec == Spec /\ Fairness

--------------------------------------------------------------------------------
(* Safety.                                                                 *)

\* The rows go through the life of TransactionLifecycle: concurrent handlers neither
\* move a status back nor write a time twice.
Lifecycle == INSTANCE TransactionLifecycle WITH Time <- 0..MaxMoves

ImplementsLifecycle == Lifecycle!Spec

\* transaction_events is a gapless record of the status: every event starts where the
\* one before ended, and the last one ends at the status of the row.
EventTrail ==
    \A o \in Order :
        LET e == events[o] IN
        /\ \A i \in 1..Len(e) - 1 : e[i].new = e[i + 1].previous
        /\ Len(e) > 0 => trx[o] # NoRow /\ e[Len(e)].new = trx[o].status

\* The notification of the last move Midtrans made.
Latest(o) == [order |-> o, payment |-> payment[o], time |-> moves[o]]

\* Midtrans only makes moves that ShouldApplyStatusUpdate accepts, whatever number of
\* them lies between two statuses.
ForwardMoves ==
    \A p \in Payment : \A q \in Moves[p] :
        ShouldApplyStatusUpdate(MapMidtransStatus(p), MapMidtransStatus(q))

\* Once the latest notification has been applied the row agrees with Midtrans, and
\* stays so whatever older or repeated notifications are handled after it.
CaughtUp ==
    \A o \in Order :
        payment[o] # NoRow /\ Latest(o) \in acked \ dropped =>
            trx[o] # NoRow /\ trx[o].status = MapMidtransStatus(payment[o])

\* "Webhook valid mengubah status transaksi": a transaction whose latest notification
\* was answered with 200 has its status.
AcknowledgedIsApplied ==
    \A o \in Order :
        trx[o] # NoRow /\ Latest(o) \in acked =>
            trx[o].status = MapMidtransStatus(payment[o])

\* A delivery that tells the merchant of status s is enqueued.
Announced(o, s) ==
    \E i \in DOMAIN events[o] : events[o][i].new = s /\ events[o][i].delivery = "queued"

\* The 200 that stops Midtrans from repeating the latest notification is given only when
\* the merchant's delivery of that status is enqueued, whatever failed before, and
\* whichever requests were handled at the same time; or when there was no row.
AcknowledgedIsAnnounced ==
    \A o \in HasCallback :
        payment[o] # NoRow /\ Latest(o) \in acked \ dropped =>
            Announced(o, MapMidtransStatus(payment[o]))

--------------------------------------------------------------------------------
(* Liveness.                                                               *)

\* The merchant is told of the status of a payment, for the delivery is enqueued or
\* Midtrans repeats the notification; unless the payment moves on, or the notification
\* came when there was no row.
StatusAnnounced ==
    \A o \in HasCallback : \A p \in Payment :
        (payment[o] = p /\ trx[o] # NoRow) ~>
            \/ payment[o] # p
            \/ Announced(o, MapMidtransStatus(p))
            \/ Latest(o) \in dropped
================================================================================
