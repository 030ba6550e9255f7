-------------------------- MODULE TransactionLifecycle --------------------------
(***************************************************************************)
(* What the service promises about one row of transactions, however many   *)
(* notifications of Midtrans arrive, in whatever order and how often: the  *)
(* row never goes away, its status only moves forward, and the time of a   *)
(* payment, an expiry or a cancellation is written once.                   *)
(***************************************************************************)
EXTENDS Naturals, TransactionStatus

CONSTANTS Order,    \* platform_order_id of the transactions
          NoRow,    \* the order has no row
          Time      \* times a notification may carry, 0 for none

VARIABLE trx        \* [Order -> row or NoRow]: status, and paid_at, expired_at,
                    \* cancelled_at as a function (0 is NULL)

Stamped == {"paid", "expired", "cancelled"}
Unset   == [s \in Stamped |-> 0]

\* The times of a row that reaches status s at time t.
FirstTime(at, s, t) == [u \in Stamped |-> IF u = s /\ at[u] = 0 THEN t ELSE at[u]]

Init == trx = [o \in Order |-> NoRow]

Persist(o) ==
    /\ trx[o] = NoRow
    /\ \E s \in Status : trx' = [trx EXCEPT ![o] = [status |-> s, at |-> Unset]]

\* The status moves on, or a notification gives the status that is already there its
\* missing time, if it has one.
Update(o) ==
    /\ trx[o] # NoRow
    /\ \E s \in Status, t \in Time :
         /\ ShouldApplyStatusUpdate(trx[o].status, s)
         /\ trx' = [trx EXCEPT ![o] = [status |-> s, at |-> FirstTime(trx[o].at, s, t)]]

Next == \E o \in Order : Persist(o) \/ Update(o)

Spec == Init /\ [][Next]_trx
================================================================================
