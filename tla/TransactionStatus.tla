--------------------------- MODULE TransactionStatus ---------------------------
(***************************************************************************)
(* The status of a transaction: how the service reads a status of Midtrans *)
(* and which status may replace which.  internal/app/transaction/status.go *)
(***************************************************************************)

Status == {"created", "pending", "challenge", "paid", "failed", "expired", "cancelled",
           "refunded", "partial_refunded", "unknown"}

\* The transaction_status values whose meaning does not depend on fraud_status.
Mapped == [pending |-> "pending", settlement |-> "paid", deny |-> "failed",
           failure |-> "failed", cancel |-> "cancelled", expire |-> "expired",
           refund |-> "refunded", partial_refund |-> "partial_refunded"]

\* p is the pair of columns transaction_status and fraud_status of a message.
MapMidtransStatus(p) ==
    IF p.status = "capture" THEN IF p.fraud = "challenge" THEN "challenge" ELSE "paid"
    ELSE IF p.status \in DOMAIN Mapped THEN Mapped[p.status] ELSE "unknown"

AfterPaid    == {"partial_refunded", "refunded"}
AfterPending == AfterPaid \union {"challenge", "paid", "failed", "expired", "cancelled"}

\* Every known status applied in the order it arrives.
ShouldApplyStatusUpdate_Always(current, next) == next # "unknown"

ShouldApplyStatusUpdate(current, next) ==
    /\ next # "unknown"
    /\ \/ current \in {"created", "unknown"}
       \/ current = next
       \/ current = "pending"          /\ next \in AfterPending
       \/ current = "challenge"        /\ next \in AfterPending \ {"challenge"}
       \/ current = "paid"             /\ next \in AfterPaid
       \/ current = "partial_refunded" /\ next = "refunded"
================================================================================
