--------------------------- MODULE DeliveryLifecycle ---------------------------
(***************************************************************************)
(* What webhook forwarding promises about one row of webhook_deliveries,   *)
(* whatever the workers, the queue and the failures do: a delivery is      *)
(* created pending, every attempt counts exactly once, a success is final, *)
(* attempts that fail leave the row retrying until the limit, and a row    *)
(* that has failed for good starts again from zero when it is resent.      *)
(***************************************************************************)
EXTENDS Naturals

CONSTANTS Delivery,     \* the deliveries a run may create
          MaxAttempts   \* defaultMaxAttempts

VARIABLE delivery       \* [Delivery -> row], the status and attempt_count columns

Status == {"none", "pending", "retrying", "success", "failed_permanently"}
Row    == [status : Status, count : Nat]

Fresh == [status |-> "pending", count |-> 0]

Init == delivery = [d \in Delivery |-> [status |-> "none", count |-> 0]]

Create(d) ==
    /\ delivery[d].status = "none"
    /\ delivery' = [delivery EXCEPT ![d] = Fresh]

Resend(d) ==
    /\ delivery[d].status = "failed_permanently"
    /\ delivery' = [delivery EXCEPT ![d] = Fresh]

\* One attempt, on any row that exists and is not delivered yet.
Attempt(d) ==
    /\ delivery[d].status \in {"pending", "retrying", "failed_permanently"}
    /\ LET n == delivery[d].count + 1
       IN \E s \in {"success", "retrying", "failed_permanently"} :
            /\ s = "retrying" => n < MaxAttempts
            /\ delivery' = [delivery EXCEPT ![d] = [status |-> s, count |-> n]]

Next == \E d \in Delivery : Create(d) \/ Resend(d) \/ Attempt(d)

Spec == Init /\ [][Next]_delivery
================================================================================
