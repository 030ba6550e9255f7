--------------------------- MODULE MCWebhookDelivery ---------------------------
(* Instances of WebhookDelivery for TLC.                                   *)
EXTENDS WebhookDelivery, TLC

CONSTANTS s1, t1

\* Every delivery belongs to one transaction of one store: their handlers compete for
\* its rows.
SameStore       == [d \in Delivery |-> s1]
SameTransaction == [d \in Delivery |-> t1]

Symmetry == Permutations(Delivery)
================================================================================
