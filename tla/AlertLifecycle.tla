---------------------------- MODULE AlertLifecycle ----------------------------
(***************************************************************************)
(* What the operational alerts promise about one row of alert_deliveries,  *)
(* whatever the worker, the queue, the owner of the endpoint and failures  *)
(* do: an alert is created pending, every attempt counts once, at most     *)
(* MaxAttempts are made, delivered and failed are final, and the row goes  *)
(* only with its endpoint.                                                 *)
(***************************************************************************)
EXTENDS Naturals

CONSTANTS Alert,        \* the alerts a run may create
          MaxAttempts   \* defaultMaxAttempts

VARIABLE alert          \* [Alert -> row], the status and attempt_count columns

Open == {"pending", "retrying"}

Init == alert = [a \in Alert |-> [status |-> "none", count |-> 0]]

Create(a) ==
    /\ alert[a].status = "none"
    /\ alert' = [alert EXCEPT ![a].status = "pending"]

Attempt(a) ==
    /\ alert[a].status \in Open
    /\ alert[a].count < MaxAttempts
    /\ \E s \in {"success", "retrying", "failed"} :
          /\ s = "retrying" => alert[a].count + 1 < MaxAttempts
          /\ alert' = [alert EXCEPT ![a] = [status |-> s, count |-> @.count + 1]]

\* An endpoint goes with all its alerts.
Delete(A) ==
    alert' = [a \in Alert |-> IF a \in A /\ alert[a].status # "none"
                              THEN [status |-> "deleted", count |-> 0] ELSE alert[a]]

Next == \/ \E a \in Alert : Create(a) \/ Attempt(a)
        \/ \E A \in SUBSET Alert : Delete(A)

Spec == Init /\ [][Next]_alert
================================================================================
