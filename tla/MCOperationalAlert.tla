-------------------------- MODULE MCOperationalAlert --------------------------
(* Instances of OperationalAlert for TLC: edits that race an alert, a deletion and *)
(* failures of a test, two alerts of one endpoint that is deleted, a notification  *)
(* of two endpoints with a failure.                                                *)
EXTENDS OperationalAlert, TLC

CONSTANTS e1, e2

Load(E, C, n, m) == [endpoints |-> E, calls |-> C, changes |-> n, incidents |-> m]

FourLoads ==
    {Load({e1}, {"edit", "notify"}, 3, 0),
     Load({e1}, {"delete", "test"}, 2, 2),
     Load({e1}, {"delete", "notify", "test"}, 1, 0),
     Load({e1, e2}, {"notify"}, 0, 1)}
================================================================================
