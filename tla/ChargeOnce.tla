------------------------------ MODULE ChargeOnce ------------------------------
(***************************************************************************)
(* What a charge promises, whatever fails, expires or runs at once: an     *)
(* order is accepted by Midtrans once, the row is the request Midtrans     *)
(* accepted and never changes, and only what is in a row is answered with  *)
(* success.                                                                *)
(***************************************************************************)
CONSTANTS Key, Order, Body, None

Input == [key : Key, order : Order, body : Body]

VARIABLES accepted, row, created

Init ==
    /\ accepted = [o \in Order |-> None]
    /\ row      = [o \in Order |-> None]
    /\ created  = {}

Accept(i) ==
    /\ accepted[i.order] = None
    /\ accepted' = [accepted EXCEPT ![i.order] = i]
    /\ UNCHANGED <<row, created>>

Persist(o) ==
    /\ accepted[o] # None
    /\ row[o] = None
    /\ row' = [row EXCEPT ![o] = accepted[o]]
    /\ UNCHANGED <<accepted, created>>

\* The same key is not required: a request for a stored order with the same payload
\* is answered with its row.
Answer(i) ==
    /\ row[i.order] # None
    /\ row[i.order].body = i.body
    /\ created' = created \union {i}
    /\ UNCHANGED <<accepted, row>>

Next == \/ \E i \in Input : Accept(i) \/ Answer(i)
        \/ \E o \in Order : Persist(o)

Spec == Init /\ [][Next]_<<accepted, row, created>>
================================================================================
