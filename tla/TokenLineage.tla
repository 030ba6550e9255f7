------------------------------ MODULE TokenLineage ------------------------------
(***************************************************************************)
(* What owners are promised of the tokens of a store: a lineage, named by  *)
(* the token that was created, has one token that is valid, which a        *)
(* rotation replaces by a new one in one step, until it is revoked; then   *)
(* it has none for good.  StoreToken implements it with a SELECT, a        *)
(* transaction and an UPDATE of several owners at a time.                  *)
(***************************************************************************)
CONSTANT Token

VARIABLES
    issued,     \* tokens that were handed out
    valid       \* [Token -> tokens of the lineage that are not revoked]

\* The type of every variable.
TypeOK == issued \subseteq Token /\ valid \in [Token -> SUBSET Token]

Init == issued = {} /\ valid = [l \in Token |-> {}]

Issue(t) == t \notin issued /\ issued' = issued \union {t}

Create(t) ==
    /\ Issue(t)
    /\ valid[t] = {}
    /\ valid' = [valid EXCEPT ![t] = {t}]

Rotate(l, t, new) ==
    /\ valid[l] = {t}
    /\ Issue(new)
    /\ valid' = [valid EXCEPT ![l] = {new}]

Revoke(l, t) ==
    /\ valid[l] = {t}
    /\ valid' = [valid EXCEPT ![l] = {}]
    /\ UNCHANGED issued

Next ==
    \/ \E t \in Token : Create(t)
    \/ \E l, t \in Token : Revoke(l, t) \/ \E new \in Token : Rotate(l, t, new)

Spec == Init /\ [][Next]_<<issued, valid>>
================================================================================
