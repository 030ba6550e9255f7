SPECIFICATION Spec
CONSTANTS
    Token = {t1, t2, t3}
    Request = {r1}
    Owner = {a1, a2}
    Editor = {e1, e2}
    NoToken = NoToken
    Workloads <- TokensAndStore
    MaxFaults = 1
SYMMETRY Symmetry
INVARIANTS TypeOK InactiveOrExpiredRefused DeactivationKept
PROPERTIES RevocationTakesEffect ImplementsLineage
