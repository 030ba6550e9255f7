SPECIFICATION Spec
CONSTANTS
    Request = {r1, r2}
    Key = {k1, k2}
    Order = {o1, o2}
    Body = {b1, b2}
    None = None
    Free = Free
    Orphan = Orphan
    MaxOverruns = 1
    MaxFaults = 1
    MaxEvictions = 1
    MaxIncidents = 2
SYMMETRY Symmetry
INVARIANTS TypeOK LockedCharge KeyNamesOneRequest RetryIsAnswered NoLockForgotten
PROPERTY ImplementsChargeOnce
