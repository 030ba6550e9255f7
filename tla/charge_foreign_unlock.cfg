SPECIFICATION Spec
CONSTANTS
    Request = {r1, r2, r3}
    Key = {k1, k2, k3}
    Order = {o1}
    Body = {b1}
    None = None
    Free = Free
    Orphan = Orphan
    MaxOverruns = 1
    MaxFaults = 0
    MaxEvictions = 0
    MaxIncidents = 1
SYMMETRY Symmetry
INVARIANT ExclusiveCharge
