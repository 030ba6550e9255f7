SPECIFICATION Spec
CONSTANTS
    Order = {o1}
    Request = {r1, r2}
    Payment <- AllPayments
    Initial <- AllInitial
    Moves <- AllMoves
    Timeless <- AllTimeless
    HasCallback = {}
    NoRow = NoRow
    MaxMoves = 4
    MaxDuplicates = 1
    MaxFaults = 1
CHECK_DEADLOCK FALSE
SYMMETRY Symmetry
INVARIANTS TypeOK EventTrail CaughtUp
PROPERTY ImplementsLifecycle
