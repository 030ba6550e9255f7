SPECIFICATION Spec
CONSTANTS
    Order = {o1}
    Request = {r1}
    Payment <- TransferPayments
    Initial <- TransferInitial
    Moves <- TransferMoves
    Timeless = {}
    HasCallback = {o1}
    NoRow = NoRow
    MaxMoves = 2
    MaxDuplicates = 0
    MaxFaults = 0
CHECK_DEADLOCK FALSE
INVARIANT AcknowledgedIsApplied
