SPECIFICATION FairSpec
CONSTANTS
    Order = {o1}
    Request = {r1, r2}
    Payment <- TransferPayments
    Initial <- TransferInitial
    Moves <- TransferMoves
    Timeless = {}
    HasCallback = {o1}
    NoRow = NoRow
    MaxMoves = 3
    MaxDuplicates = 0
    MaxFaults = 1
CHECK_DEADLOCK FALSE
INVARIANTS AcknowledgedIsAnnounced
PROPERTIES StatusAnnounced
