SPECIFICATION FairSpec
CONSTANTS
    Delivery = {d1, d2}
    s1 = s1
    Store = {s1}
    StoreOf <- SameStore
    t1 = t1
    Transaction = {t1}
    TransactionOf <- SameTransaction
    NoTask = NoTask
    MaxAttempts = 2
    Concurrency = 1
    MaxSends = 2
    MaxFaults = 1
    MaxCrashes = 1
    MaxShutdowns = 1
    MaxIncidents = 1
CHECK_DEADLOCK FALSE
INVARIANTS
    NotOrphaned
PROPERTIES
    EverySendSettles
    FailureAlerted
