SPECIFICATION FairSpec
CONSTANTS
    Delivery = {d1, d2}
    s1 = s1
    Store = {s1}
    StoreOf <- SameStore
    t1 = t1
    Transaction = {t1}
    TransactionOf <- SameTransaction
    NoTask = NoTask
    MaxAttempts = 2
    Concurrency = 2
    MaxSends = 1
    MaxFaults = 0
    MaxCrashes = 0
    MaxShutdowns = 0
    MaxIncidents = 0
CHECK_DEADLOCK FALSE
PROPERTY EverySendSettles
