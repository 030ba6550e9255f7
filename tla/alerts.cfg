SPECIFICATION FairSpec
CONSTANTS
    e1 = e1
    e2 = e2
    Endpoint = {e1, e2}
    Notice = {n1}
    Test = {c1}
    Editor = {d1, d2}
    MaxAttempts = 3
    None = None
    Owner = Owner
    Workloads <- FourLoads
CHECK_DEADLOCK FALSE
INVARIANTS TypeOK QuietWhenOff AcceptedOnce AnnouncedOrError NotAbandoned
PROPERTIES ImplementsLifecycle EveryAlertSettles
