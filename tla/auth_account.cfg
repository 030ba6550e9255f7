SPECIFICATION Spec
CONSTANTS
    Handler = {h1, h2}
    Session = {s1, s2}
    ResetToken = {p1, p2}
    Secret = {x1, x2}
    Code = {c1, c2}
    None = None
    Production = TRUE
    Workloads <- AllWorkloads
    MaxPassword = 3
    MaxRefresh = 1
SYMMETRY Symmetry
INVARIANTS TypeOK ResetEndsSessions AccessNeedsCode SecretIsConfirmed VerificationKept
PROPERTIES ClosedStaysClosed OneTimeOnly
