SPECIFICATION Spec
CONSTANTS
    Token = {t1}
    Request = {r1}
    Owner = {a1}
    Editor = {}
    NoToken = NoToken
    Workloads <- RevokeOnly
    MaxFaults = 0
INVARIANT RevokedRefused
