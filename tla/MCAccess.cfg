SPECIFICATION Spec
CONSTANTS
    None = None
    p1 = p1
    Requests = {r1, r2, r3}
    Clients = {c1}
    Principals = {p1}
    Revocations = {v1}
    Scopes <- OneScope
    QuotaLimit = 1
    QuotaWindow = 2
    MaxRequests = 2
    WindowSeconds = 1
    MaxClock = 3
INVARIANTS QuotaHeld AdmissionsSound
SYMMETRY Symmetry
CHECK_DEADLOCK FALSE
