\* Two executors and a revoker over one approval of two targets.
SPECIFICATION Spec
CONSTANTS
    Executors = {x1, x2}
    Revokers = {v1}
    Requests <- MCRequests
    Snapshots <- MCSnapshots
    Refused = Refused
    NoNamespace = NoNamespace
    None = None
    MaxLote = 2
    MaxClock = 2
SYMMETRY MCSymmetry
INVARIANTS
    TypeOK
    EffectsAuthorised
    EffectsAccounted
    LockHoldersCommit
PROPERTY
    ImplementsSingleUse
