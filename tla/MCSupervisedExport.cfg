SPECIFICATION Spec
CONSTANTS
    Domains = {}
    Actors = {}
    Purposes = {}
    PolicyKeys = {}
    MaxVersion = 1
    None = None
    Principals = {"owner"}
    Schedules = {"c1"}
    Steps = {"p1"}
    Attempts = {a1, a2}
    Objectives = {"o1"}
    Words <- MCWords
    Classifiers <- MCClassifiers
    TTL = 1
    BOUNDARY_VERSION = 1
    MaxRevoked = 1
    MaxTime = 1
    Sessions = {s1, s2}
    Keys = {"k1"}
    Texts <- MCTexts
    ScheduleOf <- MCScheduleOf
    Position <- MCPosition
    ObjectiveOf <- MCObjective
    Operation = "expose"
    MaxApplications = 1
    Vouched <- MCVouched
    Principal = "owner"
    ConnectionIds = {"n1"}
    ClaimIds = {}
    Names = {"n"}
SYMMETRY Symmetry
CHECK_DEADLOCK FALSE
INVARIANT TypeOK
INVARIANT ExportsAccounted
INVARIANT CancelledIsClosed
