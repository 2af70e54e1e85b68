SPECIFICATION Spec
CONSTANTS
    None = None
    Domains = {1, 2}
    Actors = {}
    Purposes = {}
    PolicyKeys = {"g", "h"}
    MaxVersion = 2
    Coids = {1, 2}
    Events = {7}
    Sessions = {s1, s2}
    AccessibilityKeys = {"a"}
    SEARCH_BATCH_SIZE = 1
    Publications <- MCPublications
    AccessibilityPublications <- MCAccessibilityPublications
    Memberships <- MCMemberships
    Transitions <- MCTransitions
    Retrievals <- MCRetrievals
SYMMETRY MCSymmetry
INVARIANTS TypeOK IsolationHolds
PROPERTIES TransitionAdmitted
CHECK_DEADLOCK FALSE
