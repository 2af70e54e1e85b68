SPECIFICATION ComplianceSpec
CONSTANTS
    None = None
    Domains = {1, 2}
    Actors = {}
    Purposes = {}
    PolicyKeys = {"g"}
    MaxVersion = 3
    RetentionKeys = {"r"}
    MaxInstant = 5
    RetentionPublications <- MCRetentionPublications
    Policies <- MCPolicies
    GovernanceObservations <- MCGovernanceObservations
    Candidates = {1, 2}
INVARIANTS ComplianceTypeOK ReviewsStand
CHECK_DEADLOCK FALSE
