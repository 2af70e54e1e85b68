SPECIFICATION Spec
CONSTANTS
  None = None
  Domains = {"d1"}
  Actors = {"p1", "p2"}
  Purposes = {"u1"}
  PolicyKeys = {"k1"}
  MaxVersion = 1
  Subjects = {"s1", "s2"}
  Workspaces = {"w1"}
  Tenants = {"t1"}
  Custodies = {"c1"}
  Etags = {"v1", "v2"}
  Texts = {"x1", "x2"}
  Identifiers = {"a1", "a2", "n1", "n2", "g1"}
  Candidates <- Variants
  References <- MCReferences
  Resolutions <- MCResolutions
  Attempts <- MCAttempts
  MaxInteger = 8
  MaxReceipts = 2
  MaxDefeated = 1
  MaxTime = 1
INVARIANT ApprovalsStand
PROPERTY TransitionsBound
CHECK_DEADLOCK FALSE
