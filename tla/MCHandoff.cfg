\* Two sessions, an open step that may be sealed and one behind a delegation.
SPECIFICATION RowsSpec
CONSTANTS
    t1 = t1
    t2 = t2
    Txs = {t1, t2}
    MaxSteps = 2
    Gate <- MCGate
    Title <- MCTitle
    Drafts <- MCDrafts
    StepDrafts <- MCStepDrafts
    GivenConstraints <- MCGivenConstraints
    Providers = {"A", "NULL"}
    Unattributed = "UNATTRIBUTED"
    SealedSteps = {1}
    MaxAttempts = 2
    MaxDelegations = 2
    MaxClock = 1
    MaxEvents = 3
SYMMETRY MCSymmetry
INVARIANTS
    TypeOK
    OneReturnPerStep
    DelegationsSpentOnce
    SwitchObservedInOrder
    RowsAgree
PROPERTIES
    TerminalIsFinal
    TriggersAdmit
CHECK_DEADLOCK FALSE
