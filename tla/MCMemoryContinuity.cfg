\* Two sessions; up to two merged objects; one identity with three contents, one too large.
SPECIFICATION ContinuitySpec
CONSTANTS
    Sessions = {s1, s2}
    Sources <- MCSources
    ConsolidationRequests <- MCConsolidationRequests
    Entries <- MCEntries
    MaxCoid = 5
    EventSubjects = {1}
    MaxEvents = 2
    ExperienceIds = {1}
    Refs = {1, 2}
    Texts = {"held", ""}
    Tokens = {"held"}
    BlankTexts = {""}
    MaxInteger = 1
    MaxInstant = 2
    Null = Null
SYMMETRY MCSymmetry
INVARIANTS
    ContinuityTypeOK
    ConsolidationsWhole
    ExperiencesAgree
CHECK_DEADLOCK FALSE
