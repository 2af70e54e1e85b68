SPECIFICATION ReconfigurationSpec
CONSTANTS
  Subjects <- MCSubjects
  References <- MCReferences
  Scopes <- MCScopes
  Places <- MCPlaces
  ComparabilityKeys <- MCComparabilityKeys
  Conclusions <- MCConclusions
  Events <- MCEvents
  Sessions <- MCSessions
  Batches <- MCBatches
  Rollbacks <- MCRollbacks
  Requests <- MCRequests
  MAX_PIAP_INPUT_BYTES = 3
  MAX_PAYLOAD_REFERENCES = 2
  MAX_APPROVAL_SCOPE_ITEMS = 1
  MAX_PIAP_VERSION_NUMBER = 3
  MAX_CLAIMS_PER_EVALUATION = 3
  MAX_TOTAL_REFERENCES_PER_EVALUATION = 5
  None = None
  s1 = s1
  s2 = s2
  x = x
  y = y
  c1 = c1
  c2 = c2
  scope = scope
  place = place
  k1 = k1
  k2 = k2
  yes = yes
  no = no
  e1 = e1
  e2 = e2
  e3 = e3
INVARIANT ReconfigurationTypeOK
INVARIANT HistorySound
INVARIANT RoutesSound
SYMMETRY MCSymmetry
