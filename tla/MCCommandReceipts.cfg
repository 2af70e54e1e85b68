\* Three requests in flight over two export keys and an import key.
SPECIFICATION Spec
CONSTANTS
    Sessions = {s1, s2, s3}
    Requests <- MCRequests
    None = None
INVARIANTS
    TypeOK
    OneAnswerPerKey
PROPERTIES
    ReplayIsNotRefused
    ImplementsOnceOnly
    RequestsEnd
CHECK_DEADLOCK FALSE
