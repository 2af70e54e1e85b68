\* Two sessions; a lineage of two branches, both revised, and a merge.
SPECIFICATION Spec
CONSTANTS
    Txs = {t1, t2}
    MaxObjects = 4
    None = None
INVARIANTS
    LineagesSound
PROPERTIES
    LineagesEvolve
    CallsEnd
CHECK_DEADLOCK FALSE
