SPECIFICATION Spec
CONSTANTS
    Provider = {p1, p2}
    Writers = {p1}
    Run = {}
    Nobody = Nobody
    RelationSync = TRUE
    Duplicates = TRUE
    MaxOps = 2
INVARIANT TypeOK
INVARIANT AckedIsDurable
INVARIANT StoreAllOrNothing
CHECK_DEADLOCK FALSE
