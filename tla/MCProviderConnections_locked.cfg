SPECIFICATION FairSpec
CONSTANTS
    Provider = {p1, p2}
    Writers = {p1}
    Run = {r}
    Nobody = Nobody
    RelationSync = FALSE
    Duplicates = TRUE
    MaxOps = 1
PROPERTIES RecoveryIsEnough OperationsEnd
CHECK_DEADLOCK FALSE
