CONSTANTS
    Memory = {m1, m2}
    Agents = {agent}
    Writers = {writer}
    Digests = {digest}
    Backends = {"lancedb", "sqlite-bruteforce", "pgvector"}
    MaxVersion = 2
    MaxOps = 3
    MaxFaults = 2
SPECIFICATION VFairSpec
INVARIANTS VTypeOK
PROPERTIES KeepsCompanionPromise OperationsFinish
CHECK_DEADLOCK FALSE
