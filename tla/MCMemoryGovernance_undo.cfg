CONSTANTS
    MaxRows = 1
    MaxOps = 5
    Text = {"yes", "no", "junk", "key"}
    Entity = {"atlas"}
    Speaks <- MCSpeaks
    Likeness <- MCLikeness
    MaxPairs = 2
    Contrary <- MCContrary
    Graded <- MCGraded
    Noise = {"junk"}
    Secret = {"key"}
SPECIFICATION GSpec
PROPERTY RollbackUndoesItsOwn
CHECK_DEADLOCK FALSE
