CONSTANTS
    MaxRows = 3
    MaxOps = 4
    Text = {"yes", "no", "junk", "key"}
    Entity = {"atlas"}
    Speaks <- MCSpeaks
    Likeness <- MCLikeness
    MaxPairs = 1
    Contrary <- MCContrary
    Graded <- MCGraded
    Noise = {"junk"}
    Secret = {"key"}
SPECIFICATION GSpec
PROPERTY ToolsKeepRelations
CHECK_DEADLOCK FALSE
