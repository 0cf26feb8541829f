CONSTANTS
    MaxRows = 2
    MaxOps = 4
    Text = {"yes", "no", "junk", "key"}
    Entity = {"atlas"}
    Speaks <- MCSpeaks
    Likeness <- MCLikeness
    MaxPairs = 2
    Contrary <- MCContrary
    Graded <- MCGraded
    Noise = {"junk"}
    Secret = {"key"}
SPECIFICATION GSpec
INVARIANTS ArchivesOnRecord
PROPERTIES ToolsKeepConflicts ToolsKeepRelations OnlyAskedRevivals
CHECK_DEADLOCK FALSE
