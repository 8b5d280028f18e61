SPECIFICATION Spec
CONSTANTS
    Ranks <- AllRanks
    Root = 0
    ModelWriters <- OnlyRoot
    DataWriters <- AllRanks
    Leader <- LeadRoot
    Mode = "none"
    KeepLast = 1
    KeepBest = 1
    KeepEvery = 0
    Scores = {1, 2}
    Resave = FALSE
    MaxStep = 3
    MaxGen = 3
    MaxCrashes = 1
INVARIANTS
    CollectivesAligned RestoreSound ScoreMatches Pruned
PROPERTIES
    LastNeverLost RetentionHonoured
