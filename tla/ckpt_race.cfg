SPECIFICATION Spec
CONSTANTS
    Ranks <- AllRanks
    Root = 0
    ModelWriters <- OnlyRoot
    DataWriters <- AllRanks
    Leader <- LeadRoot
    Mode = "all_but_last"
    KeepLast = 0
    KeepBest = 0
    KeepEvery = 0
    Scores = {1}
    Resave = FALSE
    MaxStep = 2
    MaxGen = 2
    MaxCrashes = 0
INVARIANTS
    CollectivesAligned

