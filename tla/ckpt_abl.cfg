SPECIFICATION FairSpec
CONSTANTS
    Ranks <- OnlyRoot
    Root = 0
    ModelWriters <- OnlyRoot
    DataWriters <- OnlyRoot
    Leader <- LeadRoot
    Mode = "all_but_last"
    KeepLast = 0
    KeepBest = 0
    KeepEvery = 2
    Scores = {1}
    Resave = FALSE
    MaxStep = 3
    MaxGen = 3
    MaxCrashes = 1
INVARIANTS
    OnlyLastFull
PROPERTIES
    ImplementsStore SaveCommits
