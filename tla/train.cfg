SPECIFICATION FairSpec
CONSTANTS
    Ranks <- TwoRanks
    EpochLen = 3
    Plans <- SomePlans
    Save <- EveryTwo
    Pub <- EveryTwo
    StepBound = 8
    MaxOverflows = 2
    MaxKills = 2
INVARIANTS
    DataExact StepExact EndSaved StopPrompt
PROPERTIES
    LastNeverLost Terminates
