SPECIFICATION RanksSpec
CONSTANTS
    Ranks <- TwoRanks
    Setups <- SomeSetups
    PublishEvery = 3
    SaveEvery = 2
    ScaleWindow = 2
    TopScale = 1
    MaxPasses = 3
    JobKills = 2
    Tasks <- SomeTasks
    MaxFailures = 1
    Evals <- SomeEvals
    MaxRuns = 2
INVARIANTS
    ReplicasAgree MetricsExact BatchesOnce
    ModelsReady AllOrNone
    RecordsComparable TrainingUndisturbed
PROPERTIES
    PassCovers EveryTaskEnds
CHECK_DEADLOCK FALSE
