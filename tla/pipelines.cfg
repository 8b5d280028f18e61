SPECIFICATION PipelinesSpec
CONSTANTS
    Size = 5
    Bad <- ThirdBad
    NumExamples = 2
    MaxWarnings = 1
    Strict = TRUE
    MaxCalls = 2
    MapSize = 3
    InnerBad <- SecondBad
    FnBad <- ThirdBad
    Workers <- TwoWorkers
    MapWarnings = 1
    MapCalls = 2
    Pipelines <- AllPipelines
    Draws <- SomeDraws
    IdealLength = 10
    PipeCalls = 2
INVARIANTS
    NoLostWakeup
    Conserved
    MatchesReference Resumed
PROPERTIES
    ImplementsSource EveryCallReturns
