SPECIFICATION ModelsSpec
CONSTANTS
    Plans <- SomePlans
    Begun = {"new"}
    Vocab = 4
    Dim = 4
    Inner = 4
    Outer = 3
    MaxSteps = 2
    MaxKills = 1
    MaxTrainings = 2
    Words <- Tokens
    Eos = 0
    Pad = 1
    Models <- SomeModels
    LogProb <- SomeLogProb
    Jobs <- SomeJobs
    Calls <- SomeForwards
INVARIANTS
    ShardsExact ForwardAgrees
    AttendsAlone
    StateFollows HypothesesRight
