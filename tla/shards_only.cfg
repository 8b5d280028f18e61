SPECIFICATION Spec
CONSTANTS
    Plans <- ModelOnlyPlans
    Begun = {"loaded"}
    Vocab = 4
    Dim = 4
    Inner = 4
    Outer = 3
    MaxSteps = 2
    MaxKills = 1
    MaxTrainings = 2
INVARIANTS
    ShardsExact
