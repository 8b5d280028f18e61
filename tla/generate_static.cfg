SPECIFICATION GenSpec
CONSTANTS
    Words <- Tokens
    Eos = 0
    Pad = 1
    Models <- MoreModels
    LogProb <- SomeLogProb
    Jobs <- UnevenJobs
INVARIANTS
    SourceFollows
CHECK_DEADLOCK FALSE
