SPECIFICATION SetupSpec
CONSTANTS
    Catalogs <- SomeCatalogs
    Names <- TwoNames
    Sites <- OneSite
    Jobs <- ThreeJobs
    Ranks <- TwoRanks
    Formats <- AllFormats
    Together <- SecondJob
    MaxKills = 1
    Wirings <- SomeWirings
    Wanted <- SomeRequests
    MaxCalls = 2
    MaxFails = 1
INVARIANTS
    CardsResolve CachedWhole LoadsHeal
    AnsweredRight OneInstance
CHECK_DEADLOCK FALSE
