SPECIFICATION DownloadsSpec
CONSTANTS
    Catalogs <- OneSite
    Names <- TwoNames
    Sites <- OneSite
    Jobs <- ThreeJobs
    Ranks <- TwoRanks
    Formats <- PlainOnly
    Together = {}
    MaxKills = 1
INVARIANTS
    LoadedWhole
CHECK_DEADLOCK FALSE
