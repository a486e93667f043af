SPECIFICATION FairPlanes
CONSTANTS
    Configs <- MCConfigs
    Records <- MCRecords
    MaxWindow = 3
    Slack = 1
    Skew = 1
    Latency = 1
    Drift = 0
    MaxTime <- MCMaxTime
    MaxFaults <- MCMaxFaults
    MaxLog <- MCMaxLog
    MaxSubmits <- MCMaxSubmits
    Threads = {t1, t2}
    Batches <- MCBatches
    Refs <- MCRefs
    Worlds <- MCWorlds
    Responses <- MCResponses
    Lookups <- MCLookups
    MaxChanges <- MCMaxChanges
    MaxResolves <- MCMaxResolves
INVARIANTS
    CountedOnce
    
    CommitCovers
    RateBound
    FactsWereTrue

    
CHECK_DEADLOCK FALSE
