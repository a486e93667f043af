CONSTANTS
    Subject <- Person
    TTL = 3
    Deployments <- All
    Settings <- MCSettings
    Logins <- MCLogins
    Holders <- MCHolders
    MaxTime <- MCMaxTime
    MaxRequests <- MCMaxRequests
    MaxCalls <- MCMaxCalls
    MaxLogins <- MCMaxLogins
    MaxVerdicts <- MCMaxVerdicts
    MaxFaults <- MCMaxFaults
    LastFault <- MCLastFault
SPECIFICATION FairSpec
INVARIANTS
    AllowedOnAnswers
    OneCallerLeavesRoom
    AckedVerdictSettles
PROPERTIES
    RotatedKeyAccepted
CHECK_DEADLOCK FALSE
