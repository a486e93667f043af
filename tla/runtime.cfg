SPECIFICATION FairSpec
CONSTANTS
    Processes <- Names
    Deployments <- Instances
    Settings <- SettingsOf
    Applied <- AppliedOf
    Deadline = 1
    Latency = 1
    LockPolls = 1
    MaxTime <- Time
    MaxCommits <- Commits
    MaxOutages <- Outages
    MaxEnds <- Ends
    MaxChecks <- Checks
    MaxTimeouts <- Timeouts
INVARIANTS
    ReadyMeansMigrated
    JudgedOnRecentSet
    FlushCoversAnswers
CHECK_DEADLOCK FALSE
PROPERTIES
    ReadinessTracksDatabase
    StopCompletes
