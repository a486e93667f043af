SPECIFICATION FairSpec
CONSTANTS
    Hosts = {h1, h2}
    Writers = {w1}
    Auditors = {v1}
    MaxRows = 1
    MaxSeries = 2
    MaxFaults = 2
INVARIANTS
    SeriesIsChain
    SinkIsFaithful
    FaultMeansMissing
PROPERTY
    SinkCatchesUp
CHECK_DEADLOCK FALSE
