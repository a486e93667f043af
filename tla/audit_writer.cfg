SPECIFICATION FairSpec
CONSTANTS
    Processes = {w1, w2}
    Entries = {e1, e2, e3}
    Marker = Marker
    Unclaimed = Unclaimed
    MaxDrift = 2
    MaxFaults = 3
INVARIANTS
    ChainVerifies
PROPERTIES
    ImplementsAppendLog
    EveryCallReturns
CHECK_DEADLOCK FALSE
