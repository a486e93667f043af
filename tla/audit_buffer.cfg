SPECIFICATION FairBuffer
CONSTANTS
    Capacity = 3
    BatchSize = 2
    Threshold = 2
    MaxEvents = 7
    MaxFailures = 4
INVARIANTS
    NoSilentLoss
    RefusesUntilMarked
PROPERTY
    LossesGetMarked
