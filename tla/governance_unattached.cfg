SPECIFICATION MCSpec
CONSTANTS
    p1 = p1
    p2 = p2
    alice = alice
    bob = bob
    r1 = r1
    Proposals = {p1, p2}
    Author <- TwoAuthors
    Reconcilers = {r1}
    Admins = {alice, bob}
    Changes <- AllEdits
    Origins = {"form", "file"}
    Floor = 1
    MaxCrashes = 1
    MaxResets = 1
    Nobody = Nobody
INVARIANT
    NullOnlyBeforeLock
CHECK_DEADLOCK FALSE
