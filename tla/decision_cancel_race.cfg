SPECIFICATION Spec
CONSTANTS
  alice = alice
  bob = bob
  NoOne = NoOne
  Requests = {r1, r2}
  Sweepers = {s1}
  People = {alice}
  Policies <- WaitOnly
  TTL = 2
  MaxTime = 2
  LastDecide = 0
  MaxCrashes = 0
  Reserved = FALSE
INVARIANTS
  CancellationWins
CHECK_DEADLOCK FALSE
