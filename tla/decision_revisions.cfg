SPECIFICATION Spec
CONSTANTS
  alice = alice
  bob = bob
  NoOne = NoOne
  Requests = {r1}
  Sweepers = {s1}
  People = {alice, bob}
  Policies <- Revisions
  TTL = 2
  MaxTime = 3
  LastDecide = 0
  MaxCrashes = 0
  Reserved = FALSE

  
PROPERTIES
  ImplementsLifecycle
CHECK_DEADLOCK FALSE
