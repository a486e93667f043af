SPECIFICATION FairSpec
CONSTANTS
  alice = alice
  bob = bob
  NoOne = NoOne
  Requests = {r1, r2}
  Sweepers = {s1}
  People = {alice, bob}
  Policies <- QuorumOnly
  TTL = 1
  MaxTime = 2
  LastDecide = 0
  MaxCrashes = 1
  Reserved = TRUE
INVARIANTS
  AllowedOnEvidence
  MetQuorumIsSettled
PROPERTIES
  LateRequestsOnlyExpire
  EveryDecisionResolves
CHECK_DEADLOCK FALSE
