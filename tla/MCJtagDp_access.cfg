\* Every access, with slow or missing memory, after any connecting, and a reset.
SPECIFICATION FairSpec
CONSTANTS
  Words = 8
  Page = 4
  Retries = 2
  Requests <- AllOps
  Mappings <- AllOrHalf
  MaxRequests = 3
  MaxWaits = 2
  MaxPlugs = 2
  MaxKills = 1
INVARIANTS
  TypeOK
  BeliefIsTrue
  CacheIsTrue
  FailureHasReason
PROPERTIES
  ImplementsMemory
  Connects
CHECK_DEADLOCK FALSE
