\* After GDB's 'k' packet, the next access.
SPECIFICATION Spec
CONSTANTS
  Words = 4
  Page = 4
  Retries = 2
  Requests <- FewOps
  Mappings <- All
  MaxRequests = 1
  MaxWaits = 0
  MaxPlugs = 0
  MaxKills = 1
INVARIANT FailureHasReasonAfterReset
CHECK_DEADLOCK FALSE
