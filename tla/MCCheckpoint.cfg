CONSTANTS
  Calls <- MCCalls
  Request <- MCRequest
  GuaranteedShare = 2
  Term = 1
  Attempts = 2
  Backends = {"file", "s3"}
  CachedIds = {"B"}
  Nothing = Nothing
  MaxFaults = 1
  MaxCrashes = 1
SPECIFICATION Spec
INVARIANT DurableIsDurable
 
 
PROPERTY StagedSettles
CHECK_DEADLOCK FALSE
