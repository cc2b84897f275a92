CONSTANTS
  Calls <- MCCalls
  Request <- MCRequest
  GuaranteedShare = 2
  Term = 1
  Attempts = 2
  Backends = {"file", "s3"}
  CachedIds = {"A"}
  Nothing = Nothing
  MaxFaults = 0
  MaxCrashes = 0
SPECIFICATION Spec
INVARIANT DurableIsDurable
CHECK_DEADLOCK FALSE
