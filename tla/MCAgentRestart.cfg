SPECIFICATION AgentSpec
CONSTANTS
  TenantA = TenantA
  Node = Node
  Unnamed = Unnamed
  Tenants <- MCTenants
  NodeTenant = Node
  NoTenant = Unnamed
  Requests <- EitherRequest
  Needs = {1}
  Capacity = 2
  OthersHold = {0}
  Unmeasured = FALSE
  DeclaredReserve = 0
  GuaranteedPercent = 50
  QuotaBorrowed = 0
  QuotaGuaranteed = 0
  ReclaimWithin = 1
  MinTerm = 1
  ChurnWindow = 0
  ChurnBudget = 0
  Autonomy = FALSE
  Saves = {"saved", "failed", "unsynced"}
  Lag = 0
  MaxClock = 1
  Callers = {c1}
  Faults = TRUE
  PromptReclaim = FALSE
PROPERTIES ReconciledAtOpen FreshExtent FreedAfterGone
INVARIANT DrainedHoldsNothing
