SPECIFICATION AgentSpec
CONSTANTS
  TenantA = TenantA
  Node = Node
  Unnamed = Unnamed
  Tenants <- MCTenants
  NodeTenant = Node
  NoTenant = Unnamed
  Requests <- TwoRequests
  Needs = {1}
  Capacity = 2
  OthersHold = {0}
  Unmeasured = FALSE
  DeclaredReserve = 0
  GuaranteedPercent = 50
  QuotaBorrowed = 0
  QuotaGuaranteed = 0
  ReclaimWithin = 1
  MinTerm = 1
  ChurnWindow = 0
  ChurnBudget = 0
  Autonomy = FALSE
  Saves = {"saved"}
  Lag = 0
  MaxClock = 2
  Callers = {c1, c2}
  Faults = FALSE
  PromptReclaim = TRUE
INVARIANTS LeaseAtRestHasExtent
