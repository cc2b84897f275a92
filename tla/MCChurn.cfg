SPECIFICATION HistorySpec
CONSTANTS
  TenantA = TenantA
  Node = Node
  Unnamed = Unnamed
  Tenants <- MCTenants
  NodeTenant = Node
  NoTenant = Unnamed
  Requests <- ThreeLong
  Needs = {1}
  Capacity = 3
  OthersHold = {0}
  Unmeasured = FALSE
  DeclaredReserve = 0
  GuaranteedPercent = 50
  QuotaBorrowed = 0
  QuotaGuaranteed = 0
  ReclaimWithin = 1
  MinTerm = 1
  ChurnWindow = 6
  ChurnBudget = 3
  Autonomy = TRUE
  Saves = {"saved"}
  Lag = 1
  MaxClock = 7
INVARIANTS PruningLosesNothing
PROPERTIES LendingBacksOff
