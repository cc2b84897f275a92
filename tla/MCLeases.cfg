SPECIFICATION Spec
CONSTANTS
  TenantA = TenantA
  TenantB = TenantB
  Node = Node
  Unnamed = Unnamed
  Tenants <- MCTenants
  NodeTenant = Node
  NoTenant = Unnamed
  Requests <- MCRequests
  Needs = {1, 3}
  Capacity = 6
  OthersHold = {0, 3}
  Unmeasured = TRUE
  DeclaredReserve = 1
  GuaranteedPercent = 50
  QuotaBorrowed = 3
  QuotaGuaranteed = 2
  ReclaimWithin = 1
  MinTerm = 0
  ChurnWindow = 0
  ChurnBudget = 0
  Autonomy = FALSE
  Saves = {"saved", "failed", "unsynced"}
  Lag = 1
  MaxClock = 2
INVARIANTS BooksBalance JournalCovers GuaranteeCapHeld TenantQuotaHeld
PROPERTIES ReclaimLadder GuaranteeHonoured
