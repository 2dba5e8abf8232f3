SPECIFICATION FairSpec
CONSTANTS
  a1 = a1 b1 = b1 a = a b = b
  Save <- MCSaves
  Tenant <- MCTenants
  TenantOf <- MCTenantOf
  Call = {k1, k2}
  Free = free
  Unit = 2
  Reading = {0, 2}
  MaxRestarts = 1
INVARIANTS Complete Monotonic
PROPERTIES Final StampsRise Answers
CHECK_DEADLOCK FALSE
