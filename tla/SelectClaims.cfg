CONSTANTS
  Tenants <- MCTenants
  Entities <- MCEntities
  Times <- MCTimes
  MaxTasks = 4
  Limits <- MCLimits
  PerTenantLimits <- MCPerTenantLimits
  InProgress <- MCInProgress
SPECIFICATION Spec
INVARIANTS WithinQuota ChoosesInTurns
PROPERTIES Terminates
