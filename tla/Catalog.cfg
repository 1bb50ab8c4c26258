SPECIFICATION Spec
CONSTANTS
  None = None
  Default = Default
  s1 = s1
  s2 = s2
  m5 = m5
  t3 = t3
  vm = vm
  rds = rds
  acme = acme
  emca = emca
  k1 = k1
  k2 = k2
  r1 = r1
  r2 = r2
  Requests = {r1, r2}
  Storages = {s1, s2}
  Shapes = {m5, t3}
  Algorithms = {vm, rds}
  Customers = {acme, emca}
  Keys = {k1, k2}
  Listed <- MCListed
  Values = {1}
  Budgets <- MCBudgets
  MaxApps = 4
  MaxParents = 4
SYMMETRY Symmetry
CHECK_DEADLOCK FALSE
INVARIANTS TypeOK RulesAndGroupsAreKept HostKeepsItsParent SecretsMatchApplications
  SyncedLicenseIsUsable LicensedSettingsAreIssued PriceIsKept
  HealthChecksTellTheTruth
