CONSTANTS
  Jobs = {j1}  Workers = {w1}  Tenants = {t1}  Algorithms = {a1}
  Balance = 1  OnPrem = FALSE
  NoJob = NoJob  NoWorker = NoWorker  NoTenant = NoTenant
SPECIFICATION Spec
INVARIANTS TerminatedHasNotSucceeded
