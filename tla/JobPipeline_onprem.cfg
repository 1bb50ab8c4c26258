\* One job on premises, seen by two workers: races over its document.
CONSTANTS
  Jobs = {j1}  Workers = {w1, w2}  Tenants = {t1, t2}  Algorithms = {a1, a2}
  Balance = 2  OnPrem = TRUE
  NoJob = NoJob  NoWorker = NoWorker  NoTenant = NoTenant
SPECIFICATION Spec
SYMMETRY Symmetry
INVARIANTS TypeOK ReturnedJobIsSettled SucceededJobLeavesNoRunnable
  OneLicenceIsInDoubt LedgerConsistent
PROPERTIES FailedStaysAfterExecutor RefinesLedger
