\* Progress of one executor on AWS Batch while one worker submits, terminates and restarts.
CONSTANTS
  Jobs = {j1}  Workers = {w1}  Tenants = {t1, t2}  Algorithms = {a1, a2}
  Balance = 2  OnPrem = FALSE
  NoJob = NoJob  NoWorker = NoWorker  NoTenant = NoTenant
SPECIFICATION FairSpec
PROPERTIES LoadedJobSettles
