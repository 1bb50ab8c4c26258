\* Two workers that share a host; more jobs than either may run.
CONSTANTS
  Workers = {w1, w2}  Jobs = {j1, j2, j3}  Pids = {p1, p2, p3, p4}  MaxJobs = 2
  NoWorker = NoWorker  NoJob = NoJob  NoPid = NoPid
SPECIFICATION Spec
SYMMETRY Symmetry
INVARIANTS RunningChildIsTracked RunningWithinLimit TrackedIsOwnExecutor
