---------------------------- MODULE SubprocessPool ----------------------------
(***************************************************************************)
(* On premises the executors are subprocesses of the API workers.  Each    *)
(* gunicorn worker has a BatchToSubprocessAdapter of its own, which maps   *)
(* the jobs it started to their pids and counts them against the limit.    *)
(*                                                                         *)
(* The operating system's part is modelled as far as the adapter sees it:  *)
(* psutil.pid_exists is TRUE of a zombie; a child stays a zombie until its *)
(* parent reaps it, which subprocess does at the start of the next Popen;  *)
(* children of a dead worker are reaped by init; pids are handed out in a  *)
(* cycle, so that a pid just freed is not handed out again in the same     *)
(* call of Popen (state "freed").                                          *)
(***************************************************************************)
EXTENDS Naturals, FiniteSets

CONSTANTS
  Workers, Jobs, Pids,
  MaxJobs,     \* MAX_NUMBER_OF_JOBS
  NoWorker, NoJob, NoPid

ASSUME MaxJobsAssumption == MaxJobs \in Nat \ {0}
ASSUME JobsAssumption == IsFiniteSet(Jobs)
ASSUME NoneAssumption == NoWorker \notin Workers /\ NoJob \notin Jobs /\ NoPid \notin Pids

VARIABLES
  kind,       \* what each pid is
  job,        \* the BATCH_JOB_ID in the environment of an executor
  parent,     \* the worker that forked it, NoWorker once that is dead
  processes,  \* _processes of each worker: job -> pid
  ids,        \* job ids generated so far
  req,        \* where a worker is inside submit_job
  child,      \* the pid that Popen returned to it
  early       \* an executor may end before the call that starts it returns; a
              \* property of the host, which no step changes

vars == <<kind, job, parent, processes, ids, req, child, early>>

PidKind == {"free", "freed", "other", "running", "signalled", "zombie"}

TypeOK ==
  /\ kind      \in [Pids -> PidKind]
  /\ job       \in [Pids -> Jobs \cup {NoJob}]
  /\ parent    \in [Pids -> Workers \cup {NoWorker}]
  /\ processes \in [Workers -> [Jobs -> Pids \cup {NoPid}]]
  /\ ids       \subseteq Jobs
  /\ req       \in [Workers -> {"idle", "checked", "spawned", "rejected"}]
  /\ child     \in [Workers -> Pids \cup {NoPid}]
  /\ early     \in BOOLEAN

Init ==
  /\ kind      \in [Pids -> {"free", "other"}]
  /\ job       = [p \in Pids |-> NoJob]
  /\ parent    = [p \in Pids |-> NoWorker]
  /\ processes = [w \in Workers |-> [j \in Jobs |-> NoPid]]
  /\ ids       = {}
  /\ req       = [w \in Workers |-> "idle"]
  /\ child     = [w \in Workers |-> NoPid]
  /\ early     \in BOOLEAN

-----------------------------------------------------------------------------
\* psutil.pid_exists
check_if_process_is_running(p) == kind[p] \notin {"free", "freed"}

\* The property "processes" drops the jobs whose pid is gone, then is the map.
Pruned(w) ==
  [j \in Jobs |->
     IF processes[w][j] # NoPid /\ check_if_process_is_running(processes[w][j])
       THEN processes[w][j]
       ELSE NoPid]

Count(map) == Cardinality({j \in Jobs : map[j] # NoPid})

\* Mutant: the comparison lets one job too many pass.
check_ability_to_start_job_OffByOne(w) ==
  /\ req[w] = "idle"
  /\ processes' = [processes EXCEPT ![w] = Pruned(w)]
  /\ req' = [req EXCEPT ![w] = IF Count(Pruned(w)) > MaxJobs THEN "rejected" ELSE "checked"]
  /\ UNCHANGED <<kind, job, parent, ids, child, early>>

check_ability_to_start_job(w) ==
  /\ req[w] = "idle"
  /\ processes' = [processes EXCEPT ![w] = Pruned(w)]
  /\ req' = [req EXCEPT ![w] = IF Count(Pruned(w)) >= MaxJobs THEN "rejected" ELSE "checked"]
  /\ UNCHANGED <<kind, job, parent, ids, child, early>>

\* "The maximum number of jobs has already been started"
Reject(w) ==
  /\ req[w] = "rejected"
  /\ req' = [req EXCEPT ![w] = "idle"]
  /\ UNCHANGED <<kind, job, parent, processes, ids, child, early>>

\* Popen reaps the worker's finished children, then forks the executor.
Popen(w, j, p) ==
  /\ req[w] = "checked"
  /\ j \notin ids
  /\ kind[p] = "free"
  /\ kind' = [q \in Pids |-> IF q = p THEN "running"
                             ELSE IF kind[q] = "zombie" /\ parent[q] = w THEN "freed"
                             ELSE kind[q]]
  /\ job'    = [job EXCEPT ![p] = j]
  /\ parent' = [parent EXCEPT ![p] = w]
  /\ ids'    = ids \cup {j}
  /\ req'    = [req EXCEPT ![w] = "spawned"]
  /\ child'  = [child EXCEPT ![w] = p]
  /\ UNCHANGED <<processes, early>>

\* submit_job returns and its Popen object is collected: it polls the child once.
Collect(w) ==
  /\ kind'  = IF kind[child[w]] = "zombie" THEN [kind EXCEPT ![child[w]] = "freed"] ELSE kind
  /\ req'   = [req EXCEPT ![w] = "idle"]
  /\ child' = [child EXCEPT ![w] = NoPid]
  /\ UNCHANGED <<job, parent, ids, early>>

\* Mutant: the new pid is stored in the map as it was before it was pruned.
Track_Unpruned(w) ==
  /\ req[w] = "spawned"
  /\ processes' = [processes EXCEPT ![w][job[child[w]]] = child[w]]
  /\ Collect(w)

\* self.processes[job_id] = process.pid: pruned once more, then extended.
Track(w) ==
  /\ req[w] = "spawned"
  /\ processes' = [processes EXCEPT ![w] = [Pruned(w) EXCEPT ![job[child[w]]] = child[w]]]
  /\ Collect(w)

\* Mutant: the job is dropped without its process being terminated.
terminate_job_Forgotten(w, j) ==
  /\ req[w] = "idle"
  /\ processes' = [processes EXCEPT ![w] = [Pruned(w) EXCEPT ![j] = NoPid]]
  /\ UNCHANGED <<kind, job, parent, ids, req, child, early>>

\* A job the worker does not track is left alone.  A tracked one is signalled
\* and forgotten at once, though it may take its time to die.
terminate_job(w, j) ==
  /\ req[w] = "idle"
  /\ LET p == Pruned(w)[j] IN
       kind' = IF p = NoPid \/ kind[p] = "zombie" THEN kind
               ELSE IF kind[p] = "other" THEN [kind EXCEPT ![p] = "freed"]
               ELSE [kind EXCEPT ![p] = "signalled"]
  /\ processes' = [processes EXCEPT ![w] = [Pruned(w) EXCEPT ![j] = NoPid]]
  /\ UNCHANGED <<job, parent, ids, req, child, early>>

\* gunicorn replaces a worker (a crash, or a request that takes too long): its
\* map is lost, its children go to init, which reaps those that have finished.
WorkerRestart(w) ==
  /\ kind'   = [p \in Pids |-> IF kind[p] = "zombie" /\ parent[p] = w THEN "freed" ELSE kind[p]]
  /\ parent' = [p \in Pids |-> IF parent[p] = w THEN NoWorker ELSE parent[p]]
  /\ processes' = [processes EXCEPT ![w] = [j \in Jobs |-> NoPid]]
  /\ req'   = [req EXCEPT ![w] = "idle"]
  /\ child' = [child EXCEPT ![w] = NoPid]
  /\ UNCHANGED <<job, ids, early>>

-----------------------------------------------------------------------------
(* The operating system                                                    *)

\* An executor ends, by itself or by the signal.
Exit(p) ==
  /\ kind[p] \in {"running", "signalled"}
  /\ early \/ \A w \in Workers : child[w] # p
  /\ kind' = [kind EXCEPT ![p] = IF parent[p] = NoWorker THEN "freed" ELSE "zombie"]
  /\ UNCHANGED <<job, parent, processes, ids, req, child, early>>

\* A pid that was freed comes round again, but not within a call of Popen.
Recycle(p) ==
  /\ kind[p] = "freed"
  /\ \A w \in Workers : req[w] # "spawned"
  /\ kind'   = [kind EXCEPT ![p] = "free"]
  /\ job'    = [job EXCEPT ![p] = NoJob]
  /\ parent' = [parent EXCEPT ![p] = NoWorker]
  /\ UNCHANGED <<processes, ids, req, child, early>>

\* Any other process of the host.
OtherStarts(p) ==
  /\ kind[p] = "free"
  /\ kind' = [kind EXCEPT ![p] = "other"]
  /\ UNCHANGED <<job, parent, processes, ids, req, child, early>>

OtherEnds(p) ==
  /\ kind[p] = "other"
  /\ kind' = [kind EXCEPT ![p] = "freed"]
  /\ UNCHANGED <<job, parent, processes, ids, req, child, early>>

Next ==
  \/ \E w \in Workers :
       \/ check_ability_to_start_job(w) \/ Reject(w) \/ Track(w) \/ WorkerRestart(w)
       \/ \E j \in Jobs : terminate_job(w, j) \/ \E p \in Pids : Popen(w, j, p)
  \/ \E p \in Pids : Exit(p) \/ Recycle(p) \/ OtherStarts(p) \/ OtherEnds(p)

Spec == Init /\ [][Next]_vars

-----------------------------------------------------------------------------
\* A pid in a worker's map is that of the executor of the very job, a child of
\* the worker: counting it is counting a job, terminating it hits nobody else.
\* (An executor that ends before submit_job returns is the exception: it is reaped
\* and its pid may come round again while it is still in the map.)
TrackedIsOwnExecutor ==
  \A w \in Workers, j \in Jobs :
    LET p == processes[w][j] IN ~early /\ p # NoPid =>
      \/ kind[p] \in {"running", "zombie"} /\ job[p] = j /\ parent[p] = w
      \/ kind[p] = "freed" /\ req[w] = "spawned"

\* The converse: a worker can terminate every executor it started that was not
\* terminated yet, except in the middle of starting it.
RunningChildIsTracked ==
  \A w \in Workers, p \in Pids :
    kind[p] = "running" /\ parent[p] = w =>
      processes[w][job[p]] = p \/ (req[w] = "spawned" /\ child[w] = p)

\* The limit: of the executors that a worker started and did not terminate, no
\* more than MAX_NUMBER_OF_JOBS run at a time.
RunningWithinLimit ==
  \A w \in Workers :
    Cardinality({p \in Pids : kind[p] = "running" /\ parent[p] = w}) <= MaxJobs
=============================================================================
