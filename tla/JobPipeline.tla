----------------------------- MODULE JobPipeline -----------------------------
(***************************************************************************)
(* The life of a licensed job: API workers that submit and terminate jobs, *)
(* one executor process per job, the job documents in MongoDB, and the     *)
(* License Manager (LM), an external service.                              *)
(*                                                                         *)
(* MongoDB documents are read whole and written field by field: mongoengine*)
(* saves only what the process changed since it loaded the document.  So   *)
(* every process works on its own stale copy and writes over the others.   *)
(***************************************************************************)
EXTENDS JobTenantMap

CONSTANTS
  Jobs,         \* ids that the platform hands out for submitted jobs
  Workers,      \* API workers; each serves one request at a time
  Algorithms,   \* the algorithms of the licence, one per resource type
  Balance,      \* jobs the customer's licence still allows at the start
  OnPrem,       \* TRUE: executors are subprocesses of a worker; FALSE: AWS Batch
  NoJob, NoWorker, NoTenant

ASSUME JobsAssumption    == NoJob \notin Jobs
ASSUME WorkersAssumption == NoWorker \notin Workers
ASSUME TenantsAssumption == NoTenant \notin Tenants
ASSUME BalanceAssumption == Balance \in Nat
ASSUME OnPremAssumption  == OnPrem \in BOOLEAN

VARIABLES
  status,   \* job documents: status, "ABSENT" while there is no document
  tenants,  \* job documents: tenant_status_map
  reason,   \* job documents: who wrote fail_reason
  api,      \* what each worker is in the middle of
  target,   \* the job a worker's request is about
  grant,    \* the tenant map a worker built for the job it submits
  owner,    \* the worker whose _processes maps the job to its pid (on-prem)
  signal,   \* a termination of the job's executor was requested and will arrive
  pc,       \* where each job's executor is
  scan,     \* scan_tenants not reached yet by the executor's loop
  cur,      \* the tenant the executor is working on
  left,     \* the algorithms still to run for that tenant
  reports,  \* <<tenant, algorithm>> whose results were uploaded
  lm,       \* LM's record of the licensed job '<job>:<tenant>'
  balance   \* jobs LM will still grant

docVars  == <<status, tenants, reason>>
apiVars  == <<api, target, grant>>
platVars == <<owner, signal>>
exVars   == <<pc, scan, cur, left>>
lmVars   == <<lm, balance>>
vars     == <<docVars, apiVars, platVars, exVars, reports, lmVars>>

JobStatus == {"ABSENT", "RUNNABLE", "RUNNING", "SUCCEEDED", "FAILED"}
Terminal  == {"SUCCEEDED", "FAILED"}
ApiPc     == {"idle", "admitted", "launched", "terminating", "signalled"}
ExPc      == {"none", "starting", "loaded", "running", "next", "submit", "scan",
              "notify", "failing", "notifyFailed", "finished", "raising",
              "done", "failed", "lost"}

\* The process is over: "done" it returned from main, "failed" it recorded the
\* exception (or found no document to record it in), "lost" it was killed, or
\* could not even record the exception.
Ended  == {"done", "failed", "lost"}
\* The executor is inside the body of the loop for cur.
InBody == {"submit", "scan", "notify", "failing", "notifyFailed"}

TypeOK ==
  /\ status  \in [Jobs -> JobStatus]
  /\ tenants \in [Jobs -> [Tenants -> TenantValue]]
  /\ reason  \in [Jobs -> {"none", "user", "executor"}]
  /\ api     \in [Workers -> ApiPc]
  /\ target  \in [Workers -> Jobs \cup {NoJob}]
  /\ grant   \in [Workers -> [Tenants -> TenantValue]]
  /\ owner   \in [Jobs -> Workers \cup {NoWorker}]
  /\ signal  \in [Jobs -> BOOLEAN]
  /\ pc      \in [Jobs -> ExPc]
  /\ scan    \in [Jobs -> SUBSET Tenants]
  /\ cur     \in [Jobs -> Tenants \cup {NoTenant}]
  /\ left    \in [Jobs -> SUBSET Algorithms]
  /\ reports \in [Jobs -> SUBSET (Tenants \X Algorithms)]
  /\ lm      \in [Jobs -> [Tenants -> {"none", "granted", "SUCCEEDED", "FAILED"}]]
  /\ balance \in 0..Balance

Init ==
  /\ status  = [j \in Jobs |-> "ABSENT"]
  /\ tenants = [j \in Jobs |-> NoTenants]
  /\ reason  = [j \in Jobs |-> "none"]
  /\ api     = [w \in Workers |-> "idle"]
  /\ target  = [w \in Workers |-> NoJob]
  /\ grant   = [w \in Workers |-> NoTenants]
  /\ owner   = [j \in Jobs |-> NoWorker]
  /\ signal  = [j \in Jobs |-> FALSE]
  /\ pc      = [j \in Jobs |-> "none"]
  /\ scan    = [j \in Jobs |-> {}]
  /\ cur     = [j \in Jobs |-> NoTenant]
  /\ left    = [j \in Jobs |-> {}]
  /\ reports = [j \in Jobs |-> {}]
  /\ lm      = [j \in Jobs |-> [t \in Tenants |-> "none"]]
  /\ balance = Balance

-----------------------------------------------------------------------------
(* API workers: JobProcessor.post and JobProcessor.delete                  *)

\* The request is over, answered or aborted.
Release(w) ==
  /\ api'    = [api EXCEPT ![w] = "idle"]
  /\ target' = [target EXCEPT ![w] = NoJob]
  /\ grant'  = [grant EXCEPT ![w] = NoTenants]

\* post, up to LM's answer: the tenants to scan pass validation, LM allows some
\* of them or none, lists those in an order of its own and tells the remaining
\* balance.  (A request that is refused before this point changes nothing; LM
\* may also forbid every tenant, and the job is submitted all the same.)
ensure_job_is_allowed(w) ==
  /\ api[w] = "idle"
  /\ \E scan_tenants \in SUBSET Tenants \ {{}} :
       \E permitted \in SUBSET scan_tenants :
         /\ balance = 0 => permitted = {}
         /\ \E allowed \in Listings(permitted) :
              grant' = [grant EXCEPT ![w] =
                build_job_tenant_map(scan_tenants \ permitted, allowed, balance)]
  /\ api' = [api EXCEPT ![w] = "admitted"]
  /\ UNCHANGED <<docVars, target, platVars, exVars, reports, lmVars>>

\* batch_client.submit_job: the platform starts the executor under a new id.
submit_job(w, j) ==
  /\ api[w] = "admitted"
  /\ pc[j] = "none"
  /\ api'    = [api EXCEPT ![w] = "launched"]
  /\ target' = [target EXCEPT ![w] = j]
  /\ owner'  = [owner EXCEPT ![j] = IF OnPrem THEN w ELSE NoWorker]
  /\ pc'     = [pc EXCEPT ![j] = "starting"]
  /\ UNCHANGED <<docVars, grant, signal, scan, cur, left, reports, lmVars>>

\* Only now is the job's document written.
save_job(w) ==
  /\ api[w] = "launched"
  /\ LET j == target[w] IN
       /\ status'  = [status EXCEPT ![j] = "RUNNABLE"]
       /\ tenants' = [tenants EXCEPT ![j] = grant[w]]
  /\ Release(w)
  /\ UNCHANGED <<reason, platVars, exVars, reports, lmVars>>

\* delete loads the document and gives up when the job is over.
delete(w, j) ==
  /\ api[w] = "idle"
  /\ status[j] \notin Terminal \cup {"ABSENT"}
  /\ api'    = [api EXCEPT ![w] = "terminating"]
  /\ target' = [target EXCEPT ![w] = j]
  /\ UNCHANGED <<docVars, grant, platVars, exVars, reports, lmVars>>

\* terminate_job: Batch knows every job; a worker knows only the subprocesses
\* it started itself and does nothing, silently, about the others.
terminate_job(w) ==
  /\ api[w] = "terminating"
  /\ LET j == target[w] IN
       IF OnPrem
         THEN /\ signal' = [signal EXCEPT ![j] = IF owner[j] = w THEN TRUE ELSE @]
              /\ owner'  = [owner EXCEPT ![j] = IF @ = w THEN NoWorker ELSE @]
         ELSE /\ signal' = [signal EXCEPT ![j] = TRUE]
              /\ UNCHANGED owner
  /\ api' = [api EXCEPT ![w] = "signalled"]
  /\ UNCHANGED <<docVars, target, grant, exVars, reports, lmVars>>

\* Mutant: the document is saved without its fail_reason.
save_terminated_NoReason(w) ==
  /\ api[w] = "signalled"
  /\ status' = [status EXCEPT ![target[w]] = "FAILED"]
  /\ Release(w)
  /\ UNCHANGED <<tenants, reason, platVars, exVars, reports, lmVars>>

\* The two fields changed in the worker's copy are saved.
save_terminated(w) ==
  /\ api[w] = "signalled"
  /\ status' = [status EXCEPT ![target[w]] = "FAILED"]
  /\ reason' = [reason EXCEPT ![target[w]] = "user"]
  /\ Release(w)
  /\ UNCHANGED <<tenants, platVars, exVars, reports, lmVars>>

\* The request fails half way: the platform refuses, a call or a save raises.
RequestFails(w) ==
  /\ api[w] # "idle"
  /\ Release(w)
  /\ UNCHANGED <<docVars, platVars, exVars, reports, lmVars>>

\* gunicorn replaces the worker: its request and its _processes are gone.
WorkerRestart(w) ==
  /\ Release(w)
  /\ owner' = [j \in Jobs |-> IF owner[j] = w THEN NoWorker ELSE owner[j]]
  /\ UNCHANGED <<docVars, signal, exVars, reports, lmVars>>

-----------------------------------------------------------------------------
(* The executor process of job j: docker/executor.py                       *)

Goto(j, label) == pc' = [pc EXCEPT ![j] = label]

\* main loads the document; the tenants to scan are those of this copy.
FindJob(j) ==
  /\ pc[j] = "starting"
  /\ status[j] # "ABSENT"
  /\ scan' = [scan EXCEPT ![j] = get_scan_tenants(tenants[j])]
  /\ Goto(j, "loaded")
  /\ UNCHANGED <<docVars, apiVars, platVars, cur, left, reports, lmVars>>

\* "Job with id ... does not exist": the document may simply not be saved yet.
JobNotFound(j) ==
  /\ pc[j] = "starting"
  /\ status[j] = "ABSENT"
  /\ Goto(j, "raising")
  /\ UNCHANGED <<docVars, apiVars, platVars, scan, cur, left, reports, lmVars>>

\* set_status(RUNNING) on the loaded copy, whatever the document holds by now.
SetRunning(j) ==
  /\ pc[j] = "loaded"
  /\ status' = [status EXCEPT ![j] = "RUNNING"]
  /\ Goto(j, "running")
  /\ UNCHANGED <<tenants, reason, apiVars, platVars, scan, cur, left, reports, lmVars>>

\* Application, host application, algorithms, storages and parents are found.
Initialize(j) ==
  /\ pc[j] = "running"
  /\ Goto(j, "next")
  /\ UNCHANGED <<docVars, apiVars, platVars, scan, cur, left, reports, lmVars>>

\* for tenant in scan_tenants
PickTenant(j, t) ==
  /\ pc[j] = "next"
  /\ t \in scan[j]
  /\ scan' = [scan EXCEPT ![j] = @ \ {t}]
  /\ cur'  = [cur EXCEPT ![j] = t]
  /\ Goto(j, "submit")
  /\ UNCHANGED <<docVars, apiVars, platVars, left, reports, lmVars>>

\* submit_licensed_job: LM grants the job and takes it from the balance.
GrantLicense(j) ==
  /\ lm[j][cur[j]] = "none"
  /\ balance > 0
  /\ lm' = [lm EXCEPT ![j][cur[j]] = "granted"]
  /\ balance' = balance - 1

\* Mutant: the answer to a refused licence is taken for a grant.
submit_licensed_job_Unchecked(j) ==
  /\ pc[j] = "submit"
  /\ left' = [left EXCEPT ![j] = Algorithms]
  /\ Goto(j, "scan")
  /\ UNCHANGED <<docVars, apiVars, platVars, scan, cur, reports, lmVars>>

submit_licensed_job(j) ==
  /\ pc[j] = "submit"
  /\ GrantLicense(j)
  /\ left' = [left EXCEPT ![j] = Algorithms]
  /\ Goto(j, "scan")
  /\ UNCHANGED <<docVars, apiVars, platVars, scan, cur, reports>>

\* LM granted the job but its answer never came: the client returns None, and
\* reading the algorithms from None raises.
LicenseAnswerLost(j) ==
  /\ pc[j] = "submit"
  /\ GrantLicense(j)
  /\ Goto(j, "failing")
  /\ UNCHANGED <<docVars, apiVars, platVars, scan, cur, left, reports>>

\* One algorithm over the tenant's resources, up to the upload of its results.
process_tenant_instances(j, a) ==
  /\ pc[j] = "scan"
  /\ a \in left[j]
  /\ left'    = [left EXCEPT ![j] = @ \ {a}]
  /\ reports' = [reports EXCEPT ![j] = @ \cup {<<cur[j], a>>}]
  /\ UNCHANGED <<docVars, apiVars, platVars, pc, scan, cur, lmVars>>

\* Mutant: the tenant is saved as SUCCEEDED after its first algorithm.
SaveSucceeded_Early(j) ==
  /\ pc[j] = "scan"
  /\ left[j] # Algorithms
  /\ tenants' = [tenants EXCEPT ![j][cur[j]] = "SUCCEEDED"]
  /\ Goto(j, "notify")
  /\ UNCHANGED <<status, reason, apiVars, platVars, scan, cur, left, reports, lmVars>>

\* set_licensed_job_status(SUCCEEDED), its first half: the document.
SaveSucceeded(j) ==
  /\ pc[j] = "scan"
  /\ left[j] = {}
  /\ tenants' = [tenants EXCEPT ![j][cur[j]] = "SUCCEEDED"]
  /\ Goto(j, "notify")
  /\ UNCHANGED <<status, reason, apiVars, platVars, scan, cur, left, reports, lmVars>>

\* ... its second half: LM is told; a lost update is not noticed.
NotifySucceeded(j) ==
  /\ pc[j] = "notify"
  /\ \/ lm' = [lm EXCEPT ![j][cur[j]] = "SUCCEEDED"]
     \/ UNCHANGED lm
  /\ cur' = [cur EXCEPT ![j] = NoTenant]
  /\ Goto(j, "next")
  /\ UNCHANGED <<docVars, apiVars, platVars, scan, left, reports, balance>>

\* Mutant: the loop's handler goes on without recording the failure.
BodyFails_Swallowed(j) ==
  /\ pc[j] \in {"submit", "scan", "notify"}
  /\ left' = [left EXCEPT ![j] = {}]
  /\ cur'  = [cur EXCEPT ![j] = NoTenant]
  /\ Goto(j, "next")
  /\ UNCHANGED <<docVars, apiVars, platVars, scan, reports, lmVars>>

\* The body of the loop raises: the licence is refused or not answered, the
\* scan or a save fails, no token for LM can be had.
BodyFails(j) ==
  /\ pc[j] \in {"submit", "scan", "notify"}
  /\ left' = [left EXCEPT ![j] = {}]
  /\ Goto(j, "failing")
  /\ UNCHANGED <<docVars, apiVars, platVars, scan, cur, reports, lmVars>>

\* set_licensed_job_status(FAILED, fail_reason): the reason, when it has any
\* text, replaces the status it was meant to explain.
SaveFailed(j) ==
  /\ pc[j] = "failing"
  /\ \E v \in FailedValue : tenants' = [tenants EXCEPT ![j][cur[j]] = v]
  /\ Goto(j, "notifyFailed")
  /\ UNCHANGED <<status, reason, apiVars, platVars, scan, cur, left, reports, lmVars>>

\* Mutant: LM is sent the value of the status map instead of the status.
NotifyFailed_MapValue(j) ==
  /\ pc[j] = "notifyFailed"
  /\ lm'  = [lm EXCEPT ![j][cur[j]] = tenants[j][cur[j]]]
  /\ cur' = [cur EXCEPT ![j] = NoTenant]
  /\ Goto(j, "next")
  /\ UNCHANGED <<docVars, apiVars, platVars, scan, left, reports, balance>>

\* Mutant: an update that LM does not confirm is made again, from the start.
NotifyFailed_Retry(j) ==
  /\ pc[j] = "notifyFailed"
  /\ \/ /\ lm' = [lm EXCEPT ![j][cur[j]] = "FAILED"]
        /\ cur' = [cur EXCEPT ![j] = NoTenant]
        /\ Goto(j, "next")
     \/ UNCHANGED <<lm, cur>> /\ Goto(j, "failing")
  /\ UNCHANGED <<docVars, apiVars, platVars, scan, left, reports, balance>>

\* LM is told, as the default customer: the update may go nowhere.
NotifyFailed(j) ==
  /\ pc[j] = "notifyFailed"
  /\ \/ /\ lm[j][cur[j]] = "granted"
        /\ lm' = [lm EXCEPT ![j][cur[j]] = "FAILED"]
     \/ UNCHANGED lm
  /\ cur' = [cur EXCEPT ![j] = NoTenant]
  /\ Goto(j, "next")
  /\ UNCHANGED <<docVars, apiVars, platVars, scan, left, reports, balance>>

\* Every tenant was dealt with, however: set_status(SUCCEEDED).
FinishJob(j) ==
  /\ pc[j] = "next"
  /\ scan[j] = {}
  /\ status' = [status EXCEPT ![j] = "SUCCEEDED"]
  /\ Goto(j, "finished")
  /\ UNCHANGED <<tenants, reason, apiVars, platVars, scan, cur, left, reports, lmVars>>

\* The profile log is uploaded, the work directory is removed.
CleanUp(j) ==
  /\ pc[j] = "finished"
  /\ Goto(j, "done")
  /\ UNCHANGED <<docVars, apiVars, platVars, scan, cur, left, reports, lmVars>>

\* Mutant: an exception of the loop's handlers is swallowed, the loop goes on.
MainRaises_LoopGoesOn(j) ==
  /\ \/ pc[j] \in {"starting", "loaded", "running", "finished"} /\ Goto(j, "raising")
     \/ pc[j] \in {"failing", "notifyFailed"} /\ Goto(j, "next")
     \/ pc[j] = "next" /\ scan[j] = {} /\ Goto(j, "raising")
  /\ UNCHANGED <<docVars, apiVars, platVars, scan, cur, left, reports, lmVars>>

\* An exception leaves main: raised outside the loop's try, or by one of the
\* handlers of that try.
MainRaises(j) ==
  /\ \/ pc[j] \in {"starting", "loaded", "running", "failing", "notifyFailed", "finished"}
     \/ pc[j] = "next" /\ scan[j] = {}
  /\ Goto(j, "raising")
  /\ UNCHANGED <<docVars, apiVars, platVars, scan, cur, left, reports, lmVars>>

\* Mutant: a document that is missing is created.
set_job_fail_reason_Upsert(j) ==
  /\ pc[j] = "raising"
  /\ status' = [status EXCEPT ![j] = "FAILED"]
  /\ reason' = [reason EXCEPT ![j] = "executor"]
  /\ Goto(j, "failed")
  /\ UNCHANGED <<tenants, apiVars, platVars, scan, cur, left, reports, lmVars>>

\* set_job_fail_reason works on a fresh copy, if there is a document by now.
set_job_fail_reason(j) ==
  /\ pc[j] = "raising"
  /\ IF status[j] = "ABSENT"
       THEN UNCHANGED <<status, reason>>
       ELSE /\ status' = [status EXCEPT ![j] = "FAILED"]
            /\ reason' = [reason EXCEPT ![j] = "executor"]
  /\ Goto(j, "failed")
  /\ UNCHANGED <<tenants, apiVars, platVars, scan, cur, left, reports, lmVars>>

\* The process dies between any two steps (out of memory, host lost, or
\* recording the failure fails as well).  Nothing restarts it.
Crash(j) ==
  /\ pc[j] \notin Ended \cup {"none"}
  /\ Goto(j, "lost")
  /\ UNCHANGED <<docVars, apiVars, platVars, scan, cur, left, reports, lmVars>>

\* A requested termination arrives.
Terminated(j) ==
  /\ signal[j]
  /\ Crash(j)

-----------------------------------------------------------------------------
Request(w) ==
  \/ ensure_job_is_allowed(w)
  \/ \E j \in Jobs : submit_job(w, j) \/ delete(w, j)
  \/ save_job(w) \/ terminate_job(w) \/ save_terminated(w)
  \/ RequestFails(w)

Executor(j) ==
  \/ FindJob(j) \/ JobNotFound(j) \/ SetRunning(j) \/ Initialize(j)
  \/ \E t \in Tenants : PickTenant(j, t)
  \/ submit_licensed_job(j) \/ LicenseAnswerLost(j)
  \/ \E a \in Algorithms : process_tenant_instances(j, a)
  \/ SaveSucceeded(j) \/ NotifySucceeded(j)
  \/ BodyFails(j) \/ SaveFailed(j) \/ NotifyFailed(j)
  \/ FinishJob(j) \/ CleanUp(j) \/ MainRaises(j) \/ set_job_fail_reason(j)

Next ==
  \/ \E w \in Workers : Request(w) \/ WorkerRestart(w)
  \/ \E j \in Jobs : Executor(j) \/ Crash(j) \/ Terminated(j)

\* A process that is not killed keeps running, a requested termination arrives;
\* nothing obliges a user to send requests or an exception to be raised.
Fairness == \A j \in Jobs : WF_vars(Executor(j)) /\ WF_vars(Terminated(j))

Spec     == Init /\ [][Next]_vars
FairSpec == Spec /\ Fairness

-----------------------------------------------------------------------------
(* What is expected of the pipeline                                        *)

Ledger == INSTANCE ScanLedger
            WITH outcome <- tenants, record <- lm, results <- reports

\* The executor keeps the document, LM and the uploaded results in the relation
\* that ScanLedger promises, whatever fails and whoever else writes.
RefinesLedger == Ledger!Spec

\* What follows from that relation: no licence and no scan for a tenant that is
\* not allowed, a licence and all results behind every success, and no outcome at
\* LM that the document contradicts.
LedgerConsistent == Ledger!Consistent

\* main returned: the document says SUCCEEDED, or a user terminated the job
\* while (or after) it ran and that was written last.
ReturnedJobIsSettled ==
  \A j \in Jobs : pc[j] = "done" =>
    status[j] = "SUCCEEDED" \/ (status[j] = "FAILED" /\ reason[j] = "user")

\* A job is not declared SUCCEEDED while a tenant is still waiting to be scanned.
SucceededJobLeavesNoRunnable ==
  \A j \in Jobs : status[j] = "SUCCEEDED" =>
    \A t \in Tenants : tenants[j][t] # "RUNNABLE"

\* A licence is in doubt while the tenant it was taken for has no outcome in the
\* document.  Whatever fails in the loop or in its handlers, and wherever the
\* executor is killed, a job leaves one such tenant at most: those it has not
\* reached cost nothing, and those it has dealt with have their outcome.
InDoubt(j, t) == tenants[j][t] = "RUNNABLE" /\ lm[j][t] # "none"

OneLicenceIsInDoubt ==
  \A j \in Jobs, t, u \in Tenants : InDoubt(j, t) /\ InDoubt(j, u) => t = u

\* Once the executor is gone, a job that FAILED stays FAILED: a late request
\* does not bring it back.
FailedStaysAfterExecutor ==
  [][\A j \in Jobs : pc[j] \in Ended /\ status[j] = "FAILED" => status'[j] = "FAILED"]_vars

\* An executor that found its document leaves it settled unless it is lost.
LoadedJobSettles ==
  \A j \in Jobs :
    pc[j] = "loaded" ~> pc[j] = "lost" \/ (pc[j] \in Ended /\ status[j] \in Terminal)

\* The fail_reason "Terminated by user" (job_processor.py:341) is the reason of a
\* failure: a job that bears it has not succeeded.  It may have: the executor
\* works on its own copy and writes RUNNING and SUCCEEDED over the FAILED.
TerminatedHasNotSucceeded ==
  \A j \in Jobs : reason[j] = "user" => status[j] # "SUCCEEDED"
=============================================================================
