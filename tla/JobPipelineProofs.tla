-------------------------- MODULE JobPipelineProofs --------------------------
(***************************************************************************)
(* Proofs about JobPipeline, for any number of jobs, workers, tenants and  *)
(* algorithms, on premises and on AWS Batch alike.                         *)
(*                                                                         *)
(* None of the properties is inductive: each depends on where the executor *)
(* is.  IInv adds, for every place, what the document, LM and the uploaded *)
(* results hold of the tenants still to be scanned and of the current one, *)
(* and that only a request that launched a job can create its document.    *)
(***************************************************************************)
EXTENDS JobPipeline, TLAPS

Granted == [Tenants -> {"ABSENT", "FORBIDDEN", "RUNNABLE"}]

\* Where the executor still works with the scan list it read.
InLoop == {"loaded", "running", "next"} \cup InBody

\* The types, with the variables that are set wherever they are used: the job of
\* a request, the tenant of the loop's body.
TypeInv ==
  /\ TypeOK
  /\ \A w \in Workers : api[w] \in {"launched", "terminating", "signalled"} => target[w] \in Jobs
  /\ \A j \in Jobs : pc[j] \in InBody => cur[j] \in Tenants

\* A document has no tenants before it is saved; it is saved once, by the one
\* worker that launched the job.
DocumentInv ==
  /\ \A j \in Jobs : status[j] = "ABSENT" => tenants[j] = NoTenants
  /\ \A j \in Jobs : pc[j] = "none" => status[j] = "ABSENT"
  /\ \A j \in Jobs : pc[j] \in InLoop \cup {"finished", "done"} => status[j] # "ABSENT"

RequestInv ==
  /\ \A w \in Workers : api[w] \in {"admitted", "launched"} => grant[w] \in Granted
  /\ \A w \in Workers : api[w] = "launched" =>
       /\ status[target[w]] = "ABSENT"
       /\ pc[target[w]] # "none"
  /\ \A v, w \in Workers :
       api[v] = "launched" /\ api[w] = "launched" /\ target[v] = target[w] => v = w
  /\ \A w \in Workers : api[w] \in {"terminating", "signalled"} =>
       status[target[w]] # "ABSENT"

\* What is known of the tenants that the executor of j has not reached.
ScanInv(j) ==
  /\ pc[j] \in {"none", "starting"} =>
       tenants[j] \in Granted /\ \A t \in Tenants : lm[j][t] = "none"
  /\ pc[j] \in InLoop => \A t \in scan[j] :
       tenants[j][t] = "RUNNABLE" /\ lm[j][t] = "none"
  /\ pc[j] \in InLoop => \A t \in Tenants : tenants[j][t] = "RUNNABLE" =>
       t \in scan[j] \/ (pc[j] \in {"submit", "scan", "failing"} /\ t = cur[j])

\* What is known of the tenant that the executor of j works on.
CurrentInv(j) ==
  /\ pc[j] \in InBody => cur[j] \notin scan[j]
  /\ pc[j] = "submit" => tenants[j][cur[j]] = "RUNNABLE" /\ lm[j][cur[j]] = "none"
  /\ pc[j] = "scan" =>
       /\ tenants[j][cur[j]] = "RUNNABLE"
       /\ lm[j][cur[j]] = "granted"
       /\ \A a \in Algorithms \ left[j] : <<cur[j], a>> \in reports[j]
  /\ pc[j] = "notify" => tenants[j][cur[j]] = "SUCCEEDED" /\ lm[j][cur[j]] = "granted"
  /\ pc[j] = "failing" =>
       \/ tenants[j][cur[j]] = "RUNNABLE"
       \/ tenants[j][cur[j]] = "SUCCEEDED" /\ lm[j][cur[j]] = "granted"
  /\ pc[j] = "notifyFailed" => tenants[j][cur[j]] \in FailedValue

SettledInv ==
  \A j \in Jobs : pc[j] \in {"finished", "done"} =>
    status[j] = "SUCCEEDED" \/ (status[j] = "FAILED" /\ reason[j] = "user")

IInv ==
  /\ TypeInv /\ DocumentInv /\ RequestInv
  /\ \A j \in Jobs : ScanInv(j) /\ CurrentInv(j)
  /\ SettledInv /\ SucceededJobLeavesNoRunnable

-----------------------------------------------------------------------------
(* Types                                                                   *)

LEMMA UpdateType ==
  ASSUME NEW S, NEW U, NEW V, NEW f \in [S -> [U -> V]], NEW s, NEW u, NEW v \in V
  PROVE  [f EXCEPT ![s][u] = v] \in [S -> [U -> V]]
OBVIOUS

LEMMA NoTenantsType == NoTenants \in Granted /\ NoTenants \in [Tenants -> TenantValue]
BY DEF NoTenants, Granted, TenantValue, TenantStatusEnum

\* Whatever LM answers, a job's map says of each tenant that it may be scanned,
\* that it may not, or nothing.
LEMMA GrantType ==
  ASSUME NEW forbidden, NEW allowed, NEW limit
  PROVE  build_job_tenant_map(forbidden, allowed, limit) \in Granted
BY DEF build_job_tenant_map, Granted

LEMMA TypeInit == Init => TypeInv
BY NoTenantsType, BalanceAssumption
   DEF Init, TypeInv, TypeOK, JobStatus, ApiPc, ExPc, InBody

LEMMA TypeStep == TypeInv /\ [Next]_vars => TypeInv'
<1>a. SUFFICES ASSUME TypeInv, [Next]_vars PROVE TypeInv'
  OBVIOUS
<1>1. ASSUME NEW w \in Workers, ensure_job_is_allowed(w)
      PROVE  TypeInv'
  BY <1>1, <1>a, GrantType, BalanceAssumption
      DEF TypeInv, TypeOK, InBody, ExPc, ApiPc, Granted, TenantValue,
        TenantStatusEnum, ensure_job_is_allowed, docVars, platVars, exVars, lmVars
<1>2. ASSUME NEW w \in Workers, save_job(w)
      PROVE  TypeInv'
  BY <1>2, <1>a, NoTenantsType
      DEF TypeInv, TypeOK, InBody, ExPc, ApiPc, JobStatus, save_job, Release,
        platVars, exVars, lmVars
<1>3. ASSUME NEW w \in Workers, terminate_job(w)
      PROVE  TypeInv'
  <2>1. CASE OnPrem
    <3>1. signal' = [signal EXCEPT ![target[w]] = IF owner[target[w]] = w THEN TRUE ELSE @]
      BY <1>3, <2>1 DEF terminate_job
    <3>2. owner' = [owner EXCEPT ![target[w]] = IF @ = w THEN NoWorker ELSE @]
      BY <1>3, <2>1 DEF terminate_job
    <3>3. signal' \in [Jobs -> BOOLEAN]
      BY <1>a, <3>1 DEF TypeInv, TypeOK
    <3>4. QED
      BY <1>3, <1>a, <3>2, <3>3
         DEF TypeInv, TypeOK, InBody, ExPc, ApiPc, terminate_job, docVars, exVars, lmVars
  <2>2. CASE ~OnPrem
    BY <1>3, <1>a, <2>2
       DEF TypeInv, TypeOK, InBody, ExPc, ApiPc, terminate_job, docVars, exVars, lmVars
  <2>3. QED
    BY <2>1, <2>2
<1>4. ASSUME NEW w \in Workers, save_terminated(w)
      PROVE  TypeInv'
  BY <1>4, <1>a, NoTenantsType
      DEF TypeInv, TypeOK, InBody, ExPc, ApiPc, JobStatus, save_terminated,
        Release, platVars, exVars, lmVars
<1>5. ASSUME NEW w \in Workers, RequestFails(w)
      PROVE  TypeInv'
  BY <1>5, <1>a, NoTenantsType
      DEF TypeInv, TypeOK, InBody, ExPc, ApiPc, RequestFails, Release, docVars,
        platVars, exVars, lmVars
<1>6. ASSUME NEW w \in Workers, WorkerRestart(w)
      PROVE  TypeInv'
  BY <1>6, <1>a, NoTenantsType
      DEF TypeInv, TypeOK, InBody, ExPc, ApiPc, WorkerRestart, Release, docVars,
        exVars, lmVars
<1>7. ASSUME NEW w \in Workers, NEW k \in Jobs, submit_job(w, k)
      PROVE  TypeInv'
  BY <1>7, <1>a
      DEF TypeInv, TypeOK, InBody, ExPc, ApiPc, submit_job, docVars, lmVars
<1>8. ASSUME NEW w \in Workers, NEW k \in Jobs, delete(w, k)
      PROVE  TypeInv'
  BY <1>8, <1>a
      DEF TypeInv, TypeOK, InBody, ExPc, ApiPc, delete, docVars, platVars, exVars,
        lmVars, Terminal
<1>9. ASSUME NEW k \in Jobs, FindJob(k)
      PROVE  TypeInv'
  BY <1>9, <1>a
      DEF TypeInv, TypeOK, InBody, ExPc, ApiPc, get_scan_tenants, FindJob, Goto,
        docVars, apiVars, platVars, lmVars
<1>10. ASSUME NEW k \in Jobs, JobNotFound(k)
      PROVE  TypeInv'
  BY <1>10, <1>a
      DEF TypeInv, TypeOK, InBody, ExPc, ApiPc, JobNotFound, Goto, docVars,
        apiVars, platVars, lmVars
<1>11. ASSUME NEW k \in Jobs, SetRunning(k)
      PROVE  TypeInv'
  BY <1>11, <1>a
      DEF TypeInv, TypeOK, InBody, ExPc, ApiPc, JobStatus, SetRunning, Goto,
        apiVars, platVars, lmVars
<1>12. ASSUME NEW k \in Jobs, Initialize(k)
      PROVE  TypeInv'
  BY <1>12, <1>a
      DEF TypeInv, TypeOK, InBody, ExPc, ApiPc, Initialize, Goto, docVars, apiVars,
        platVars, lmVars
<1>13. ASSUME NEW k \in Jobs, submit_licensed_job(k)
      PROVE  TypeInv'
  <2>1. lm' \in [Jobs -> [Tenants -> {"none", "granted", "SUCCEEDED", "FAILED"}]]
    <3>1. \A v \in {"none", "granted", "SUCCEEDED", "FAILED"} :
            [lm EXCEPT ![k][cur[k]] = v]
              \in [Jobs -> [Tenants -> {"none", "granted", "SUCCEEDED", "FAILED"}]]
      BY <1>a, UpdateType DEF TypeInv, TypeOK
    <3>2. QED
      BY <1>13, <1>a, <3>1 DEF submit_licensed_job, GrantLicense, TypeInv, TypeOK
  <2>2. QED
    BY <1>13, <1>a, <2>1, BalanceAssumption
        DEF TypeInv, TypeOK, InBody, ExPc, ApiPc, submit_licensed_job, Goto,
        GrantLicense, docVars, apiVars, platVars
<1>14. ASSUME NEW k \in Jobs, LicenseAnswerLost(k)
      PROVE  TypeInv'
  <2>1. lm' \in [Jobs -> [Tenants -> {"none", "granted", "SUCCEEDED", "FAILED"}]]
    <3>1. \A v \in {"none", "granted", "SUCCEEDED", "FAILED"} :
            [lm EXCEPT ![k][cur[k]] = v]
              \in [Jobs -> [Tenants -> {"none", "granted", "SUCCEEDED", "FAILED"}]]
      BY <1>a, UpdateType DEF TypeInv, TypeOK
    <3>2. QED
      BY <1>14, <1>a, <3>1 DEF LicenseAnswerLost, GrantLicense, TypeInv, TypeOK
  <2>2. QED
    BY <1>14, <1>a, <2>1, BalanceAssumption
        DEF TypeInv, TypeOK, InBody, ExPc, ApiPc, LicenseAnswerLost, Goto,
        GrantLicense, docVars, apiVars, platVars
<1>15. ASSUME NEW k \in Jobs, SaveSucceeded(k)
      PROVE  TypeInv'
  <2>1. tenants' \in [Jobs -> [Tenants -> TenantValue]]
    <3>1. \A v \in TenantValue :
            [tenants EXCEPT ![k][cur[k]] = v] \in [Jobs -> [Tenants -> TenantValue]]
      BY <1>a, UpdateType DEF TypeInv, TypeOK
    <3>2. QED
      BY <1>15, <3>1 DEF SaveSucceeded, TenantValue, TenantStatusEnum, FailedValue
  <2>2. QED
    BY <1>15, <1>a, <2>1
        DEF TypeInv, TypeOK, InBody, ExPc, ApiPc, SaveSucceeded, Goto, apiVars,
        platVars, lmVars
<1>16. ASSUME NEW k \in Jobs, NotifySucceeded(k)
      PROVE  TypeInv'
  <2>1. lm' \in [Jobs -> [Tenants -> {"none", "granted", "SUCCEEDED", "FAILED"}]]
    <3>1. \A v \in {"none", "granted", "SUCCEEDED", "FAILED"} :
            [lm EXCEPT ![k][cur[k]] = v]
              \in [Jobs -> [Tenants -> {"none", "granted", "SUCCEEDED", "FAILED"}]]
      BY <1>a, UpdateType DEF TypeInv, TypeOK
    <3>2. QED
      BY <1>16, <1>a, <3>1 DEF NotifySucceeded, TypeInv, TypeOK
  <2>2. QED
    BY <1>16, <1>a, <2>1, BalanceAssumption
        DEF TypeInv, TypeOK, InBody, ExPc, ApiPc, NotifySucceeded, Goto, docVars,
        apiVars, platVars
<1>17. ASSUME NEW k \in Jobs, BodyFails(k)
      PROVE  TypeInv'
  BY <1>17, <1>a
      DEF TypeInv, TypeOK, InBody, ExPc, ApiPc, BodyFails, Goto, docVars, apiVars,
        platVars, lmVars
<1>18. ASSUME NEW k \in Jobs, SaveFailed(k)
      PROVE  TypeInv'
  <2>1. tenants' \in [Jobs -> [Tenants -> TenantValue]]
    <3>1. \A v \in TenantValue :
            [tenants EXCEPT ![k][cur[k]] = v] \in [Jobs -> [Tenants -> TenantValue]]
      BY <1>a, UpdateType DEF TypeInv, TypeOK
    <3>2. QED
      BY <1>18, <3>1 DEF SaveFailed, TenantValue, TenantStatusEnum, FailedValue
  <2>2. QED
    BY <1>18, <1>a, <2>1
        DEF TypeInv, TypeOK, InBody, ExPc, ApiPc, SaveFailed, Goto, apiVars,
        platVars, lmVars
<1>19. ASSUME NEW k \in Jobs, NotifyFailed(k)
      PROVE  TypeInv'
  <2>1. lm' \in [Jobs -> [Tenants -> {"none", "granted", "SUCCEEDED", "FAILED"}]]
    <3>1. \A v \in {"none", "granted", "SUCCEEDED", "FAILED"} :
            [lm EXCEPT ![k][cur[k]] = v]
              \in [Jobs -> [Tenants -> {"none", "granted", "SUCCEEDED", "FAILED"}]]
      BY <1>a, UpdateType DEF TypeInv, TypeOK
    <3>2. QED
      BY <1>19, <1>a, <3>1 DEF NotifyFailed, TypeInv, TypeOK
  <2>2. QED
    BY <1>19, <1>a, <2>1, BalanceAssumption
        DEF TypeInv, TypeOK, InBody, ExPc, ApiPc, NotifyFailed, Goto, docVars,
        apiVars, platVars
<1>20. ASSUME NEW k \in Jobs, FinishJob(k)
      PROVE  TypeInv'
  BY <1>20, <1>a
      DEF TypeInv, TypeOK, InBody, ExPc, ApiPc, JobStatus, FinishJob, Goto,
        apiVars, platVars, lmVars
<1>21. ASSUME NEW k \in Jobs, CleanUp(k)
      PROVE  TypeInv'
  BY <1>21, <1>a
      DEF TypeInv, TypeOK, InBody, ExPc, ApiPc, CleanUp, Goto, docVars, apiVars,
        platVars, lmVars
<1>22. ASSUME NEW k \in Jobs, MainRaises(k)
      PROVE  TypeInv'
  BY <1>22, <1>a
      DEF TypeInv, TypeOK, InBody, ExPc, ApiPc, MainRaises, Goto, docVars, apiVars,
        platVars, lmVars
<1>23. ASSUME NEW k \in Jobs, set_job_fail_reason(k)
      PROVE  TypeInv'
  BY <1>23, <1>a
      DEF TypeInv, TypeOK, InBody, ExPc, ApiPc, JobStatus, set_job_fail_reason,
        Goto, apiVars, platVars, lmVars
<1>24. ASSUME NEW k \in Jobs, Crash(k)
      PROVE  TypeInv'
  BY <1>24, <1>a
      DEF TypeInv, TypeOK, InBody, ExPc, ApiPc, Crash, Goto, docVars, apiVars,
        platVars, lmVars, Ended
<1>25. ASSUME NEW k \in Jobs, NEW t \in Tenants, PickTenant(k, t)
      PROVE  TypeInv'
  BY <1>25, <1>a
      DEF TypeInv, TypeOK, InBody, ExPc, ApiPc, PickTenant, Goto, docVars, apiVars,
        platVars, lmVars
<1>26. ASSUME NEW k \in Jobs, NEW a \in Algorithms, process_tenant_instances(k, a)
      PROVE  TypeInv'
  BY <1>26, <1>a
      DEF TypeInv, TypeOK, InBody, ExPc, ApiPc, process_tenant_instances, docVars,
        apiVars, platVars, lmVars
<1>27. CASE UNCHANGED vars
  BY <1>27, <1>a
      DEF TypeInv, TypeOK, InBody, ExPc, ApiPc, vars, docVars, apiVars, platVars,
        exVars, lmVars
<1>28. QED
  BY <1>a, <1>1, <1>2, <1>3, <1>4, <1>5, <1>6, <1>7, <1>8, <1>9, <1>10, <1>11,
        <1>12, <1>13, <1>14, <1>15, <1>16, <1>17, <1>18, <1>19, <1>20, <1>21,
        <1>22, <1>23, <1>24, <1>25, <1>26, <1>27
      DEF Next, Request, Executor, Terminated

\* Every variable keeps the type that TypeOK gives it.
THEOREM TypeCorrect == Spec => []TypeOK
<1>1. TypeInv => TypeOK
  BY DEF TypeInv
<1>2. QED
  BY <1>1, TypeInit, TypeStep, PTL DEF Spec

-----------------------------------------------------------------------------
(* Documents and the requests that write them                              *)

LEMMA DocumentStep ==
  TypeInv /\ DocumentInv /\ RequestInv /\ [Next]_vars => (DocumentInv /\ RequestInv)'
<1>a. SUFFICES ASSUME TypeInv, DocumentInv, RequestInv, [Next]_vars
               PROVE  (DocumentInv /\ RequestInv)'
  OBVIOUS
<1>1. ASSUME NEW w \in Workers, ensure_job_is_allowed(w)
      PROVE  (DocumentInv /\ RequestInv)'
  BY <1>1, <1>a, GrantType
      DEF DocumentInv, RequestInv, TypeInv, TypeOK, InLoop, InBody,
        ensure_job_is_allowed, docVars, platVars, exVars, lmVars
<1>2. ASSUME NEW w \in Workers, save_job(w)
      PROVE  (DocumentInv /\ RequestInv)'
  BY <1>2, <1>a
      DEF DocumentInv, RequestInv, TypeInv, TypeOK, InLoop, InBody, save_job,
        Release, platVars, exVars, lmVars
<1>3. ASSUME NEW w \in Workers, terminate_job(w)
      PROVE  (DocumentInv /\ RequestInv)'
  BY <1>3, <1>a
      DEF DocumentInv, RequestInv, TypeInv, TypeOK, InLoop, InBody, terminate_job,
        docVars, exVars, lmVars
<1>4. ASSUME NEW w \in Workers, save_terminated(w)
      PROVE  (DocumentInv /\ RequestInv)'
  BY <1>4, <1>a
      DEF DocumentInv, RequestInv, TypeInv, TypeOK, InLoop, InBody,
        save_terminated, Release, platVars, exVars, lmVars
<1>5. ASSUME NEW w \in Workers, RequestFails(w)
      PROVE  (DocumentInv /\ RequestInv)'
  BY <1>5, <1>a
      DEF DocumentInv, RequestInv, TypeInv, TypeOK, InLoop, InBody, RequestFails,
        Release, docVars, platVars, exVars, lmVars
<1>6. ASSUME NEW w \in Workers, WorkerRestart(w)
      PROVE  (DocumentInv /\ RequestInv)'
  BY <1>6, <1>a
      DEF DocumentInv, RequestInv, TypeInv, TypeOK, InLoop, InBody, WorkerRestart,
        Release, docVars, exVars, lmVars
<1>7. ASSUME NEW w \in Workers, NEW k \in Jobs, submit_job(w, k)
      PROVE  (DocumentInv /\ RequestInv)'
  BY <1>7, <1>a
      DEF DocumentInv, RequestInv, TypeInv, TypeOK, InLoop, InBody, submit_job,
        docVars, lmVars
<1>8. ASSUME NEW w \in Workers, NEW k \in Jobs, delete(w, k)
      PROVE  (DocumentInv /\ RequestInv)'
  BY <1>8, <1>a
      DEF DocumentInv, RequestInv, TypeInv, TypeOK, InLoop, InBody, delete,
        docVars, platVars, exVars, lmVars, Terminal
<1>9. ASSUME NEW k \in Jobs, FindJob(k)
      PROVE  (DocumentInv /\ RequestInv)'
  BY <1>9, <1>a
      DEF DocumentInv, RequestInv, TypeInv, TypeOK, InLoop, InBody, FindJob, Goto,
        docVars, apiVars, platVars, lmVars
<1>10. ASSUME NEW k \in Jobs, JobNotFound(k)
      PROVE  (DocumentInv /\ RequestInv)'
  BY <1>10, <1>a
      DEF DocumentInv, RequestInv, TypeInv, TypeOK, InLoop, InBody, JobNotFound,
        Goto, docVars, apiVars, platVars, lmVars
<1>11. ASSUME NEW k \in Jobs, SetRunning(k)
      PROVE  (DocumentInv /\ RequestInv)'
  BY <1>11, <1>a
      DEF DocumentInv, RequestInv, TypeInv, TypeOK, InLoop, InBody, SetRunning,
        Goto, apiVars, platVars, lmVars
<1>12. ASSUME NEW k \in Jobs, Initialize(k)
      PROVE  (DocumentInv /\ RequestInv)'
  BY <1>12, <1>a
      DEF DocumentInv, RequestInv, TypeInv, TypeOK, InLoop, InBody, Initialize,
        Goto, docVars, apiVars, platVars, lmVars
<1>13. ASSUME NEW k \in Jobs, submit_licensed_job(k)
      PROVE  (DocumentInv /\ RequestInv)'
  BY <1>13, <1>a
      DEF DocumentInv, RequestInv, TypeInv, TypeOK, InLoop, InBody,
        submit_licensed_job, Goto, GrantLicense, docVars, apiVars, platVars
<1>14. ASSUME NEW k \in Jobs, LicenseAnswerLost(k)
      PROVE  (DocumentInv /\ RequestInv)'
  BY <1>14, <1>a
      DEF DocumentInv, RequestInv, TypeInv, TypeOK, InLoop, InBody,
        LicenseAnswerLost, Goto, GrantLicense, docVars, apiVars, platVars
<1>15. ASSUME NEW k \in Jobs, SaveSucceeded(k)
      PROVE  (DocumentInv /\ RequestInv)'
  BY <1>15, <1>a
      DEF DocumentInv, RequestInv, TypeInv, TypeOK, InLoop, InBody, SaveSucceeded,
        Goto, apiVars, platVars, lmVars
<1>16. ASSUME NEW k \in Jobs, NotifySucceeded(k)
      PROVE  (DocumentInv /\ RequestInv)'
  BY <1>16, <1>a
      DEF DocumentInv, RequestInv, TypeInv, TypeOK, InLoop, InBody,
        NotifySucceeded, Goto, docVars, apiVars, platVars
<1>17. ASSUME NEW k \in Jobs, BodyFails(k)
      PROVE  (DocumentInv /\ RequestInv)'
  BY <1>17, <1>a
      DEF DocumentInv, RequestInv, TypeInv, TypeOK, InLoop, InBody, BodyFails,
        Goto, docVars, apiVars, platVars, lmVars
<1>18. ASSUME NEW k \in Jobs, SaveFailed(k)
      PROVE  (DocumentInv /\ RequestInv)'
  BY <1>18, <1>a
      DEF DocumentInv, RequestInv, TypeInv, TypeOK, InLoop, InBody, SaveFailed,
        Goto, apiVars, platVars, lmVars
<1>19. ASSUME NEW k \in Jobs, NotifyFailed(k)
      PROVE  (DocumentInv /\ RequestInv)'
  BY <1>19, <1>a
      DEF DocumentInv, RequestInv, TypeInv, TypeOK, InLoop, InBody, NotifyFailed,
        Goto, docVars, apiVars, platVars
<1>20. ASSUME NEW k \in Jobs, FinishJob(k)
      PROVE  (DocumentInv /\ RequestInv)'
  BY <1>20, <1>a
      DEF DocumentInv, RequestInv, TypeInv, TypeOK, InLoop, InBody, FinishJob,
        Goto, apiVars, platVars, lmVars
<1>21. ASSUME NEW k \in Jobs, CleanUp(k)
      PROVE  (DocumentInv /\ RequestInv)'
  BY <1>21, <1>a
      DEF DocumentInv, RequestInv, TypeInv, TypeOK, InLoop, InBody, CleanUp, Goto,
        docVars, apiVars, platVars, lmVars
<1>22. ASSUME NEW k \in Jobs, MainRaises(k)
      PROVE  (DocumentInv /\ RequestInv)'
  BY <1>22, <1>a
      DEF DocumentInv, RequestInv, TypeInv, TypeOK, InLoop, InBody, MainRaises,
        Goto, docVars, apiVars, platVars, lmVars
<1>23. ASSUME NEW k \in Jobs, set_job_fail_reason(k)
      PROVE  (DocumentInv /\ RequestInv)'
  BY <1>23, <1>a
      DEF DocumentInv, RequestInv, TypeInv, TypeOK, InLoop, InBody,
        set_job_fail_reason, Goto, apiVars, platVars, lmVars
<1>24. ASSUME NEW k \in Jobs, Crash(k)
      PROVE  (DocumentInv /\ RequestInv)'
  BY <1>24, <1>a
      DEF DocumentInv, RequestInv, TypeInv, TypeOK, InLoop, InBody, Crash, Goto,
        docVars, apiVars, platVars, lmVars, Ended
<1>25. ASSUME NEW k \in Jobs, NEW t \in Tenants, PickTenant(k, t)
      PROVE  (DocumentInv /\ RequestInv)'
  BY <1>25, <1>a
      DEF DocumentInv, RequestInv, TypeInv, TypeOK, InLoop, InBody, PickTenant,
        Goto, docVars, apiVars, platVars, lmVars
<1>26. ASSUME NEW k \in Jobs, NEW a \in Algorithms, process_tenant_instances(k, a)
      PROVE  (DocumentInv /\ RequestInv)'
  BY <1>26, <1>a
      DEF DocumentInv, RequestInv, TypeInv, TypeOK, InLoop, InBody,
        process_tenant_instances, docVars, apiVars, platVars, lmVars
<1>27. CASE UNCHANGED vars
  BY <1>27, <1>a
      DEF DocumentInv, RequestInv, TypeInv, TypeOK, InLoop, InBody, vars, docVars,
        apiVars, platVars, exVars, lmVars
<1>28. QED
  BY <1>a, <1>1, <1>2, <1>3, <1>4, <1>5, <1>6, <1>7, <1>8, <1>9, <1>10, <1>11,
        <1>12, <1>13, <1>14, <1>15, <1>16, <1>17, <1>18, <1>19, <1>20, <1>21,
        <1>22, <1>23, <1>24, <1>25, <1>26, <1>27
      DEF Next, Request, Executor, Terminated

-----------------------------------------------------------------------------
(* What the executor knows of the tenants                                  *)

LEMMA ScanStep ==
  ASSUME TypeInv, DocumentInv, RequestInv,
         \A j \in Jobs : ScanInv(j) /\ CurrentInv(j),
         [Next]_vars
  PROVE  \A j \in Jobs : (ScanInv(j) /\ CurrentInv(j))'
<1>a. TypeInv /\ DocumentInv /\ RequestInv /\ [Next]_vars
  OBVIOUS
<1>b. SUFFICES ASSUME NEW j \in Jobs PROVE (ScanInv(j) /\ CurrentInv(j))'
  OBVIOUS
<1>c. ScanInv(j) /\ CurrentInv(j)
  OBVIOUS
<1>1. ASSUME NEW w \in Workers, ensure_job_is_allowed(w)
      PROVE  (ScanInv(j) /\ CurrentInv(j))'
  BY <1>1, <1>a, <1>c
      DEF ScanInv, CurrentInv, TypeInv, TypeOK, InLoop, InBody,
        ensure_job_is_allowed, docVars, platVars, exVars, lmVars
<1>2. ASSUME NEW w \in Workers, save_job(w)
      PROVE  (ScanInv(j) /\ CurrentInv(j))'
  BY <1>2, <1>a, <1>c
      DEF ScanInv, CurrentInv, TypeInv, TypeOK, InLoop, InBody, DocumentInv,
        RequestInv, save_job, Release, platVars, exVars, lmVars
<1>3. ASSUME NEW w \in Workers, terminate_job(w)
      PROVE  (ScanInv(j) /\ CurrentInv(j))'
  BY <1>3, <1>a, <1>c
      DEF ScanInv, CurrentInv, TypeInv, TypeOK, InLoop, InBody, terminate_job,
        docVars, exVars, lmVars
<1>4. ASSUME NEW w \in Workers, save_terminated(w)
      PROVE  (ScanInv(j) /\ CurrentInv(j))'
  BY <1>4, <1>a, <1>c
      DEF ScanInv, CurrentInv, TypeInv, TypeOK, InLoop, InBody, save_terminated,
        Release, platVars, exVars, lmVars
<1>5. ASSUME NEW w \in Workers, RequestFails(w)
      PROVE  (ScanInv(j) /\ CurrentInv(j))'
  BY <1>5, <1>a, <1>c
      DEF ScanInv, CurrentInv, TypeInv, TypeOK, InLoop, InBody, RequestFails,
        Release, docVars, platVars, exVars, lmVars
<1>6. ASSUME NEW w \in Workers, WorkerRestart(w)
      PROVE  (ScanInv(j) /\ CurrentInv(j))'
  BY <1>6, <1>a, <1>c
      DEF ScanInv, CurrentInv, TypeInv, TypeOK, InLoop, InBody, WorkerRestart,
        Release, docVars, exVars, lmVars
<1>7. ASSUME NEW w \in Workers, NEW k \in Jobs, submit_job(w, k)
      PROVE  (ScanInv(j) /\ CurrentInv(j))'
  BY <1>7, <1>a, <1>c
      DEF ScanInv, CurrentInv, TypeInv, TypeOK, InLoop, InBody, DocumentInv,
        submit_job, docVars, lmVars
<1>8. ASSUME NEW w \in Workers, NEW k \in Jobs, delete(w, k)
      PROVE  (ScanInv(j) /\ CurrentInv(j))'
  BY <1>8, <1>a, <1>c
      DEF ScanInv, CurrentInv, TypeInv, TypeOK, InLoop, InBody, delete, docVars,
        platVars, exVars, lmVars, Terminal
<1>9. ASSUME NEW k \in Jobs, FindJob(k)
      PROVE  (ScanInv(j) /\ CurrentInv(j))'
  BY <1>9, <1>a, <1>c
      DEF ScanInv, CurrentInv, TypeInv, TypeOK, InLoop, InBody, Granted,
        get_scan_tenants, FindJob, Goto, docVars, apiVars, platVars, lmVars
<1>10. ASSUME NEW k \in Jobs, JobNotFound(k)
      PROVE  (ScanInv(j) /\ CurrentInv(j))'
  BY <1>10, <1>a, <1>c
      DEF ScanInv, CurrentInv, TypeInv, TypeOK, InLoop, InBody, JobNotFound, Goto,
        docVars, apiVars, platVars, lmVars
<1>11. ASSUME NEW k \in Jobs, SetRunning(k)
      PROVE  (ScanInv(j) /\ CurrentInv(j))'
  BY <1>11, <1>a, <1>c
      DEF ScanInv, CurrentInv, TypeInv, TypeOK, InLoop, InBody, SetRunning, Goto,
        apiVars, platVars, lmVars
<1>12. ASSUME NEW k \in Jobs, Initialize(k)
      PROVE  (ScanInv(j) /\ CurrentInv(j))'
  BY <1>12, <1>a, <1>c
      DEF ScanInv, CurrentInv, TypeInv, TypeOK, InLoop, InBody, Initialize, Goto,
        docVars, apiVars, platVars, lmVars
<1>13. ASSUME NEW k \in Jobs, submit_licensed_job(k)
      PROVE  (ScanInv(j) /\ CurrentInv(j))'
  BY <1>13, <1>a, <1>c
      DEF ScanInv, CurrentInv, TypeInv, TypeOK, InLoop, InBody,
        submit_licensed_job, Goto, GrantLicense, docVars, apiVars, platVars
<1>14. ASSUME NEW k \in Jobs, LicenseAnswerLost(k)
      PROVE  (ScanInv(j) /\ CurrentInv(j))'
  BY <1>14, <1>a, <1>c
      DEF ScanInv, CurrentInv, TypeInv, TypeOK, InLoop, InBody, LicenseAnswerLost,
        Goto, GrantLicense, docVars, apiVars, platVars
<1>15. ASSUME NEW k \in Jobs, SaveSucceeded(k)
      PROVE  (ScanInv(j) /\ CurrentInv(j))'
  BY <1>15, <1>a, <1>c
      DEF ScanInv, CurrentInv, TypeInv, TypeOK, InLoop, InBody, SaveSucceeded,
        Goto, apiVars, platVars, lmVars
<1>16. ASSUME NEW k \in Jobs, NotifySucceeded(k)
      PROVE  (ScanInv(j) /\ CurrentInv(j))'
  BY <1>16, <1>a, <1>c
      DEF ScanInv, CurrentInv, TypeInv, TypeOK, InLoop, InBody, NotifySucceeded,
        Goto, docVars, apiVars, platVars
<1>17. ASSUME NEW k \in Jobs, BodyFails(k)
      PROVE  (ScanInv(j) /\ CurrentInv(j))'
  BY <1>17, <1>a, <1>c
      DEF ScanInv, CurrentInv, TypeInv, TypeOK, InLoop, InBody, BodyFails, Goto,
        docVars, apiVars, platVars, lmVars
<1>18. ASSUME NEW k \in Jobs, SaveFailed(k)
      PROVE  (ScanInv(j) /\ CurrentInv(j))'
  BY <1>18, <1>a, <1>c
      DEF ScanInv, CurrentInv, TypeInv, TypeOK, InLoop, InBody, FailedValue,
        SaveFailed, Goto, apiVars, platVars, lmVars
<1>19. ASSUME NEW k \in Jobs, NotifyFailed(k)
      PROVE  (ScanInv(j) /\ CurrentInv(j))'
  BY <1>19, <1>a, <1>c
      DEF ScanInv, CurrentInv, TypeInv, TypeOK, InLoop, InBody, NotifyFailed, Goto,
        docVars, apiVars, platVars
<1>20. ASSUME NEW k \in Jobs, FinishJob(k)
      PROVE  (ScanInv(j) /\ CurrentInv(j))'
  BY <1>20, <1>a, <1>c
      DEF ScanInv, CurrentInv, TypeInv, TypeOK, InLoop, InBody, FinishJob, Goto,
        apiVars, platVars, lmVars
<1>21. ASSUME NEW k \in Jobs, CleanUp(k)
      PROVE  (ScanInv(j) /\ CurrentInv(j))'
  BY <1>21, <1>a, <1>c
      DEF ScanInv, CurrentInv, TypeInv, TypeOK, InLoop, InBody, CleanUp, Goto,
        docVars, apiVars, platVars, lmVars
<1>22. ASSUME NEW k \in Jobs, MainRaises(k)
      PROVE  (ScanInv(j) /\ CurrentInv(j))'
  BY <1>22, <1>a, <1>c
      DEF ScanInv, CurrentInv, TypeInv, TypeOK, InLoop, InBody, MainRaises, Goto,
        docVars, apiVars, platVars, lmVars
<1>23. ASSUME NEW k \in Jobs, set_job_fail_reason(k)
      PROVE  (ScanInv(j) /\ CurrentInv(j))'
  BY <1>23, <1>a, <1>c
      DEF ScanInv, CurrentInv, TypeInv, TypeOK, InLoop, InBody,
        set_job_fail_reason, Goto, apiVars, platVars, lmVars
<1>24. ASSUME NEW k \in Jobs, Crash(k)
      PROVE  (ScanInv(j) /\ CurrentInv(j))'
  BY <1>24, <1>a, <1>c
      DEF ScanInv, CurrentInv, TypeInv, TypeOK, InLoop, InBody, Crash, Goto,
        docVars, apiVars, platVars, lmVars, Ended
<1>25. ASSUME NEW k \in Jobs, NEW t \in Tenants, PickTenant(k, t)
      PROVE  (ScanInv(j) /\ CurrentInv(j))'
  BY <1>25, <1>a, <1>c
      DEF ScanInv, CurrentInv, TypeInv, TypeOK, InLoop, InBody, PickTenant, Goto,
        docVars, apiVars, platVars, lmVars
<1>26. ASSUME NEW k \in Jobs, NEW a \in Algorithms, process_tenant_instances(k, a)
      PROVE  (ScanInv(j) /\ CurrentInv(j))'
  BY <1>26, <1>a, <1>c
      DEF ScanInv, CurrentInv, TypeInv, TypeOK, InLoop, InBody,
        process_tenant_instances, docVars, apiVars, platVars, lmVars
<1>27. CASE UNCHANGED vars
  BY <1>27, <1>a, <1>c
      DEF ScanInv, CurrentInv, TypeInv, TypeOK, InLoop, InBody, vars, docVars,
        apiVars, platVars, exVars, lmVars
<1>28. QED
  BY <1>a, <1>1, <1>2, <1>3, <1>4, <1>5, <1>6, <1>7, <1>8, <1>9, <1>10, <1>11,
        <1>12, <1>13, <1>14, <1>15, <1>16, <1>17, <1>18, <1>19, <1>20, <1>21,
        <1>22, <1>23, <1>24, <1>25, <1>26, <1>27
      DEF Next, Request, Executor, Terminated

-----------------------------------------------------------------------------
(* The status of the whole job                                             *)

LEMMA StatusStep ==
  ASSUME TypeInv, DocumentInv, RequestInv, \A j \in Jobs : ScanInv(j),
         SettledInv, SucceededJobLeavesNoRunnable,
         [Next]_vars
  PROVE  (SettledInv /\ SucceededJobLeavesNoRunnable)'
<1>a. TypeInv /\ DocumentInv /\ RequestInv /\ (\A j \in Jobs : ScanInv(j)) /\ SettledInv
        /\ SucceededJobLeavesNoRunnable /\ [Next]_vars
  OBVIOUS
<1>1. ASSUME NEW w \in Workers, ensure_job_is_allowed(w)
      PROVE  (SettledInv /\ SucceededJobLeavesNoRunnable)'
  BY <1>1, <1>a
      DEF SettledInv, SucceededJobLeavesNoRunnable, TypeInv,
        TypeOK, ensure_job_is_allowed, docVars, platVars, exVars, lmVars
<1>2. ASSUME NEW w \in Workers, save_job(w)
      PROVE  (SettledInv /\ SucceededJobLeavesNoRunnable)'
  BY <1>2, <1>a
      DEF SettledInv, SucceededJobLeavesNoRunnable, TypeInv,
        TypeOK, DocumentInv, RequestInv, InLoop, save_job, Release, platVars,
        exVars, lmVars
<1>3. ASSUME NEW w \in Workers, terminate_job(w)
      PROVE  (SettledInv /\ SucceededJobLeavesNoRunnable)'
  BY <1>3, <1>a
      DEF SettledInv, SucceededJobLeavesNoRunnable, TypeInv,
        TypeOK, terminate_job, docVars, exVars, lmVars
<1>4. ASSUME NEW w \in Workers, save_terminated(w)
      PROVE  (SettledInv /\ SucceededJobLeavesNoRunnable)'
  BY <1>4, <1>a
      DEF SettledInv, SucceededJobLeavesNoRunnable, TypeInv,
        TypeOK, save_terminated, Release, platVars, exVars, lmVars
<1>5. ASSUME NEW w \in Workers, RequestFails(w)
      PROVE  (SettledInv /\ SucceededJobLeavesNoRunnable)'
  BY <1>5, <1>a
      DEF SettledInv, SucceededJobLeavesNoRunnable, TypeInv,
        TypeOK, RequestFails, Release, docVars, platVars, exVars, lmVars
<1>6. ASSUME NEW w \in Workers, WorkerRestart(w)
      PROVE  (SettledInv /\ SucceededJobLeavesNoRunnable)'
  BY <1>6, <1>a
      DEF SettledInv, SucceededJobLeavesNoRunnable, TypeInv,
        TypeOK, WorkerRestart, Release, docVars, exVars, lmVars
<1>7. ASSUME NEW w \in Workers, NEW k \in Jobs, submit_job(w, k)
      PROVE  (SettledInv /\ SucceededJobLeavesNoRunnable)'
  BY <1>7, <1>a
      DEF SettledInv, SucceededJobLeavesNoRunnable, TypeInv,
        TypeOK, submit_job, docVars, lmVars
<1>8. ASSUME NEW w \in Workers, NEW k \in Jobs, delete(w, k)
      PROVE  (SettledInv /\ SucceededJobLeavesNoRunnable)'
  BY <1>8, <1>a
      DEF SettledInv, SucceededJobLeavesNoRunnable, TypeInv,
        TypeOK, delete, docVars, platVars, exVars, lmVars, Terminal
<1>9. ASSUME NEW k \in Jobs, FindJob(k)
      PROVE  (SettledInv /\ SucceededJobLeavesNoRunnable)'
  BY <1>9, <1>a
      DEF SettledInv, SucceededJobLeavesNoRunnable, TypeInv,
        TypeOK, FindJob, Goto, docVars, apiVars, platVars, lmVars
<1>10. ASSUME NEW k \in Jobs, JobNotFound(k)
      PROVE  (SettledInv /\ SucceededJobLeavesNoRunnable)'
  BY <1>10, <1>a
      DEF SettledInv, SucceededJobLeavesNoRunnable, TypeInv,
        TypeOK, JobNotFound, Goto, docVars, apiVars, platVars, lmVars
<1>11. ASSUME NEW k \in Jobs, SetRunning(k)
      PROVE  (SettledInv /\ SucceededJobLeavesNoRunnable)'
  BY <1>11, <1>a
      DEF SettledInv, SucceededJobLeavesNoRunnable, TypeInv,
        TypeOK, SetRunning, Goto, apiVars, platVars, lmVars
<1>12. ASSUME NEW k \in Jobs, Initialize(k)
      PROVE  (SettledInv /\ SucceededJobLeavesNoRunnable)'
  BY <1>12, <1>a
      DEF SettledInv, SucceededJobLeavesNoRunnable, TypeInv,
        TypeOK, Initialize, Goto, docVars, apiVars, platVars, lmVars
<1>13. ASSUME NEW k \in Jobs, submit_licensed_job(k)
      PROVE  (SettledInv /\ SucceededJobLeavesNoRunnable)'
  BY <1>13, <1>a
      DEF SettledInv, SucceededJobLeavesNoRunnable, TypeInv,
        TypeOK, submit_licensed_job, Goto, GrantLicense, docVars, apiVars, platVars
<1>14. ASSUME NEW k \in Jobs, LicenseAnswerLost(k)
      PROVE  (SettledInv /\ SucceededJobLeavesNoRunnable)'
  BY <1>14, <1>a
      DEF SettledInv, SucceededJobLeavesNoRunnable, TypeInv,
        TypeOK, LicenseAnswerLost, Goto, GrantLicense, docVars, apiVars, platVars
<1>15. ASSUME NEW k \in Jobs, SaveSucceeded(k)
      PROVE  (SettledInv /\ SucceededJobLeavesNoRunnable)'
  BY <1>15, <1>a
      DEF SettledInv, SucceededJobLeavesNoRunnable, TypeInv,
        TypeOK, SaveSucceeded, Goto, apiVars, platVars, lmVars
<1>16. ASSUME NEW k \in Jobs, NotifySucceeded(k)
      PROVE  (SettledInv /\ SucceededJobLeavesNoRunnable)'
  BY <1>16, <1>a
      DEF SettledInv, SucceededJobLeavesNoRunnable, TypeInv,
        TypeOK, NotifySucceeded, Goto, docVars, apiVars, platVars
<1>17. ASSUME NEW k \in Jobs, BodyFails(k)
      PROVE  (SettledInv /\ SucceededJobLeavesNoRunnable)'
  BY <1>17, <1>a
      DEF SettledInv, SucceededJobLeavesNoRunnable, TypeInv,
        TypeOK, BodyFails, Goto, docVars, apiVars, platVars, lmVars
<1>18. ASSUME NEW k \in Jobs, SaveFailed(k)
      PROVE  (SettledInv /\ SucceededJobLeavesNoRunnable)'
  BY <1>18, <1>a
      DEF SettledInv, SucceededJobLeavesNoRunnable, TypeInv,
        TypeOK, FailedValue, SaveFailed, Goto, apiVars, platVars, lmVars
<1>19. ASSUME NEW k \in Jobs, NotifyFailed(k)
      PROVE  (SettledInv /\ SucceededJobLeavesNoRunnable)'
  BY <1>19, <1>a
      DEF SettledInv, SucceededJobLeavesNoRunnable, TypeInv,
        TypeOK, NotifyFailed, Goto, docVars, apiVars, platVars
<1>20. ASSUME NEW k \in Jobs, FinishJob(k)
      PROVE  (SettledInv /\ SucceededJobLeavesNoRunnable)'
  <2>1. SettledInv'
    BY <1>20, <1>a DEF SettledInv, TypeInv, TypeOK, FinishJob, Goto
  <2>2. SucceededJobLeavesNoRunnable'
    <3>1. \A t \in Tenants : tenants[k][t] # "RUNNABLE"
      BY <1>20, <1>a DEF ScanInv, InLoop, FinishJob
    <3>2. QED
      BY <1>20, <1>a, <3>1 DEF SucceededJobLeavesNoRunnable, TypeInv, TypeOK, FinishJob
  <2>3. QED
    BY <2>1, <2>2
<1>21. ASSUME NEW k \in Jobs, CleanUp(k)
      PROVE  (SettledInv /\ SucceededJobLeavesNoRunnable)'
  BY <1>21, <1>a
      DEF SettledInv, SucceededJobLeavesNoRunnable, TypeInv,
        TypeOK, CleanUp, Goto, docVars, apiVars, platVars, lmVars
<1>22. ASSUME NEW k \in Jobs, MainRaises(k)
      PROVE  (SettledInv /\ SucceededJobLeavesNoRunnable)'
  BY <1>22, <1>a
      DEF SettledInv, SucceededJobLeavesNoRunnable, TypeInv,
        TypeOK, MainRaises, Goto, docVars, apiVars, platVars, lmVars
<1>23. ASSUME NEW k \in Jobs, set_job_fail_reason(k)
      PROVE  (SettledInv /\ SucceededJobLeavesNoRunnable)'
  <2>1. SettledInv'
    BY <1>23, <1>a DEF SettledInv, TypeInv, TypeOK, set_job_fail_reason, Goto
  <2>2. SucceededJobLeavesNoRunnable'
    BY <1>23, <1>a
       DEF SucceededJobLeavesNoRunnable, TypeInv, TypeOK, set_job_fail_reason
  <2>3. QED
    BY <2>1, <2>2
<1>24. ASSUME NEW k \in Jobs, Crash(k)
      PROVE  (SettledInv /\ SucceededJobLeavesNoRunnable)'
  BY <1>24, <1>a
      DEF SettledInv, SucceededJobLeavesNoRunnable, TypeInv,
        TypeOK, Crash, Goto, docVars, apiVars, platVars, lmVars, Ended
<1>25. ASSUME NEW k \in Jobs, NEW t \in Tenants, PickTenant(k, t)
      PROVE  (SettledInv /\ SucceededJobLeavesNoRunnable)'
  BY <1>25, <1>a
      DEF SettledInv, SucceededJobLeavesNoRunnable, TypeInv,
        TypeOK, PickTenant, Goto, docVars, apiVars, platVars, lmVars
<1>26. ASSUME NEW k \in Jobs, NEW a \in Algorithms, process_tenant_instances(k, a)
      PROVE  (SettledInv /\ SucceededJobLeavesNoRunnable)'
  BY <1>26, <1>a
      DEF SettledInv, SucceededJobLeavesNoRunnable, TypeInv,
        TypeOK, process_tenant_instances, docVars, apiVars, platVars, lmVars
<1>27. CASE UNCHANGED vars
  BY <1>27, <1>a
      DEF SettledInv, SucceededJobLeavesNoRunnable, TypeInv,
        TypeOK, vars, docVars, apiVars, platVars, exVars, lmVars
<1>28. QED
  BY <1>a, <1>1, <1>2, <1>3, <1>4, <1>5, <1>6, <1>7, <1>8, <1>9, <1>10, <1>11,
        <1>12, <1>13, <1>14, <1>15, <1>16, <1>17, <1>18, <1>19, <1>20, <1>21,
        <1>22, <1>23, <1>24, <1>25, <1>26, <1>27
      DEF Next, Request, Executor, Terminated

LEMMA InvInit == Init => IInv
<1>a. SUFFICES ASSUME Init PROVE IInv
  OBVIOUS
<1>1. TypeInv
  BY <1>a, TypeInit
<1>2. DocumentInv /\ RequestInv
  BY <1>a DEF Init, DocumentInv, RequestInv, InLoop, InBody
<1>3. \A j \in Jobs : ScanInv(j) /\ CurrentInv(j)
  BY <1>a, NoTenantsType DEF Init, ScanInv, CurrentInv, InLoop, InBody
<1>4. SettledInv /\ SucceededJobLeavesNoRunnable
  BY <1>a DEF Init, SettledInv, SucceededJobLeavesNoRunnable
<1>5. QED
  BY <1>1, <1>2, <1>3, <1>4 DEF IInv

LEMMA InvStep == IInv /\ [Next]_vars => IInv'
<1>a. SUFFICES ASSUME IInv, [Next]_vars PROVE IInv'
  OBVIOUS
<1>1. TypeInv'
  BY <1>a, TypeStep DEF IInv
<1>2. (DocumentInv /\ RequestInv)'
  BY <1>a, DocumentStep DEF IInv
<1>3. \A j \in Jobs : (ScanInv(j) /\ CurrentInv(j))'
  BY <1>a, ScanStep DEF IInv
<1>4. (SettledInv /\ SucceededJobLeavesNoRunnable)'
  BY <1>a, StatusStep DEF IInv
<1>5. QED
  BY <1>1, <1>2, <1>3, <1>4 DEF IInv

LEMMA Invariance == Spec => []IInv
BY InvInit, InvStep, PTL DEF Spec

\* An executor that returned from main left its job SUCCEEDED, or a user
\* terminated it and that was written last.
THEOREM ReturnedJobIsSettledTheorem == Spec => []ReturnedJobIsSettled
<1>1. IInv => ReturnedJobIsSettled
  BY DEF IInv, SettledInv, ReturnedJobIsSettled
<1>2. QED
  BY <1>1, Invariance, PTL

\* A job is declared SUCCEEDED only when each of its tenants has its outcome.
THEOREM SucceededJobLeavesNoRunnableTheorem == Spec => []SucceededJobLeavesNoRunnable
<1>1. IInv => SucceededJobLeavesNoRunnable
  BY DEF IInv
<1>2. QED
  BY <1>1, Invariance, PTL

FailedKept ==
  \A j \in Jobs : pc[j] \in Ended /\ status[j] = "FAILED" => status'[j] = "FAILED"

LEMMA FailedStep == TypeInv /\ RequestInv /\ [Next]_vars => FailedKept
<1>a. SUFFICES ASSUME TypeInv, RequestInv, [Next]_vars PROVE FailedKept
  OBVIOUS
<1>1. ASSUME NEW w \in Workers, ensure_job_is_allowed(w)
      PROVE  FailedKept
  BY <1>1, <1>a
      DEF FailedKept, TypeInv, TypeOK, Ended, ensure_job_is_allowed, docVars,
        platVars, exVars, lmVars
<1>2. ASSUME NEW w \in Workers, save_job(w)
      PROVE  FailedKept
  BY <1>2, <1>a
      DEF FailedKept, TypeInv, TypeOK, Ended, RequestInv, save_job, Release,
        platVars, exVars, lmVars
<1>3. ASSUME NEW w \in Workers, terminate_job(w)
      PROVE  FailedKept
  BY <1>3, <1>a
      DEF FailedKept, TypeInv, TypeOK, Ended, terminate_job, docVars, exVars, lmVars
<1>4. ASSUME NEW w \in Workers, save_terminated(w)
      PROVE  FailedKept
  BY <1>4, <1>a
      DEF FailedKept, TypeInv, TypeOK, Ended, save_terminated, Release, platVars,
        exVars, lmVars
<1>5. ASSUME NEW w \in Workers, RequestFails(w)
      PROVE  FailedKept
  BY <1>5, <1>a
      DEF FailedKept, TypeInv, TypeOK, Ended, RequestFails, Release, docVars,
        platVars, exVars, lmVars
<1>6. ASSUME NEW w \in Workers, WorkerRestart(w)
      PROVE  FailedKept
  BY <1>6, <1>a
      DEF FailedKept, TypeInv, TypeOK, Ended, WorkerRestart, Release, docVars,
        exVars, lmVars
<1>7. ASSUME NEW w \in Workers, NEW k \in Jobs, submit_job(w, k)
      PROVE  FailedKept
  BY <1>7, <1>a
      DEF FailedKept, TypeInv, TypeOK, Ended, submit_job, docVars, lmVars
<1>8. ASSUME NEW w \in Workers, NEW k \in Jobs, delete(w, k)
      PROVE  FailedKept
  BY <1>8, <1>a
      DEF FailedKept, TypeInv, TypeOK, Ended, delete, docVars, platVars, exVars,
        lmVars, Terminal
<1>9. ASSUME NEW k \in Jobs, FindJob(k)
      PROVE  FailedKept
  BY <1>9, <1>a
      DEF FailedKept, TypeInv, TypeOK, Ended, FindJob, Goto, docVars, apiVars,
        platVars, lmVars
<1>10. ASSUME NEW k \in Jobs, JobNotFound(k)
      PROVE  FailedKept
  BY <1>10, <1>a
      DEF FailedKept, TypeInv, TypeOK, Ended, JobNotFound, Goto, docVars, apiVars,
        platVars, lmVars
<1>11. ASSUME NEW k \in Jobs, SetRunning(k)
      PROVE  FailedKept
  BY <1>11, <1>a
      DEF FailedKept, TypeInv, TypeOK, Ended, SetRunning, Goto, apiVars, platVars,
        lmVars
<1>12. ASSUME NEW k \in Jobs, Initialize(k)
      PROVE  FailedKept
  BY <1>12, <1>a
      DEF FailedKept, TypeInv, TypeOK, Ended, Initialize, Goto, docVars, apiVars,
        platVars, lmVars
<1>13. ASSUME NEW k \in Jobs, submit_licensed_job(k)
      PROVE  FailedKept
  BY <1>13, <1>a
      DEF FailedKept, TypeInv, TypeOK, Ended, submit_licensed_job, Goto,
        GrantLicense, docVars, apiVars, platVars
<1>14. ASSUME NEW k \in Jobs, LicenseAnswerLost(k)
      PROVE  FailedKept
  BY <1>14, <1>a
      DEF FailedKept, TypeInv, TypeOK, Ended, LicenseAnswerLost, Goto,
        GrantLicense, docVars, apiVars, platVars
<1>15. ASSUME NEW k \in Jobs, SaveSucceeded(k)
      PROVE  FailedKept
  BY <1>15, <1>a
      DEF FailedKept, TypeInv, TypeOK, Ended, SaveSucceeded, Goto, apiVars,
        platVars, lmVars
<1>16. ASSUME NEW k \in Jobs, NotifySucceeded(k)
      PROVE  FailedKept
  BY <1>16, <1>a
      DEF FailedKept, TypeInv, TypeOK, Ended, NotifySucceeded, Goto, docVars,
        apiVars, platVars
<1>17. ASSUME NEW k \in Jobs, BodyFails(k)
      PROVE  FailedKept
  BY <1>17, <1>a
      DEF FailedKept, TypeInv, TypeOK, Ended, BodyFails, Goto, docVars, apiVars,
        platVars, lmVars
<1>18. ASSUME NEW k \in Jobs, SaveFailed(k)
      PROVE  FailedKept
  BY <1>18, <1>a
      DEF FailedKept, TypeInv, TypeOK, Ended, SaveFailed, Goto, apiVars, platVars,
        lmVars
<1>19. ASSUME NEW k \in Jobs, NotifyFailed(k)
      PROVE  FailedKept
  BY <1>19, <1>a
      DEF FailedKept, TypeInv, TypeOK, Ended, NotifyFailed, Goto, docVars, apiVars,
        platVars
<1>20. ASSUME NEW k \in Jobs, FinishJob(k)
      PROVE  FailedKept
  BY <1>20, <1>a
      DEF FailedKept, TypeInv, TypeOK, Ended, FinishJob, Goto, apiVars, platVars,
        lmVars
<1>21. ASSUME NEW k \in Jobs, CleanUp(k)
      PROVE  FailedKept
  BY <1>21, <1>a
      DEF FailedKept, TypeInv, TypeOK, Ended, CleanUp, Goto, docVars, apiVars,
        platVars, lmVars
<1>22. ASSUME NEW k \in Jobs, MainRaises(k)
      PROVE  FailedKept
  BY <1>22, <1>a
      DEF FailedKept, TypeInv, TypeOK, Ended, MainRaises, Goto, docVars, apiVars,
        platVars, lmVars
<1>23. ASSUME NEW k \in Jobs, set_job_fail_reason(k)
      PROVE  FailedKept
  BY <1>23, <1>a
      DEF FailedKept, TypeInv, TypeOK, Ended, set_job_fail_reason, Goto, apiVars,
        platVars, lmVars
<1>24. ASSUME NEW k \in Jobs, Crash(k)
      PROVE  FailedKept
  BY <1>24, <1>a
      DEF FailedKept, TypeInv, TypeOK, Ended, Crash, Goto, docVars, apiVars,
        platVars, lmVars
<1>25. ASSUME NEW k \in Jobs, NEW t \in Tenants, PickTenant(k, t)
      PROVE  FailedKept
  BY <1>25, <1>a
      DEF FailedKept, TypeInv, TypeOK, Ended, PickTenant, Goto, docVars, apiVars,
        platVars, lmVars
<1>26. ASSUME NEW k \in Jobs, NEW a \in Algorithms, process_tenant_instances(k, a)
      PROVE  FailedKept
  BY <1>26, <1>a
      DEF FailedKept, TypeInv, TypeOK, Ended, process_tenant_instances, docVars,
        apiVars, platVars, lmVars
<1>27. CASE UNCHANGED vars
  BY <1>27, <1>a
      DEF FailedKept, TypeInv, TypeOK, Ended, vars, docVars, apiVars, platVars,
        exVars, lmVars
<1>28. QED
  BY <1>a, <1>1, <1>2, <1>3, <1>4, <1>5, <1>6, <1>7, <1>8, <1>9, <1>10, <1>11,
        <1>12, <1>13, <1>14, <1>15, <1>16, <1>17, <1>18, <1>19, <1>20, <1>21,
        <1>22, <1>23, <1>24, <1>25, <1>26, <1>27
      DEF Next, Request, Executor, Terminated

\* No request that is still under way revives a job whose executor is gone.
THEOREM FailedStaysAfterExecutorTheorem == Spec => FailedStaysAfterExecutor
<1>1. IInv /\ [Next]_vars => [FailedKept]_vars
  BY FailedStep DEF IInv
<1>2. Spec => [][FailedKept]_vars
  BY <1>1, Invariance, PTL DEF Spec
<1>3. QED
  BY <1>2 DEF FailedStaysAfterExecutor, FailedKept

-----------------------------------------------------------------------------
(* JobPipeline implements ScanLedger                                       *)

\* Every step keeps the ledger as it is or is a step of ScanLedger.
LEMMA LedgerStep == IInv /\ [Next]_vars => [Ledger!Next]_(Ledger!vars)
<1>a. SUFFICES ASSUME TypeInv, DocumentInv, RequestInv, [Next]_vars,
                      \A j \in Jobs : ScanInv(j) /\ CurrentInv(j)
               PROVE  [Ledger!Next]_(Ledger!vars)
  BY DEF IInv
<1>1. ASSUME NEW w \in Workers, ensure_job_is_allowed(w)
      PROVE  [Ledger!Next]_(Ledger!vars)
  BY <1>1, <1>a
      DEF Ledger!vars, ensure_job_is_allowed, docVars, platVars, exVars, lmVars
<1>2. ASSUME NEW w \in Workers, save_job(w)
      PROVE  [Ledger!Next]_(Ledger!vars)
  <2>1. Ledger!Register(target[w])
    BY <1>2, <1>a, NoTenantsType
       DEF TypeInv, TypeOK, DocumentInv, RequestInv, Granted, save_job, Ledger!Register,
           Release, lmVars, Ledger!NoTenants, NoTenants
  <2>2. QED
    BY <1>a, <1>2, <2>1 DEF Ledger!Next, TypeInv, save_job
<1>3. ASSUME NEW w \in Workers, terminate_job(w)
      PROVE  [Ledger!Next]_(Ledger!vars)
  BY <1>3, <1>a
      DEF Ledger!vars, terminate_job, docVars, exVars, lmVars
<1>4. ASSUME NEW w \in Workers, save_terminated(w)
      PROVE  [Ledger!Next]_(Ledger!vars)
  BY <1>4, <1>a
      DEF Ledger!vars, save_terminated, Release, platVars, exVars, lmVars
<1>5. ASSUME NEW w \in Workers, RequestFails(w)
      PROVE  [Ledger!Next]_(Ledger!vars)
  BY <1>5, <1>a
      DEF Ledger!vars, RequestFails, Release, docVars, platVars, exVars, lmVars
<1>6. ASSUME NEW w \in Workers, WorkerRestart(w)
      PROVE  [Ledger!Next]_(Ledger!vars)
  BY <1>6, <1>a
      DEF Ledger!vars, WorkerRestart, Release, docVars, exVars, lmVars
<1>7. ASSUME NEW w \in Workers, NEW k \in Jobs, submit_job(w, k)
      PROVE  [Ledger!Next]_(Ledger!vars)
  BY <1>7, <1>a
      DEF Ledger!vars, submit_job, docVars, lmVars
<1>8. ASSUME NEW w \in Workers, NEW k \in Jobs, delete(w, k)
      PROVE  [Ledger!Next]_(Ledger!vars)
  BY <1>8, <1>a
      DEF Ledger!vars, delete, docVars, platVars, exVars, lmVars, Terminal
<1>9. ASSUME NEW k \in Jobs, FindJob(k)
      PROVE  [Ledger!Next]_(Ledger!vars)
  BY <1>9, <1>a
      DEF Ledger!vars, FindJob, Goto, docVars, apiVars, platVars, lmVars
<1>10. ASSUME NEW k \in Jobs, JobNotFound(k)
      PROVE  [Ledger!Next]_(Ledger!vars)
  BY <1>10, <1>a
      DEF Ledger!vars, JobNotFound, Goto, docVars, apiVars, platVars, lmVars
<1>11. ASSUME NEW k \in Jobs, SetRunning(k)
      PROVE  [Ledger!Next]_(Ledger!vars)
  BY <1>11, <1>a
      DEF Ledger!vars, SetRunning, Goto, apiVars, platVars, lmVars
<1>12. ASSUME NEW k \in Jobs, Initialize(k)
      PROVE  [Ledger!Next]_(Ledger!vars)
  BY <1>12, <1>a
      DEF Ledger!vars, Initialize, Goto, docVars, apiVars, platVars, lmVars
<1>13. ASSUME NEW k \in Jobs, submit_licensed_job(k)
      PROVE  [Ledger!Next]_(Ledger!vars)
  <2>1. Ledger!Grant(k, cur[k])
    BY <1>13, <1>a DEF TypeInv, TypeOK, InBody, ScanInv, CurrentInv, docVars, lmVars, submit_licensed_job, GrantLicense, Ledger!Grant
  <2>2. QED
    BY <1>a, <1>13, <2>1 DEF Ledger!Next, TypeInv, InBody, submit_licensed_job
<1>14. ASSUME NEW k \in Jobs, LicenseAnswerLost(k)
      PROVE  [Ledger!Next]_(Ledger!vars)
  <2>1. Ledger!Grant(k, cur[k])
    BY <1>14, <1>a DEF TypeInv, TypeOK, InBody, ScanInv, CurrentInv, docVars, lmVars, LicenseAnswerLost, GrantLicense, Ledger!Grant
  <2>2. QED
    BY <1>a, <1>14, <2>1 DEF Ledger!Next, TypeInv, InBody, LicenseAnswerLost
<1>15. ASSUME NEW k \in Jobs, SaveSucceeded(k)
      PROVE  [Ledger!Next]_(Ledger!vars)
  <2>1. Ledger!Succeed(k, cur[k])
    BY <1>15, <1>a DEF TypeInv, TypeOK, InBody, ScanInv, CurrentInv, docVars, lmVars, SaveSucceeded, Ledger!Succeed
  <2>2. QED
    BY <1>a, <1>15, <2>1 DEF Ledger!Next, TypeInv, InBody, SaveSucceeded
<1>16. ASSUME NEW k \in Jobs, NotifySucceeded(k)
      PROVE  [Ledger!Next]_(Ledger!vars)
  <2>1. CASE lm' = lm
    BY <1>16, <2>1 DEF NotifySucceeded, docVars, Ledger!vars
  <2>2. CASE lm' # lm
    <3>1. Ledger!Notify(k, cur[k])
      BY <1>16, <1>a, <2>2
         DEF TypeInv, TypeOK, InBody, ScanInv, CurrentInv, docVars, lmVars, NotifySucceeded, Ledger!Notify, FailedValue, Ledger!FailedValue
    <3>2. QED
      BY <1>a, <1>16, <3>1 DEF Ledger!Next, TypeInv, InBody, NotifySucceeded
  <2>3. QED
    BY <2>1, <2>2
<1>17. ASSUME NEW k \in Jobs, BodyFails(k)
      PROVE  [Ledger!Next]_(Ledger!vars)
  BY <1>17, <1>a
      DEF Ledger!vars, BodyFails, Goto, docVars, apiVars, platVars, lmVars
<1>18. ASSUME NEW k \in Jobs, SaveFailed(k)
      PROVE  [Ledger!Next]_(Ledger!vars)
  <2>1. Ledger!Fail(k, cur[k])
    BY <1>18, <1>a DEF TypeInv, TypeOK, InBody, ScanInv, CurrentInv, docVars, lmVars, SaveFailed, FailedValue, Ledger!FailedValue, Ledger!Fail
  <2>2. QED
    BY <1>a, <1>18, <2>1 DEF Ledger!Next, TypeInv, InBody, SaveFailed
<1>19. ASSUME NEW k \in Jobs, NotifyFailed(k)
      PROVE  [Ledger!Next]_(Ledger!vars)
  <2>1. CASE lm' = lm
    BY <1>19, <2>1 DEF NotifyFailed, docVars, Ledger!vars
  <2>2. CASE lm' # lm
    <3>1. Ledger!Notify(k, cur[k])
      BY <1>19, <1>a, <2>2
         DEF TypeInv, TypeOK, InBody, ScanInv, CurrentInv, docVars, lmVars, NotifyFailed, Ledger!Notify, FailedValue, Ledger!FailedValue
    <3>2. QED
      BY <1>a, <1>19, <3>1 DEF Ledger!Next, TypeInv, InBody, NotifyFailed
  <2>3. QED
    BY <2>1, <2>2
<1>20. ASSUME NEW k \in Jobs, FinishJob(k)
      PROVE  [Ledger!Next]_(Ledger!vars)
  BY <1>20, <1>a
      DEF Ledger!vars, FinishJob, Goto, apiVars, platVars, lmVars
<1>21. ASSUME NEW k \in Jobs, CleanUp(k)
      PROVE  [Ledger!Next]_(Ledger!vars)
  BY <1>21, <1>a
      DEF Ledger!vars, CleanUp, Goto, docVars, apiVars, platVars, lmVars
<1>22. ASSUME NEW k \in Jobs, MainRaises(k)
      PROVE  [Ledger!Next]_(Ledger!vars)
  BY <1>22, <1>a
      DEF Ledger!vars, MainRaises, Goto, docVars, apiVars, platVars, lmVars
<1>23. ASSUME NEW k \in Jobs, set_job_fail_reason(k)
      PROVE  [Ledger!Next]_(Ledger!vars)
  BY <1>23, <1>a
      DEF Ledger!vars, set_job_fail_reason, Goto, apiVars, platVars, lmVars
<1>24. ASSUME NEW k \in Jobs, Crash(k)
      PROVE  [Ledger!Next]_(Ledger!vars)
  BY <1>24, <1>a
      DEF Ledger!vars, Crash, Goto, docVars, apiVars, platVars, lmVars, Ended
<1>25. ASSUME NEW k \in Jobs, NEW t \in Tenants, PickTenant(k, t)
      PROVE  [Ledger!Next]_(Ledger!vars)
  BY <1>25, <1>a
      DEF Ledger!vars, PickTenant, Goto, docVars, apiVars, platVars, lmVars
<1>26. ASSUME NEW k \in Jobs, NEW a \in Algorithms, process_tenant_instances(k, a)
      PROVE  [Ledger!Next]_(Ledger!vars)
  <2>1. Ledger!Upload(k, cur[k], a)
    BY <1>26, <1>a DEF TypeInv, TypeOK, InBody, ScanInv, CurrentInv, docVars, lmVars, process_tenant_instances, Ledger!Upload
  <2>2. QED
    BY <1>a, <1>26, <2>1 DEF Ledger!Next, TypeInv, InBody, process_tenant_instances
<1>27. CASE UNCHANGED vars
  BY <1>27, <1>a
      DEF Ledger!vars, vars, docVars, apiVars, platVars, exVars, lmVars
<1>28. QED
  BY <1>a, <1>1, <1>2, <1>3, <1>4, <1>5, <1>6, <1>7, <1>8, <1>9, <1>10, <1>11,
        <1>12, <1>13, <1>14, <1>15, <1>16, <1>17, <1>18, <1>19, <1>20, <1>21,
        <1>22, <1>23, <1>24, <1>25, <1>26, <1>27
      DEF Next, Request, Executor, Terminated

\* The document, LM's record and the uploaded results of every tenant evolve as
\* ScanLedger allows, whatever is lost, raised, terminated or restarted.
THEOREM RefinesLedgerTheorem == Spec => RefinesLedger
<1>1. Init => Ledger!Init
  BY DEF Init, Ledger!Init, NoTenants, Ledger!NoTenants
<1>2. QED
  BY <1>1, LedgerStep, Invariance, PTL DEF Spec, RefinesLedger, Ledger!Spec

-----------------------------------------------------------------------------
(* The ledger keeps its three records consistent.  JobPipeline only renames *)
(* its variables, so nothing here depends on processes.                     *)

\* Consistent is inductive once the records have their types.
LedgerInv == Ledger!TypeOK /\ Ledger!Consistent

LEMMA LedgerInvInit == Ledger!Init => LedgerInv
  BY DEF Ledger!Init, LedgerInv, Ledger!TypeOK, Ledger!Consistent, Ledger!ForbiddenIsUntouched,
         Ledger!SuccessIsBacked, Ledger!RecordAgrees, Ledger!NoTenants, Ledger!TenantValue,
         Ledger!TenantStatusEnum, Ledger!LicenseRecord

LEMMA LedgerInvStep == LedgerInv /\ [Ledger!Next]_(Ledger!vars) => LedgerInv'
<1> SUFFICES ASSUME LedgerInv, [Ledger!Next]_(Ledger!vars) PROVE LedgerInv'
  OBVIOUS
<1> USE DEF LedgerInv, Ledger!TypeOK, Ledger!Consistent, Ledger!ForbiddenIsUntouched,
            Ledger!SuccessIsBacked, Ledger!RecordAgrees
<1>1. ASSUME NEW j \in Jobs, Ledger!Register(j) PROVE LedgerInv'
  <2>1. Ledger!TypeOK'
    BY <1>1 DEF Ledger!Register, Ledger!TenantValue, Ledger!TenantStatusEnum
  <2>2. \A t \in Tenants : lm[j][t] = "none" /\ \A a \in Algorithms : <<t, a>> \notin reports[j]
    BY <1>1 DEF Ledger!Register, Ledger!NoTenants
  <2>3. /\ \A t \in Tenants : tenants'[j][t] \in {"ABSENT", "FORBIDDEN", "RUNNABLE"}
        /\ \A i \in Jobs : i # j => tenants'[i] = tenants[i]
        /\ lm' = lm /\ reports' = reports
    BY <1>1 DEF Ledger!Register
  <2>4. Ledger!ForbiddenIsUntouched'
    BY <2>2, <2>3
  <2>5. Ledger!SuccessIsBacked'
    BY <2>3
  <2>6. Ledger!RecordAgrees'
    BY <2>2, <2>3 DEF Ledger!FailedValue
  <2>7. QED
    BY <2>1, <2>4, <2>5, <2>6
<1>2. ASSUME NEW j \in Jobs, NEW t \in Tenants, Ledger!Grant(j, t) PROVE LedgerInv'
  BY <1>2 DEF Ledger!Grant, Ledger!LicenseRecord
<1>3. ASSUME NEW j \in Jobs, NEW t \in Tenants, Ledger!Succeed(j, t) PROVE LedgerInv'
  <2>1. Ledger!TypeOK'
    BY <1>3 DEF Ledger!Succeed, Ledger!TenantValue, Ledger!TenantStatusEnum
  <2>2. Ledger!Consistent'
    BY <1>3 DEF Ledger!Succeed, Ledger!FailedValue
  <2>3. QED
    BY <2>1, <2>2
<1>4. ASSUME NEW j \in Jobs, NEW t \in Tenants, Ledger!Fail(j, t) PROVE LedgerInv'
  <2>1. Ledger!TypeOK'
    BY <1>4 DEF Ledger!Fail, Ledger!FailedValue, Ledger!TenantValue, Ledger!TenantStatusEnum
  <2>2. Ledger!Consistent'
    BY <1>4 DEF Ledger!Fail, Ledger!FailedValue
  <2>3. QED
    BY <2>1, <2>2
<1>5. ASSUME NEW j \in Jobs, NEW t \in Tenants, Ledger!Notify(j, t) PROVE LedgerInv'
  <2>1. CASE tenants[j][t] = "SUCCEEDED"
    <3>1. lm' = [lm EXCEPT ![j][t] = "SUCCEEDED"] /\ UNCHANGED <<tenants, reports>>
      BY <1>5, <2>1 DEF Ledger!Notify, Ledger!FailedValue
    <3>2. Ledger!TypeOK'
      BY <3>1 DEF Ledger!LicenseRecord
    <3>3. Ledger!Consistent'
      BY <1>5, <2>1, <3>1 DEF Ledger!Notify, Ledger!FailedValue
    <3>4. QED
      BY <3>2, <3>3
  <2>2. CASE tenants[j][t] \in Ledger!FailedValue
    <3>1. lm' = [lm EXCEPT ![j][t] = "FAILED"] /\ UNCHANGED <<tenants, reports>>
      BY <1>5, <2>2 DEF Ledger!Notify, Ledger!FailedValue
    <3>2. Ledger!TypeOK'
      BY <3>1 DEF Ledger!LicenseRecord
    <3>3. Ledger!Consistent'
      BY <1>5, <2>2, <3>1 DEF Ledger!Notify, Ledger!FailedValue
    <3>4. QED
      BY <3>2, <3>3
  <2>3. QED
    BY <1>5, <2>1, <2>2 DEF Ledger!Notify
<1>6. ASSUME NEW j \in Jobs, NEW t \in Tenants, NEW a \in Algorithms, Ledger!Upload(j, t, a) PROVE LedgerInv'
  <2>1. Ledger!TypeOK'
    BY <1>6 DEF Ledger!Upload
  <2>2. Ledger!Consistent'
    BY <1>6 DEF Ledger!Upload
  <2>3. QED
    BY <2>1, <2>2
<1>7. CASE UNCHANGED Ledger!vars
  BY <1>7 DEF Ledger!vars
<1>8. QED
  BY <1>1, <1>2, <1>3, <1>4, <1>5, <1>6, <1>7 DEF Ledger!Next

\* No licence and no scan without permission, a licence and all results behind
\* every success, no outcome at LM that the document contradicts.
THEOREM LedgerIsConsistent == Ledger!Spec => []Ledger!Consistent
<1>1. LedgerInv => Ledger!Consistent
  BY DEF LedgerInv
<1>2. QED
  BY <1>1, LedgerInvInit, LedgerInvStep, PTL DEF Ledger!Spec

\* No tenant is scanned or paid for without permission, no success lacks a licence
\* or a result, and LM has no outcome that the document contradicts: what
\* ScanLedger keeps, carried over by the refinement.
THEOREM LedgerConsistentTheorem == Spec => []LedgerConsistent
<1>1. Ledger!Consistent => LedgerConsistent
  BY DEF LedgerConsistent
<1>2. QED
  BY <1>1, LedgerIsConsistent, RefinesLedgerTheorem, PTL DEF RefinesLedger
-----------------------------------------------------------------------------
(* Licences in doubt                                                       *)

\* No licence is in doubt for a job outside its loop, before the loop began.
LEMMA NothingInDoubtYet ==
  ASSUME IInv, LedgerConsistent, NEW j \in Jobs, status[j] = "ABSENT"
  PROVE  \A t \in Tenants : lm[j][t] = "none"
<1>1. tenants[j] = NoTenants
  BY DEF IInv, DocumentInv
<1>2. QED
  BY <1>1 DEF LedgerConsistent, Ledger!Consistent, Ledger!ForbiddenIsUntouched, NoTenants

\* A step that takes no licence and makes no tenant wait leaves no more in doubt.
LEMMA NoMoreInDoubt ==
  ASSUME OneLicenceIsInDoubt,
         \A j \in Jobs, t \in Tenants : InDoubt(j, t)' => InDoubt(j, t)
  PROVE  OneLicenceIsInDoubt'
BY DEF OneLicenceIsInDoubt

\* While a job is in its loop, only the tenant it works on can be in doubt.
LEMMA LoopInDoubt ==
  ASSUME IInv, NEW j \in Jobs, NEW t \in Tenants, pc[j] \in InLoop, InDoubt(j, t)
  PROVE  t = cur[j]
BY DEF IInv, ScanInv, InDoubt

LEMMA DoubtStep ==
  ASSUME IInv, LedgerConsistent, OneLicenceIsInDoubt, [Next]_vars
  PROVE  OneLicenceIsInDoubt'
<1>a. TypeInv
  BY DEF IInv
<1>1. ASSUME NEW w \in Workers, save_job(w)
      PROVE  OneLicenceIsInDoubt'
  <2>1. target[w] \in Jobs /\ status[target[w]] = "ABSENT"
    BY <1>1 DEF IInv, RequestInv, TypeInv, save_job
  <2>2. \A t \in Tenants : lm'[target[w]][t] = "none"
    BY <1>1, <2>1, NothingInDoubtYet DEF save_job, lmVars
  <2>3. \A j \in Jobs : j # target[w] => tenants'[j] = tenants[j] /\ lm'[j] = lm[j]
    BY <1>1, <1>a DEF save_job, TypeInv, TypeOK, lmVars
  <2>4. QED
    BY <2>2, <2>3, NoMoreInDoubt DEF InDoubt
<1>2. ASSUME NEW k \in Jobs, pc[k] = "submit", GrantLicense(k), UNCHANGED tenants
      PROVE  OneLicenceIsInDoubt'
  <2>1. ASSUME NEW j \in Jobs, NEW t \in Tenants, InDoubt(j, t)'
        PROVE  InDoubt(j, t) \/ (j = k /\ t = cur[k])
    BY <1>2, <2>1, <1>a DEF InDoubt, GrantLicense, TypeInv, TypeOK
  <2>2. \A t \in Tenants : InDoubt(k, t) => t = cur[k]
    BY <1>2, LoopInDoubt DEF InLoop, InBody
  <2>3. QED
    BY <2>1, <2>2 DEF OneLicenceIsInDoubt
<1>3. ASSUME NEW k \in Jobs, NEW v \in TenantValue \ {"RUNNABLE"}, UNCHANGED lm,
             tenants' = [tenants EXCEPT ![k][cur[k]] = v]
      PROVE  OneLicenceIsInDoubt'
  <2>1. ASSUME NEW j \in Jobs, NEW t \in Tenants, InDoubt(j, t)'
        PROVE  InDoubt(j, t)
    BY <1>3, <2>1, <1>a DEF InDoubt, TypeInv, TypeOK
  <2>2. QED
    BY <2>1, NoMoreInDoubt
<1>4. ASSUME NEW k \in Jobs, UNCHANGED tenants, lm[k][cur[k]] # "none", NEW v,
             UNCHANGED lm \/ lm' = [lm EXCEPT ![k][cur[k]] = v]
      PROVE  OneLicenceIsInDoubt'
  <2>1. ASSUME NEW j \in Jobs, NEW t \in Tenants, InDoubt(j, t)'
        PROVE  InDoubt(j, t)
    <3>1. tenants[j][t] = "RUNNABLE" /\ lm'[j][t] # "none"
      BY <1>4, <2>1 DEF InDoubt
    <3>2. lm'[j][t] = lm[j][t] \/ (j = k /\ t = cur[k])
      BY <1>4, <1>a DEF TypeInv, TypeOK
    <3>3. QED
      BY <1>4, <3>1, <3>2 DEF InDoubt
  <2>2. QED
    BY <2>1, NoMoreInDoubt
<1>5. CASE UNCHANGED <<tenants, lm>>
  BY <1>5, NoMoreInDoubt DEF InDoubt
<1>6. ASSUME NEW w \in Workers, Request(w) \/ WorkerRestart(w)
      PROVE  OneLicenceIsInDoubt'
  BY <1>1, <1>5, <1>6
     DEF Request, ensure_job_is_allowed, submit_job, delete, terminate_job, save_terminated,
         RequestFails, WorkerRestart, docVars, lmVars
<1>7. ASSUME NEW k \in Jobs, submit_licensed_job(k) \/ LicenseAnswerLost(k)
      PROVE  OneLicenceIsInDoubt'
  BY <1>2, <1>7 DEF submit_licensed_job, LicenseAnswerLost, docVars
<1>8. ASSUME NEW k \in Jobs, SaveSucceeded(k) \/ SaveFailed(k)
      PROVE  OneLicenceIsInDoubt'
  BY <1>3, <1>8
     DEF SaveSucceeded, SaveFailed, FailedValue, TenantValue, TenantStatusEnum, lmVars
<1>9. ASSUME NEW k \in Jobs, NotifySucceeded(k)
      PROVE  OneLicenceIsInDoubt'
  <2>1. lm[k][cur[k]] # "none"
    BY <1>9 DEF NotifySucceeded, IInv, CurrentInv
  <2>2. QED
    BY <1>4, <1>9, <2>1 DEF NotifySucceeded, docVars
<1>10. ASSUME NEW k \in Jobs, NotifyFailed(k)
       PROVE  OneLicenceIsInDoubt'
  <2>1. CASE lm' = lm
    BY <1>5, <1>10, <2>1 DEF NotifyFailed, docVars
  <2>2. CASE lm' # lm
    BY <1>4, <1>10, <2>2 DEF NotifyFailed, docVars
  <2>3. QED
    BY <2>1, <2>2
<1>11. ASSUME NEW k \in Jobs,
              \/ FindJob(k) \/ JobNotFound(k) \/ SetRunning(k) \/ Initialize(k)
              \/ \E t \in Tenants : PickTenant(k, t)
              \/ \E a \in Algorithms : process_tenant_instances(k, a)
              \/ BodyFails(k) \/ FinishJob(k) \/ CleanUp(k) \/ MainRaises(k)
              \/ set_job_fail_reason(k) \/ Crash(k)
       PROVE  OneLicenceIsInDoubt'
  BY <1>5, <1>11
     DEF FindJob, JobNotFound, SetRunning, Initialize, PickTenant, process_tenant_instances,
         BodyFails, FinishJob, CleanUp, MainRaises, set_job_fail_reason, Crash, docVars, lmVars
<1>12. CASE UNCHANGED vars
  BY <1>5, <1>12 DEF vars, docVars, lmVars
<1>13. ASSUME NEW k \in Jobs, Executor(k) \/ Crash(k) \/ Terminated(k)
       PROVE  OneLicenceIsInDoubt'
  BY <1>7, <1>8, <1>9, <1>10, <1>11, <1>13 DEF Executor, Terminated
<1>14. QED
  BY <1>6, <1>12, <1>13 DEF Next

\* A job leaves at most one tenant with a licence taken and no outcome, wherever
\* an exception or a kill stops its executor.  A licence is only taken inside the
\* loop, where IInv has every other waiting tenant without one, and a document
\* saved late has no licences yet because the ledger is consistent.
THEOREM OneLicenceIsInDoubtTheorem == Spec => []OneLicenceIsInDoubt
<1>1. Init => OneLicenceIsInDoubt
  BY DEF Init, OneLicenceIsInDoubt, InDoubt
<1>2. QED
  BY <1>1, DoubtStep, Invariance, LedgerConsistentTheorem, PTL DEF Spec
=============================================================================
