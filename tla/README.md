# A TLA+ verification project for r8s (RightSizer)

r8s recommends sizes and schedules for cloud instances. A customer's tenants are scanned by
*licensed jobs*: an API accepts a job, a batch platform starts an executor process for it, the
executor asks a License Manager (LM, an external service) for permission tenant by tenant, runs the
algorithms of the licence over the tenant's metrics, uploads the results and records what became of
each tenant.

Paths below are relative to the repository. `src/` is the API, `docker/` the executor, `r8s/` the
command line client.

## 1. Inventory

| Component | Code | State | Operations | What is hard about it |
|---|---|---|---|---|
| Job API | `src/lambdas/r8s_api_handler/processors/job_processor.py`, `src/services/job_service.py` | `Job` documents in MongoDB | POST, GET, DELETE of a job | launch before save; the status is checked on one copy and saved from it later |
| Executor | `docker/executor.py`, `docker/services/job_service.py` | its stale copy of the `Job`, work directory | main, one loop over tenants, exception handlers, the scan of a tenant | exceptions at every step, kills, lost LM answers, writes of other processes, history written before the reports |
| Subprocess adapter | `src/connections/batch_extension/` | `_processes`, one map per gunicorn worker | submit, terminate, prune | zombies, recycled pids, several workers, worker restarts |
| LM client | `src/services/license_manager_service.py`, `docker/services/license_manager_service.py` | token in the secret store, caches of the process | allowance map, job POST and PATCH, sync | lost answers, token expiry, caches that are never read again, no timeouts |
| LM configuration, client keys | `license_manager_*_processor.py`, `standalone_key_management.py` | settings, private keys in SSM or Vault | POST and DELETE of both, signing | key and setting are two writes; setting names are not unique |
| Recommendation history | `docker/services/recommendation_history_service.py`, `src/services/recommendation_history_service.py` | `RecommendationHistory` documents | create or update, batch save, user feedback | two writers without locks, deletions, several actions per resource |
| Metrics | `docker/services/metrics_service.py`, `meta_service.py` | none | merge, cut, aggregate, divide into days and periods | boundaries of days, gaps, ages |
| Storages | `docker/services/storage_service.py` | files in S3 and on disk | list, filter, download, upload | downloads in threads whose failure nobody notices |
| Resource pipeline | `docker/services/recomendation_service.py` | none between resources | one instance or group at a time | past recommendations with feedback, many error paths |
| Schedule, resize, savings | `docker/services/schedule/`, `resize/`, `saving/` | none | pure | medians, merging, rounding, filters that are relaxed one after the other |
| Resource groups, autoscaling | `docker/services/resource_group_service.py`, `recomendation_service.py` | history items of the members | divide, filter, synchronise, size a group | rewrites items of several members, cool-down |
| Insights and dry run | `src/services/resize_service.py`, `shape_rule_filter_service.py` | none | which shapes are left | copies of the executor's filters that differ from them |
| Licences | `license_sync_processor.py`, `application_licenses_processor.py` | applications, algorithms | add, synchronise | several documents change one after the other, two customers share algorithms |
| Applications and parents | `application_processor.py`, `parent_processor.py`, `dojo_*` | applications, parents, secrets, soft deletion | POST, PATCH, DELETE | references between documents, checks that are stale when used |
| Shape rules, resource groups of a parent | `shape_rule_processor.py`, `resource_group_processor.py` | `meta` of the parent | POST, PATCH, DELETE | six handlers rewrite one document |
| Algorithms, storages, shapes, prices | their processors and services | documents | POST, PATCH, DELETE, price synchronisation | licensed algorithms have two owners; a price is replaced by delete and insert |
| Access control | `src/services/rbac/`, `cognito_to_jwt_adapter.py`, role, policy and user processors | roles, policies, users, token versions | sign-in, refresh, check of a request, administration | one live refresh token; user, role and policies are read one after the other |
| Health checks | `src/services/health_checks/` | none | six checks | read what others change |
| Defect Dojo client | `docker/services/defect_dojo_service.py` | none | push of history items | works on copies in memory that the database has passed |
| Report generator | `src/lambdas/r8s_report_generator` | none | a mail per tenant from its history | documents of several jobs and types per resource are combined |
| Reports of the API, CLI | `report_processor.py`, `r8s/` | tokens of the CLI | read and format | the CLI overwrites its refresh token |

How they interact: the API starts the executor through AWS Batch or, on premises, as a subprocess of
the gunicorn worker that served the request. After that the two share the `Job` document, the signal
of a termination, and what the executor reads when it gets there: parents, applications, algorithms,
shapes and rules. Both talk to LM over HTTP with one cached token. The executor and the API share
the history documents: one writes recommendations, the other the users' answers. No component locks
anything. mongoengine saves only the fields that a process changed on its copy; the models of
`modular_sdk` (Application, Parent) save the whole document. Either way a save goes over whatever
the document holds by then.

What makes the components correct:

* jobs: the document, LM's record and the uploaded results of a tenant agree; a job that is over
  stays over; a job that an executor has begun is settled;
* subprocesses: the map holds the worker's own live executors and only them, the limit is kept;
* history: a user's answer survives, every recommended action is on record as what it is;
* the scan of a tenant: every resource is reported, with all its metrics, whatever earlier scans
  left behind; a group does not contradict itself;
* the algorithms: busy time is not shut down, a recommended shape bears the load and is allowed, a
  group is sized by its peers, the savings and the forecasts agree with the recommendation;
* licences, applications, parents, reference data: what one request keeps in several documents stays
  together; handlers that share a document do not undo each other;
* access control: access is granted only by a policy of an unexpired role; nobody is locked out by a
  token that nobody has.

The hazards this leads to are listed, with their lines, in `PROJECT.json`.

## 2. Modules

| Module | Models | Uses |
|---|---|---|
| `JobTenantMap` | building the tenant map of a job, the tenants to scan (operators only) | |
| `ScanLedger` | abstract: what scanning promises about document, licence and results of a tenant | `JobTenantMap` |
| `JobPipeline` | API workers, the `Job` documents, executors, LM as far as jobs go | `JobTenantMap`, `ScanLedger` (by refinement) |
| `SubprocessPool` | `BatchToSubprocessAdapter`, its worker and the operating system's pids | |
| `RecommendationHistory` | the history of one resource: executors and answering users | |
| `TagGroups` | `ResourceGroupService`: contradictions inside a tag group (operators) | |
| `GroupDivision` | which resources belong to the groups of a parent (operators) | |
| `TenantScan` | the scan of one tenant, repeated: files, history, groups, reports, Defect Dojo | `TagGroups`, `GroupDivision` |
| `Lists` | comprehensions, `sorted()`, `sum()`, the first of equal elements, in a form that proofs can use | |
| `WeeklySchedule` | from idle periods to a weekly schedule (operators) | `Lists` |
| `Resize` | from trends to recommended shapes (operators) | `Lists` |
| `AutoscalingGroup` | the size of an autoscaling group (operators) | `Lists` |
| `Savings` | what each of them saves (operators) | `WeeklySchedule`, `Resize`, `AutoscalingGroup` |
| `ShapeInsights` | insights and dry run of the API (operators) | `Resize` |
| `MetricsProcessing` | from metric files to whole days and periods of one load (operators) | `WeeklySchedule` |
| `TenantReport` | the mail about a tenant's recommendations (operators) | `AutoscalingGroup` (rounding) |
| `RecommendationAlgorithms` | applies each of them to one input | `Savings`, `ShapeInsights`, `MetricsProcessing`, `TenantReport` |
| `AccessControl` | users, roles, policies, tokens, the CLI's sessions, the check of a request | |
| `ReferenceData` | storages, shapes, prices, algorithms and the requests that change them | |
| `Catalog` | applications, parents, rules, groups, secrets, licences | `ReferenceData` |
| `HealthChecks` | what the health checks answer over a state of the catalogue | `Catalog` |
| `LicenseToken` | configuration, keys, token and caches on the way to LM | |
| `MC*` | instances for TLC: symmetry sets, inputs, budgets | |
| `*Proofs` | proofs about the module they are named after | |

Conventions. Operators named `X_Something` under a comment "Mutant" are variants of `X` with a
plausible bug. No specification uses them; each shows that a property notices that bug. In the
modules about the API every request has a thread: it is one action up to its last read and one
action per write, in the code's order, so that any two requests interleave at every write. `Budgets`
bound how many requests of each sort a behaviour has, so that every mixture is explored without
their product. Variables called *history* in their comment (`mixed`, `died`, `dropped`, `priced`,
`kept`, `could`, `expires`, `unsound`, and `lost` of `AccessControl`) record what properties refer
to; no guard reads them.

### JobPipeline

| Variable | Code |
|---|---|
| `status`, `tenants`, `reason` | `Job.status`, `Job.tenant_status_map`, and who wrote `Job.fail_reason` |
| `api`, `target`, `grant` | where a worker is in POST or DELETE; the job; the tenant map it built |
| `owner` | the worker whose adapter maps the job to a pid |
| `signal` | Batch's TerminateJob, or SIGTERM, on its way |
| `pc`, `scan`, `cur`, `left` | the executor's place, its scan list (of its stale copy), the tenant and algorithms at hand |
| `reports` | results in the output storage |
| `lm`, `balance` | LM's record of the licensed job `<job>:<tenant>`, the jobs it still grants |

The actions follow the code call by call wherever another process can come in between. POST is
`ensure_job_is_allowed`, `submit_job`, `save_job`: the executor runs before the document exists.
DELETE is `delete`, `terminate_job`, `save_terminated`. `main` is `FindJob` or `JobNotFound`,
`SetRunning`, `Initialize`, then per tenant `PickTenant`, `submit_licensed_job`,
`process_tenant_instances` for each algorithm, `SaveSucceeded`, `NotifySucceeded`, or `BodyFails`,
`SaveFailed`, `NotifyFailed`; then `FinishJob` and `CleanUp`. `MainRaises` and `set_job_fail_reason`
are the `__main__` block. `set_licensed_job_status` is two actions because it saves the document
first and calls LM afterwards, and the call may raise. `RequestFails`, `WorkerRestart`,
`LicenseAnswerLost` and `Crash` are the failures; the update of LM may be lost silently
(`update_job_in_license_manager` ignores the answer). `save_*` write the fields that the process
changed and nothing else.

LM is external: it grants a job while the balance lasts, and keeps the status it is told. The
allowance map is an arbitrary answer: any subset of the tenants, also none, in any order.

Abstracted: names, dates, texts of reasons (`"REASON"` stands for any), the validation of a request
before LM is asked (it only narrows the set of tenants), the scan of one algorithm (one step, up to
its upload; `TenantScan` opens it). Two executors never get one id, so ids are not reused.

### SubprocessPool

`kind`, `job`, `parent` are the operating system's view of every pid; `processes` is `_processes` of
each worker; `req` and `child` are the place inside `submit_job`. The property `processes` of the
code prunes as it is read, so every action that reads it stores the pruned map: `Pruned`.
`subprocess` reaps a worker's finished children at the start of the next `Popen`; when `submit_job`
returns, its `Popen` object is collected and polls its own child once (`Collect`). Pids come round
in a cycle, so one just freed is not handed out again while a `Popen` is in progress. `early` says
whether an executor may end before the call that starts it has returned; `TrackedIsOwnExecutor` is
claimed where it may not, the other properties hold either way.

### RecommendationHistory

One resource; `doc` holds of each document its type, the job that wrote it, whether a user answered
it, and `content`, the action for which the field `recommendation` was computed. `recent` is the
documents of this week, the latest `added_at` first, the order in which a list of them is returned. `create` is `BuildItem` or
`FindRecent`, `DeleteOlder` (one call each), `UpdateRecent`, per action; `batch_save` inserts at the
end. PATCH is `patch` (the query) and `save_feedback` (the save). `setting`, fixed from the start,
says whether jobs may overlap and which lists of actions they produce. The expiry of documents after
three months is left out: the queries end at a week.

### TenantScan, TagGroups, GroupDivision

`days` is what the storage holds of each resource's metrics, one folder a day, `docs` its documents in
the history. The date of a folder is the storage's; a document's capture date (`NewDoc`) is that of the
last record after the conversion to the algorithm's target timezone (`local_date`: the hours of a
setting's `zone` ahead of the storage, or behind), and any hour may be the last one of the newest file.
The history that a scan looked up (`past`, `unchanged`) is forgotten when it has been reported, and FORCE_RESCAN
after the download: nothing reads them later (`executor.py:140-164`, `:230`).
`upto` is what the code does not keep: the newest folder that went into the document. The zone is fixed
in a behaviour: neither daylight saving time nor a PATCH of the algorithm moves it (the default is
"Europe/London", `models/algorithm.py:94`, an hour ahead in summer). Records that are added to a day
already analysed are not modelled; the code does not notice them until a newer folder is there.
`captured`, `past`, `files`, `unchanged`, `lost` are what the running scan has listed, found and
downloaded; `items`, `results`, `reports` what it has built, and `tenant_recommendations` the items
as they are in memory, which is not always what was saved. `setting` picks the parents, tags and
Defect Dojo configuration of the behaviour. A scan is `StartScan` (the tenant is admitted by
`_get_parents` and `_validate_input_tenants`), `DownloadMetrics`, `ValidateAndDump`,
`DivideIntoGroups`, one `process_instance` per resource, `PushFindings`, `FilterGroup`,
`upload_job_results`; `Fails` may end it at any point. `NewMetrics` and `Refuse` (a user's answer)
come in between. What the algorithms answer for a resource is any of `Answers`:
`RecommendationAlgorithms` computes it. `Created`, `Inserted` and `Synced` are `create`,
`batch_save` and the synchronisation of the history with a filtered group; they keep apart the
fields of the document as it was loaded and as it is in memory, because mongoengine writes the
difference. `_filter_resize` takes actions back in the report; `_filter_schedule` only replaces the
schedule there, since the NO_ACTION that it writes goes to `recommendation`, where nothing reads it.

### WeeklySchedule, Resize, AutoscalingGroup, Savings, ShapeInsights, MetricsProcessing, TenantReport

Pure code, as operators named after the functions. `RecommendationAlgorithms` has one state per
input and one step that computes the answer; the properties compare it with a definition that is
stated over the input alone.

* `MetricsProcessing`: a time is a number of recording steps, the load a number per time. pandas'
  reading and averaging are modelled by what they return.
* `WeeklySchedule`: which points of which day are idle comes from the clustering and is the input.
  What is modelled is the frequency of idleness per weekday, the median day, the grouping of days
  that are alike, and the sorting.
* `Resize`: percentiles to trend, trend to action and ranges, then compatibility, priority, rules,
  and the relaxation of optional requirements until a shape is found. A shape is of one series or
  not, as the names of AWS tell (`m5.`).
* `AutoscalingGroup`: peers, average, thresholds (those of the group's policy with its desired load, or
  the algorithm's with the middle of them), step, cool-down, and the members kept.
* `Savings` takes the schedule and the shapes of the other two; `ShapeInsights` repeats their
  filters as the API does. An always-run schedule is priced as the whole week, where the code would say
  nothing, as its item ends where it starts; neither does, because it is never a SCHEDULE.
* `TenantReport`: the documents of the latest job of each resource, one of each type, formatted,
  ordered by what they save (equal ones stay in order, as with `sorted`), cut and summed up. Money is in
  cents, a date a number; shares of a price are exact, and only amounts and percents are rounded.
  Whatever raises for a tenant is caught: it gets no report.

### AccessControl

`accounts`, `roles`, `policies` are collections; `versions` the refresh versions handed out;
`config` what the CLI stores; `call` the place of a client's request: sign-in or refresh
(`admin_initiate_auth`, `IssueTokens`, `SaveToken` or `LoseAnswer`), or a call that is checked role
by role and policy by policy. `edit` is the place of an administrator's request: POST and PATCH
read, then write; deletions are one action. An id tells a document from its successor of the same
name. `Init` is what `init_system_user` creates.

### ReferenceData, Catalog, HealthChecks

`request[r]` holds the operation a request will do next with what it has read; `on` names what it
works on, from which `mixed` and `died` are computed. `Begin`, `Continue`, `Finish`, `Die` and
`DeleteNow` are the five ways a request moves. `Catalog` adds the documents of `modular_sdk`: `save`
writes a whole document as the request has it, even one that is gone, `update` and `mark_deleted`
write fields. A PATCH of an application that has a storage or a connection writes the storages as it
read them. A shape rule or group is a member of the parent's `meta`. LM's answer to a
synchronisation is the set of algorithms in `Listed`, or a refusal. `HealthChecks` has no state: its
operators answer a request that arrives in the current state, for any buckets, files and ages of shapes.
The reads of one check are not spread over several states.

### LicenseToken

`settings` holds documents with ids, because several may have one name; `vault` the private keys;
`secret` the token all processes share with its expiration; `cache` what each process never reads
again (the address, the key's id and algorithm, the secret). A call is `_get_client_token`,
`ReadClientKey`, `_generate_client_token`, `PutSecret`, `Send`. Time is counted in half hours, the
period a token is kept; requests are short against it, so time does not pass between signing and
sending. A secret that SSM refuses is only logged, one that Vault refuses raises and ends the request;
both may happen. `executor_sign` differs from `sign` as the executor's wiring does.

## 3. Runs

`tlc -config <cfg> <module>`, as listed in `PROJECT.json`.

| Run | Bounds | Shows |
|---|---|---|
| `job_pipeline` | 1 job, 2 workers, 2 tenants, 2 algorithms, balance 2, on premises | the safety properties of the pipeline and the refinement of `ScanLedger` |
| `job_live` | 1 job, 1 worker, 2 tenants, 2 algorithms, Batch | an executor that found its document settles the job |
| `pool` | 2 workers, 3 jobs, 4 pids, limit 2 | the map and the limit |
| `history` | 3 jobs, 1 user, 5 documents, simple and overlapping settings | answers are kept; what simple jobs recommend is recorded |
| `algorithms` | days of 8 points, weeks of 3 days, 6 shapes, groups up to 3, metrics of two files, mails about 3 resources | the algorithms against their reference definitions |
| `tenant_scan` | 2 resources, 4 settings (target timezones at and ahead of the storage's), 4 answers, 3 days of 2 hours, 2 scans, 1.1 million states | what is uploaded is complete, current and consistent |
| `access` | 2 clients, 2 administrators, 2 users, roles, policies and passwords, clock to 2, 3 budgets | tokens, permissions, edits |
| `catalog` | 2 requests, 2 of each name, up to 4 applications and parents, 12 budgets | documents that belong together stay together |
| `license_token` | 2 workers, 2 key ids, 2 keys, clock to 2, a token living twice as long as its caching, 4 budgets | tokens and keys |
| `job_terminated`, `group_schedule`, `history_twoactions` | the smallest instance that shows it | a disagreement between code and what it says, see section 6 |

The properties, beside the type invariants:

* `JobPipeline`: `ReturnedJobIsSettled` - after `main` returned the document says SUCCEEDED, or
  FAILED by a user who wrote last; `SucceededJobLeavesNoRunnable` - a job is SUCCEEDED only when no
  tenant waits any more; `OneLicenceIsInDoubt` - whatever fails, in handlers of failures too, and
  wherever executors are killed, a job leaves one tenant at most whose licence was taken and whose
  outcome is not in the document;
  `FailedStaysAfterExecutor` - no request revives a FAILED job whose executor is gone;
  `RefinesLedger`, `LedgerConsistent` - the three records of a tenant evolve as `ScanLedger` allows
  and never contradict each other: nothing is scanned or paid for without permission, a success has
  a licence and every result, LM holds no outcome that the document contradicts; `LoadedJobSettles`
  - liveness.
* `SubprocessPool`: `TrackedIsOwnExecutor`, `RunningChildIsTracked` - a worker's map and its running
  executors are the same, whatever pids are recycled; `RunningWithinLimit`.
* `RecommendationHistory`: `AnsweredIsKept`, `SimpleJobIsRecorded`, `OneUnanswered`.
* `RecommendationAlgorithms`: `WholeDaysAreAnalysed`, `BusyTimeIsScheduled`, `ShapeRulesKept`,
  `CpuIsEnough`, `GroupIsSizedByItsPeers`, `RecommendationIsForeseen`, `SavingsMatchRecommendation`,
  `MailMatchesHistory` - a mail shows only what the latest job of a resource recommends, the resources
  worth the threshold come first, what the recommendations of one resource save together is no less
  than the best of those shown and no more than its cost, and no sum of gains exceeds the sum of the
  costs. The displayed list has no more resources and no greater cost than the whole; that its savings
  may be greater is in section 6.
* `TenantScan`: `EveryResourceIsReported` - nothing falls between the ways to a report, also after a
  scan that died; `ReportsCoverTheMetrics` - a report from the history is not older than the
  metrics, but for the last day where the target timezone is ahead (there the code does miss it, see
  section 6); `FreshGroupIsConsistent` - no member of a tag group shrinks while another grows, and those
  that keep a schedule of their own run alike (`group_schedule` shows that the others are still to be
  scheduled).
* `AccessControl`: `ServedWasGranted` - what is served was granted at a time since the request
  arrived; `NewestIsHeld` - the refresh token that the server accepts is with somebody, on its way
  or lost; `ExpirationIsKept` - concurrent edits of a role keep its expiration.
* `Catalog`: `RulesAndGroupsAreKept`, `HostKeepsItsParent`, `SecretsMatchApplications`,
  `SyncedLicenseIsUsable`; of `ReferenceData`: `LicensedSettingsAreIssued`, `PriceIsKept`; of
  `HealthChecks`: `HealthChecksTellTheTruth`. Where a handler is known to leave something half done
  when it dies, or two handlers to undo each other, the property excepts exactly the documents in
  `died` or `mixed`; section 6 lists these gaps, and the notes of the hazards in `PROJECT.json`
  say what no property covers.
* `LicenseToken`: `TokenIsUsedBriefly` - a token is sent within half an hour of its signature,
  through whichever caches; `KeySettingHasKey` - a configured key has its private part.

Why the bounds are enough. Tenants are dealt with one after the other, so two of them show every
relation between the current one, those before and those after; two algorithms separate "some" from
"all". Two workers give every race of requests over one document. Jobs meet only at the balance,
over which the proofs range. Two workers and a limit of two show a map that is full, half full and
stale; four pids leave one to recycle and one to other processes. In the history, three jobs give an
earlier, a current and an overlapping one. With five documents a fourth pair of actions waits; no
property depends on it. A scan compares resources in pairs and looks one scan back, so two of each
suffice, and the settings put the resources together, apart, in one configured group and in two. A
target timezone moves a date by one day at most (a timezone behind the storage's dates records too early,
which only repeats analyses; the proof covers it); with two hours a day and one hour of difference some
records keep their date and others change it. The
algorithms' inputs include both sides of every threshold the code compares with, days cut at either
end, gaps, overlaps and ties. In the API a fault needs two requests and at most one death; a third
or fourth request brings the documents they work on. A clock of two lets a token be cached, expire
and be renewed.

`CHECK_DEADLOCK FALSE` is set where the bounds run out: `history`, `algorithms` (one step per
input), `tenant_scan`, `access`, `catalog`, `license_token` and the violations over the same
modules. The job pipeline and the pool go on for ever and are checked for deadlock.

Fairness (`FairSpec`, used by `job_live`): an executor that is neither killed nor blocked goes on
(`WF` of its steps, it is a process of its own), and a termination that was requested arrives (`WF`
of `Terminated`: Batch and the kernel do so). Nothing is assumed of API requests, of crashes, or of
which branch a step takes. External calls are assumed to return; neither the LM client nor the
storage client sets a timeout, so the code itself does not guarantee it.

## 4. Proofs

`tlapm <module>Proofs.tla`. The theorems hold for any sets of jobs, workers, tenants, users and so
on, and for any bounds.

`JobPipelineProofs`; assumptions: the three null values are not members of their sets,
`Balance \in Nat`, `OnPrem \in BOOLEAN`.

* `TypeCorrect` - `TypeOK`, by itself not inductive: `cur` and `target` may be null. `TypeInv` adds
  where they are not.
* `Invariance` - the inductive invariant `IInv`. None of the properties is inductive: what the
  document says depends on where the executor and the requests are. `IInv` has `DocumentInv` and
  `RequestInv` (a document is created once, by the one request that launched the job, with a map in
  which no tenant has been scanned), `ScanInv` (tenants not reached are RUNNABLE and unknown to LM),
  `CurrentInv` (what is known of the tenant at hand at every place of the loop's body), and the
  settled states. The first four are preserved one after the other, each using those before it:
  `TypeStep`, `DocumentStep`, `ScanStep`, `StatusStep`.
* `ReturnedJobIsSettledTheorem` and `SucceededJobLeavesNoRunnableTheorem` follow from `IInv`;
  `FailedStaysAfterExecutorTheorem` from one more step lemma under it. `OneLicenceIsInDoubtTheorem`
  needs `LedgerConsistent` too: a tenant the loop has reached gets into doubt by the licence that is
  taken for it and nowhere else (`NoMoreInDoubt`), it is the current one then (`LoopInDoubt`), and the
  loop goes on to another only when the document has its outcome (`DoubtStep`).
* `RefinesLedgerTheorem` - every step maps to a step of `ScanLedger` or a stutter (`LedgerStep`),
  with the identity as the mapping: the document's tenant map, LM's record and the reports.
* `LedgerIsConsistent` - in `ScanLedger`, consistency with the types is inductive; the proof is about
  the instance in `JobPipeline`, which only renames the variables. `LedgerConsistentTheorem` carries
  it over to the pipeline through the refinement.

`SubprocessPoolProofs`; assumptions: the limit is a natural number, the jobs are finitely many, null
values are no members.

* The map alone does not say whose a pid is. `JobInv` - an executor's job belongs to one pid at a
  time, free and foreign pids have none; `ChildInv` - the child a worker has just started is alive
  unless executors may end early; `CountInv` - while a worker starts an executor there is room in
  its map, although `Popen` reaped others in between.
* `TrackedIsOwnTheorem`, `RunningIsTrackedTheorem` follow. `WithinLimitTheorem` counts the map, as
  the code does, and carries the bound to the processes: the running executors of a worker inject
  into the jobs of its map.

`AccessControlProofs`; assumptions: null is no token, the names of `init_system_user` exist, times
are natural.

* `TypeInv` has beside the types that roles and policies with one id are the same document
  (`Identified`) and that refresh versions on the way are among those generated (`Versioned`).
* `ServedWasGrantedTheorem` needs `Granted`: at every place of the check, what the request has read
  so far is among what it might have read. `NewestIsHeldTheorem` and `ExpirationIsKeptTheorem`
  follow from one step lemma each.

`LicenseTokenProofs`; assumptions: a token lives at least as long as it is cached, workers are not
executors, an improper text is no key.

* `TokenInv` follows a token from its signature to LM: whichever of the caches it comes from, the
  expiration kept with it is one unit after its signature, and what is about to be sent has not
  reached it. `TokenIsUsedBrieflyTheorem` follows, with LM's acceptance.
* `KeyInv` follows a private key from the POST that stores it to the setting that names it.
  `KeySettingHasKeyTheorem` follows.

`CatalogProofs`, about `ReferenceData`, `Catalog` and `HealthChecks`; assumptions: null is no document,
no name and no number, LM's answers are sets of algorithms, a behaviour may create at least one
application and one parent.

* `TypeCorrect` - `TypeOK` needs `TypeInv`, which says for each place of a request what its record
  holds, and that what it works on is in `on`.
* None of the properties is inductive, because handlers finish from what they have read.
  `CatalogInv` adds: `AlgorithmInv` - a request that is about to write a user's settings has read an
  algorithm that is not licensed, or its document is gone; `Agreed` - all that name an application
  or a parent agree on what it is, also while its document is not yet there; `Overlap` - what two
  requests work on is in `mixed`; `Alone` - nobody but its creator works on an application before
  its document is there; and for each property what a request in the middle of its writes has done
  and what it still owes: `KeptInv`, `HostInv`, `SecretsInv`, `SyncInv`.
* Each part has a lemma per way in which a request moves; `NextInv` puts them together.
  `PricesAreKept`, `SettingsAreIssued`, `SettingsOfParentsAreKept`, `HostsKeepTheirParents`,
  `SecretsMatch` and `SyncedLicensesAreUsable` follow. `HealthChecksAreOfUse` is a consequence of
  the invariant in each single state.

`RecommendationHistoryProofs`; assumptions: null is no id, the lists of a setting are sequences of
actions.

* `AnswersAreKept` - an action property: the types suffice, with the condition that no job holds the
  document when it is answered.
* `HistoryIsUnambiguous`, `SimpleJobsAreRecorded` - claimed for the simple setting (jobs do not
  overlap and recommend one action each). `SimpleInv` is `Alone`, one job is at work; `RecordInv`,
  what a job has done is on record or waits for `batch_save`; `OpenInv`, at most one recent document
  is unanswered, none while an item waits, and it is the one that an update has found; `ContentInv`,
  every document holds the recommendation it names.

`TenantScanProofs`; assumptions: a setting's parents and groups are finite lists, with finite sets of
ARNs and tags; the action lists are those that `get_general_action` can return (`GeneralActions`,
so a list never has both directions); bounds are natural, at least one day is required.

* `ScanTypes` - the reports are sequences of lines about the same resource, the documents those of
  the days and scans so far (`DocsInv`, `ResultsInv`, `DojoInv`).
* `ReportsAreComplete` - `ReportedInv`: a resource whose files arrived and which no group takes out
  is reported or among those `Waiting` at this step; `OnceInv`: not both, outside of groups. The
  files that the groups leave are computed group after group; `Division` shows that the result is
  `FilesLeft`, and that every resource which is missing there is `TakenOut`.
* `ReportsAreUpToDate` - `CoverInv`: a line is no older than the listing, but for the day that the
  target timezone is ahead; of every document, its date is no later than the last folder that went into
  it and this day. That documents are saved
  before the reports matters here: `DaysInv` relates `unchanged` to the documents that were loaded.
* `GroupsAreConsistent` - `FreshInv`: before the comparison the members' lines are errors or quiet;
  `GroupIsCompared`: the comparison leaves no contradiction among what it has seen, neither of
  directions nor of schedules.
* An induction over a number is stated as: of the numbers that violate a claim one is the least
  (`Least`, from the well-founded order of the naturals), and it cannot be.

`AlgorithmProofs`, about `Resize`, `ShapeInsights`, `WeeklySchedule`, `AutoscalingGroup`, `Savings` and
`MetricsProcessing`.
Assumptions: a catalogue's names are unique and its shapes have a processor, memory and a natural
price, 0 when it is not known; shapes of one series are of one family (so it is in
`scripts/aws_instances_data.json`; the other clouds' series contain the family); a question is about a
shape of the catalogue, with integer loads, at least one result and finitely many rules. A day has two
recording steps or more, and the settings of schedules are positive. The thresholds of an autoscaling
group are not both zero (`round(100 / desired_load, 2)` would raise), and its step is a number of
instances: the client leaves out a zero, and a negative one, which nobody rejects, is not considered.
A question about metrics (`IsQuestion`) is a list of files, each with a load or NoData at finitely many
times, any meta entries and any times of applied recommendations. Its settings are in the ranges of the
stored model; of the averaged step, which no request sets, it is assumed that it is some recording steps
and fits into a day twice at least: a recording step that does not divide 15 minutes is not considered.
A history (`IsHistory`) is what `create` of the recommendation history saves: no saving is greater than
the price, being its difference from another price, and all documents that one job saves of a resource
have the price that is in `savings`; the prices do not change while a job repeats a scan.

* The lists come first: `FlattenElements`, `FilteredElements`, `DistinctElements`, `SortedElements` and
  so on say of which set the elements of a list are, whatever is filtered, sorted, joined and cut;
  `SortedOrder` that a list is in order, `SortedFirst` that the first of equal elements stays first,
  `FilteredCounts` that a list which is filtered weighs as much as what is kept of it. Functions
  defined from one number to the next exist by `Iterates`; `Least` stands for induction, and `UpTo`
  is the form of it that the lists need.
* Then one lemma per function of the executor, from the filters up to `RecommendedShapesElements`:
  every recommended shape is `Advisable` for the load of one period, that is `Bearing` it and among
  the `Candidates`, which `ByRules` and `BySeries` leave, or the current shape. `MinRangeSuffices` and
  `ThresholdIsEnough` are the arithmetic: rounding and relaxing do not make a range too low.
* `LeftElements` - the API's filters leave what the executor's leave. `CandidatesAreForeseen` follows.
* `ScheduleCoversBusyTime` - a period that is never idle is inside a run of the median day
  (`BusyIsAction`, `LongestRun`, `BusyItem`) long enough for an item of the day; the groups of days
  take in every item (`GroupsTakeIn`), and the item of a group is no shorter than its members
  (`CommonTimes`, `CommonRunsLongest`). It holds although the groups overlap.
* `ScheduleCost` - part by part, the rounded cost follows the number of points at which the parts
  run; the difference grows by half a percent per part. A part adds no more points than it has, and
  exactly as many when no two parts intercept.
* `FirstShapeSaves` - the shapes are in the order of their prices, so the first one with a price is
  the cheapest (`FirstIsCheapest`), and the options, sorted by cost, keep it in front (`SortedFirst`).
* `PeersCount` - the most frequent type is unique (`OneType`), so that the resources which run are
  those that a list of them alone would hold (`TargetsArePeers`); as many, with as much load
  (`PeersAlone`). A scaling up is never to fewer and a scaling down never to more instances
  (`ScaledNumbers`): the distance from the number of the members gives the recommended one again.
* `AnalysisIsWhole` - `UsedSeries`: what is left of the merged files is one series without gaps, from
  the time the metrics count from to the last one, a day long at least, and agrees with the files where
  they have a record. `BinsHold`, `GroupedDays`: a day of the averages has the bins from its first to
  its last record, so how many it has tells whether it is whole (`DaysDivided`). `BinMean`: a mean is no
  less than all of its records; a day over the highest threshold therefore is one run of the highest
  class (`HighestClass`, `RunIsPeriod`, `BusyDayHasPeriod`). The products of days and steps are beyond
  linear arithmetic: `Quotient`, `Multiples` and `QuotientIs` are all that is used of them.
* `ReportsAreTrue` - `LatestInOrder`, `LatestJob`: the usable documents are in the order of their dates,
  so the first one of a resource is by its last job, whose documents alone are chosen. `SavingShare`:
  what several options leave of a price, multiplied up, is between nothing and the whole, and no option
  that is not a loss promises more than all together save; `RoundOrder`: rounding keeps the order, so this is
  also true of the amounts (`SharesSave`, `OwnSaving`). `PriorityPromotes`: the list is in order, so
  whatever is cut off saves no more than what is left. `CostAtMost`: every resource of the displayed list
  is counted once, at a place of the whole list that no other resource takes (`TotalExceeds`).
  `FormattedSavings` and `SummarySaves`: every item of a list has a pair of savings, a gain is at most its
  cost, and so are their sums.
* The theorems `CpuBearsTheLoad`, `RulesAlwaysHold`, `ApiForeseesRecommendations`,
  `BusyTimesAreScheduled`, `SavingsMatch`, `PeersSizeTheGroup`, `WholeDaysAnalysed` and
  `MailsTellTheTruth` need of the behaviour only `AnswersInv`: an answer is that of the algorithm for
  the question that was asked.

The invariants were checked by TLC on the instances of the runs before they were proved.

Only model-checked: `LoadedJobSettles`, because liveness is beyond the prover. All invariants and action
properties of the passing runs are theorems. To make that possible the lists the proofs look into, those of
the executor and of the mails, are built with `Lists` - sorting, sums and products as recursive functions, for which `Iterates`
and `UpTo` replace induction - instead of `SortSeq` and folds.

## 5. Not modelled, and why

* The reports of the API, GET requests and lists, `storage_data_processor`: they read and format; of
  the report generator the texts, the time zone and the sending; most of the command line client formats requests and prints answers.
* Cognito: the same interface as the on-premises adapter, behind a service.
* pandas and numpy (reading, resampling, percentiles) and the clustering by KMeans: what they return
  is an input. The probability and the order of equally good shapes; no choice depends on them.
* The adjustments of a resize from users' feedback: the code is dead, `filter_applied` strips the
  feedback that it looks at.
* Mocked data, installation and patch scripts: run once, by hand; `init_system_user` is the initial
  state of `AccessControl`.
* Series by prefix: the executor takes a shape for one of the current series if its name starts with the
  series' prefix (`resize_service.py:451-484`). For AWS that is equality, which is modelled; for AZURE
  "Standard_D" is also a prefix of Standard_DC, and the prefix of a family is "Standard"; for GOOGLE "n2"
  is one of n2d. What `forbid_change_series` then lets through is not modelled.
* LM itself, AWS Batch, MongoDB, the kernel, `modular_sdk`: only as the code uses them.
* `GET` of a job and the resolution of one among several applications; activation of tenants by
  `modular_sdk`.

## 6. Where the code disagrees with what it says

With a run:

* A terminated job may end as SUCCEEDED with the fail reason "Terminated by user": the executor
  saves its own status over it (`job_terminated`).
* The query for recent recommendations ignores the type, so a resource's second action overwrites
  its first (`history_twoactions`).
* The schedule filter of a tag group writes NO_ACTION where nothing reads it: a member whose schedule was
  replaced by always-run is still recommended to be scheduled, in the report and in the history
  (`group_schedule`).

Noticed while modelling; the models do what the code does.

Jobs and subprocesses

* On premises a DELETE must reach the worker that started the job, or nothing is terminated
  (`batch_to_subprocess_adapter.py:165`), though the answer is "The job with id '<id>' will be
  terminated" (`job_processor.py:352`).
* `build_job_tenant_map` forbids `allowed[-limit:]`, the last `limit` tenants, where it should keep
  `limit` (`job_service.py:74-77`).
* A job that misses its document, or loses its executor, stays RUNNABLE or RUNNING: the updater that
  `src/README.md:57-60` describes was removed (`CHANGELOG.md:281-282`).
* Finished executors count as running until the next accepted submission, which they may prevent
  (`batch_to_subprocess_adapter.py:92`, `:177`).
* The reason of a tenant's failure is stored over its status in `tenant_status_map`, while
  `CHANGELOG.md:36` announces `tenant_fail_reason_map` (`docker/services/job_service.py:81-84`; the
  model has it as `"REASON"`). DELETE uses `job.parent_id` before it checks that there is a job and
  compares it with application ids (`job_processor.py:313-326`). Neither DELETE nor
  `set_job_fail_reason` sets `stopped_at`.

History, scan and groups

* Deleting older recommendations replaces the new recommendation by a reference: the loop reuses the
  variable `recommendation` (`docker/services/recommendation_history_service.py:130-145`).
* A failed download is not noticed, since nobody asks the futures for their results
  (`storage_service.py:179-194`): the resource is missing in the results.
* Where the target timezone is ahead of the storage's, a recommendation whose last records are dated the
  next day counts as having seen the next day's metrics, and is repeated from the history without them
  (`storage_service.py:373`), in spite of "if no new metrics provided for instance"
  (`CHANGELOG.md:205`). Such records are the evening's; with the default timezone this is one hour in
  summer. `ReportsCoverTheMetrics` permits this day and no other.
* Documents are updated before the group filter. A crash in between leaves the unfiltered
  recommendation, which the next scan reports as it is; a refused SHUTDOWN is reported again from
  the history too.
* An action taken back by the resize filter of a group keeps its item as NO_ACTION, which then takes the
  place of the schedule (`resource_group_service.py:55-59`). A member with two actions is reported twice.
  Members that always run have no SCHEDULE, so they never meet the schedule filter, and nothing of
  "Skip custom SCHEDULE recommendations if there are resources in group with "always-run" schedule
  recommendations" (`CHANGELOG.md:142`) is done; the savings of a schedule taken back are dropped.
* As soon as one resource group of a parent matches a resource, the files that it does not match are
  out of the scan (`executor.py:265-267`). A missing group configuration gives
  `process_group_resources(None)` (`executor.py:276-280`).
* Defect Dojo is sent documents as they were in memory; one item that was not saved has no id and
  the whole push is lost; members of tag groups are never pushed.
* With `ignore_savings` the history is never saved.

Algorithms

* With the default `min_allowed_days` of 1, metrics of 24 to 47 hours may hold no whole day
  (`metrics_service.py:348-371`): no periods are left and a loaded instance gets SHUTDOWN
  (`recomendation_service.py:166`), although "Insufficient data. Analysed period must be larger than
  a full {days} day(s)" (`metrics_service.py:34-36`) is what is meant for this case.
* Meta is read under `createDateTimestamp` in one place and `creationDateTimestamp` in another.
  Recommendations applied while others are postponed compare naive with aware times. Gaps count as
  idle. The statistic `min` is `np.max`. PATCH of `required_data_attributes` alone is not validated.
* Autoscaling: during the cool-down the recommendation that is repeated is computed again over the
  present members and may differ, even be 0 (`recomendation_service.py:481-483`, `793-808`). A tie
  of types, or no resource that loads, ends in `max([])` or a KeyError. The automatic step may be 0.
  Members with old metrics get no report. The cool-down ends on Monday.
* Without a `prioritize` rule every shape has priority, so that `forbid_change_series` and
  `forbid_change_family` do nothing once the parent has a rule for the cloud. SCALE_DOWN may
  recommend more memory.
* The dry run keeps the rules of one cloud, the executor does otherwise; insights list a shape twice
  that two rules allow. Parts of a schedule may overlap: being alike within an hour is not transitive, so that
  with starts at 08:00, 08:50 and 09:40 the day in the middle is in the groups of both others
  (`schedule_service.py:195`). It is then counted twice in the savings, in spite of "schedules do not
  intercept" (`saving_service.py:97`).

Report generator

* The documents of a job's two actions for a resource hold the savings of both, and a mail combines
  them as if each saved that much (`handler.py:341-396` under `r8s_report_generator`). A resource
  with more than two savings adds its cost and no saving to the summary (`:530-539`). A resource
  counts with its first recommendation in the list at hand, so that the savings displayed may exceed
  the total.

Access control

* Two refreshes of one token, or a lost answer, lock a client out until it signs in again. A new
  password does not end sessions. Nothing makes a user's id unique, and with two accounts of one id
  no one can sign in.
* On premises DELETE of a user fails; an administrator cannot change their own password
  (`user_processor.py:139`); the `resource` of a role is not stored (`role_processor.py:115-116`);
  GET of an unknown role answers 500; a save that meets a deletion leaves a document without a name.

Applications, parents, reference data

* Dying between secret, application and parent leaves some of them; a RIGHTSIZER application can
  only be deleted with `force`; two PATCHes of an application at once lose a storage; a PATCH of the
  password that dies leaves no secret; a synchronisation saves the whole application as it was.
* A POST of a parent may meet the deletion of its application. A resource group's save writes the
  whole parent and revives one that was deleted (`resource_group_processor.py:140`), in spite of
  "Parent '{parent_id}' has been deleted." (`parent_processor.py:195`). PATCH of a group of an
  unknown parent answers 500. Storages and algorithms in use are deleted without refusal.
* A user's algorithm with the name of a licensed one stays unlicensed after the synchronisation.
  Concurrent synchronisations of a new algorithm end in NotUniqueError. A price synchronisation that
  dies loses a price. An answer of LM other than 200 is reported as success.
* Health checks fail with 500 while there is no application or no parent
  (`operation_mode_check.py:194-200`). The result for no application, a dictionary, is spread into
  the list. A storage of the wrong type passes. Rules are never checked, because they belong to
  parents that are not looked at. A price of any customer counts. Two ALL parents are not noticed.

License Manager

* An executor never signs a token for LM: the SSM client it is given (`service_provider.py:115`) has no
  `get_secret_value`, and the AttributeError reads as a missing key
  (`standalone_key_management.py:192`). It lives on the token the API has cached.
* A process keeps the address and the key it first read for its life. Two POSTs of a setting at once
  store it twice, and every later read raises MultipleObjectsReturned. A POST of a key without a
  format stores the setting and no key. `_dissect` of the executor calls `split` on a list
  (`docker/services/license_manager_service.py:73-76`).

## 7. Plan

What is left, in this order:

1. Composition of `JobPipeline` with `SubprocessPool`: the `owner` and `signal` of the one are the
   maps and signals of the other; abstract: an executor is terminated only for its own job.
2. An abstract specification of the history as a set of answered and open recommendations, and the
   refinement by `RecommendationHistory` in the simple setting.
3. The statistics and the texts of a recommendation, if a property is found that needs them.
