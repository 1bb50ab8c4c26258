----------------------- MODULE RecommendationAlgorithms -----------------------
(***************************************************************************)
(* The algorithms a recommendation is made of, each applied to one input:  *)
(* the days and periods of the metrics (MetricsProcessing), the weekly     *)
(* schedule (WeeklySchedule), the shapes (Resize), the size of an          *)
(* autoscaling group (AutoscalingGroup); with what they save (Savings),    *)
(* what the API tells of the shapes beforehand (ShapeInsights) and what    *)
(* the mail tells of the recommendations afterwards (TenantReport).        *)
(***************************************************************************)
EXTENDS Savings, ShapeInsights, MetricsProcessing, TenantReport

CONSTANTS
  ScheduleInputs, \* set of [idle, disabled]
  ResizeInputs,   \* set of questions to RecommendedShapes
  GroupInputs,    \* set of groups
  MetricsInputs,  \* set of questions to AnalyseMetrics
  ReportInputs    \* set of requests for mails

ASSUME ScheduleInputsAssumption == \A q \in ScheduleInputs : q.idle \in Seq(SUBSET TimePoints)
ASSUME GroupInputsAssumption == GroupInputs \subseteq ScalingGroup
ASSUME MetricsInputsAssumption == \A q \in MetricsInputs : IsQuestion(q)
ASSUME ReportInputsAssumption == \A q \in ReportInputs : IsRequest(q)
ASSUME ResizeAssumption == \A q \in ResizeInputs :
  /\ \E s \in ToSet(Catalog) : s.name = q.current
  /\ q.loads \in Seq([Metrics -> Int]) /\ q.max_results \in Nat \ {0} /\ IsFiniteSet(q.rules)

VARIABLES
  kind,   \* which of the algorithms is asked
  input,  \* what an executor or the lambda starts from
  answer, \* the schedule, the shapes or the mails
  done    \* whether the answer is there

vars == <<kind, input, answer, done>>

Init ==
  /\ \/ kind = "schedule" /\ input \in ScheduleInputs
     \/ kind = "sizes"    /\ input \in ResizeInputs
     \/ kind = "group"    /\ input \in GroupInputs
     \/ kind = "metrics"  /\ input \in MetricsInputs
     \/ kind = "report"   /\ input \in ReportInputs
  /\ answer = << >>
  /\ done = FALSE

GenerateSchedule ==
  /\ ~done /\ kind = "schedule"
  /\ answer' = generate_schedule(input.idle, input.disabled)
  /\ done' = TRUE
  /\ UNCHANGED <<kind, input>>

RecommendSize ==
  /\ ~done /\ kind = "sizes"
  /\ answer' = RecommendedShapes(input)
  /\ done' = TRUE
  /\ UNCHANGED <<kind, input>>

AutoscaleGroup ==
  /\ ~done /\ kind = "group"
  /\ answer' = process_autoscaling_group(input)
  /\ done' = TRUE
  /\ UNCHANGED <<kind, input>>

ReadMetrics ==
  /\ ~done /\ kind = "metrics"
  /\ answer' = AnalyseMetrics(input)
  /\ done' = TRUE
  /\ UNCHANGED <<kind, input>>

SendReports ==
  /\ ~done /\ kind = "report"
  /\ answer' = handle_request(input)
  /\ done' = TRUE
  /\ UNCHANGED <<kind, input>>

Next == ReadMetrics \/ GenerateSchedule \/ RecommendSize \/ AutoscaleGroup \/ SendReports

Spec == Init /\ [][Next]_vars

-----------------------------------------------------------------------------
IsSchedule == done /\ kind = "schedule"
IsSizes    == done /\ kind = "sizes"
IsGroup    == done /\ kind = "group"
IsMetrics  == done /\ kind = "metrics"
IsReport   == done /\ kind = "report"

\* Cutting, averaging and dropping the incomplete days at both ends lose no whole day of
\* the metrics that count, and let no other day decide (load_df, divide_by_days); what is
\* then busy for a whole day is not shut down.
WholeDaysAreAnalysed == IsMetrics => DaysAreWhole(input, answer)

\* A schedule does not stop an instance in a period, long enough to count, in which it
\* never was idle on that weekday: neither the median, nor the grouping of similar days,
\* nor the sorting loses a part of it (schedule_service.py, _generate_daily_schedule and
\* _group_by_days).
BusyTimeIsScheduled == IsSchedule => BusyIsCovered(input.idle, answer)

\* Whatever is relaxed, prioritized or retried, the parent's allow and deny rules hold
\* for what is recommended (recommend_size, get_allowed_instance_types), and no forbidden
\* change of series or family is recommended when no rule of the parent is for the cloud
\* (divide_by_priority).
ShapeRulesKept == IsSizes => RulesKept(input, answer) /\ SeriesKept(input, answer)

\* Whatever is relaxed, the recommended processor bears the load (recommend_size,
\* discard_optional_requirements).
CpuIsEnough == IsSizes => RoomForCpu(input, answer)

\* What the API tells a user of the shapes that are left for an instance, with its own
\* copies of the filters (parent_resize_insights_processor.py and
\* shape_rule_dry_run_processor.py), includes what the executor then recommends.
RecommendationIsForeseen == IsSizes => Foreseen(input, answer)

\* The savings, computed apart from the recommendation (saving_service.py), agree with it:
\* a schedule costs the time it runs, and more only where its parts intercept; the first
\* recommended shape saves most.
SavingsMatchRecommendation ==
  /\ IsSchedule => CostsItsRunningTime(answer)
  /\ IsSizes => FirstShapeSavesMost(input, answer)

\* A group is sized by the resources that run as its instances: the ones of another type,
\* without metrics of the last day or that could not be loaded neither add to the load nor
\* to the number of instances.
GroupIsSizedByItsPeers == IsGroup => OnlyPeersCount(input, answer)

\* A mail shows of a resource what its latest job recommends and nothing of an earlier one;
\* a recommendation that promises more than the threshold brings its resource to the top;
\* what a resource at the top saves by all its recommendations together is no less than the
\* best of them promises and no more than the resource costs; no sum of savings exceeds the
\* cost it goes with; and no more resources, of no higher cost, are displayed than in total.
\* (The savings displayed may exceed the total: cutting the lists can leave a resource with
\* another first recommendation, the one that counts.)  See r8s_report_generator/handler.py,
\* filter_latest_job_resource, get_priority, _get_resource_saving, _resources_summary.
MailMatchesHistory == IsReport => MailsAreTrue(input, answer)
=============================================================================
