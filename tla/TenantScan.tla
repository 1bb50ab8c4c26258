----------------------------- MODULE TenantScan -----------------------------
(***************************************************************************)
(* The scan of one tenant by an executor (process_tenant_instances), again *)
(* and again: which of the tenant's resources are analysed, which are      *)
(* reported from their history, and what a scan that dies leaves for the   *)
(* next one.  What the algorithms answer for a resource is a choice (the   *)
(* module RecommendationAlgorithms computes it).  All steps happen in one  *)
(* week, so that every document without an answer is "recent".             *)
(***************************************************************************)
EXTENDS TagGroups, GroupDivision, FiniteSets

CONSTANTS
  Resources,
  Settings,    \* a sequence of [parents, labels, dojo, zone]: the parents of the job, a sequence of
               \* [scope, tenant, groups]; what the resources' meta tells (see
               \* GroupDivision); how far the tenant's Defect Dojo is configured; and the
               \* hours that the algorithm's target timezone is ahead of the storage's (zone)
  Tenant,      \* the scanned tenant
  Answers,     \* [actions, schedule]: what get_general_action may return, and the
               \* schedule that goes with it
  MinDays,     \* recommendation_settings.min_allowed_days
  DayHours,    \* the hours of a day
  MaxDay,      \* bound: days with metrics
  MaxScans     \* bound: scans

\* What get_general_action may return.
GeneralActions ==
  LET resizes == {"SCALE_UP", "SCALE_DOWN", "CHANGE_SHAPE", "SPLIT"} IN
  {<<a>> : a \in resizes \cup {"SCHEDULE", "SHUTDOWN", "NO_ACTION", "ERROR"}}
    \cup {<<"SCHEDULE", a>> : a \in resizes}

ASSUME SettingsAssumption ==
  \A s \in ToSet(Settings) :
    /\ s.zone \in (1 - DayHours)..(DayHours - 1)
    /\ DOMAIN s.labels = Resources /\ s.parents \in Seq(ToSet(s.parents))
    /\ \A p \in ToSet(s.parents) :
         /\ p.groups \in Seq(ToSet(p.groups))
         /\ \A c \in ToSet(p.groups) : IsFiniteSet(c.arns) /\ IsFiniteSet(c.tags)
ASSUME AnswersAssumption ==
  Answers \subseteq [actions : GeneralActions, schedule : 0..Week, shapes : BOOLEAN]
ASSUME BoundsAssumption ==
  /\ MinDays \in Nat \ {0} /\ DayHours \in Nat \ {0} /\ MaxDay \in Nat /\ MaxScans \in Nat

VARIABLES
  setting,   \* which of the Settings holds; it does not change
  days,      \* resource -> how many days of metrics the storage holds, from day 1
  docs,      \* resource -> its documents in the history, the latest first
  scan,      \* the number of the scan that runs, or ran last
  pc,        \* how far it is
  force,     \* FORCE_RESCAN, until the download, after which nothing looks at it
  past,      \* recommendations_map: what the scan found in the history
  captured,  \* resource -> the days that the scan found in the storage
  lost,      \* resources whose files it did not get
  unchanged, \* unchanged_map's resources
  files,     \* metric_file_paths
  results,   \* group_results: reports that wait for the comparison
  items,     \* group_history_items, per resource: [base, item], base being the
             \* document as it was loaded, or <<>> for an item not inserted yet
  reports,   \* resource -> the reports written for it, in the order they were
  tenant_recommendations, \* the items of the resources reported by themselves, as they
                          \* are in memory: [resource, type, saved]
  findings   \* those that the scan pushed to Defect Dojo

vars == <<setting, days, docs, scan, pc, force, past, captured, lost, unchanged,
          files, results, items, reports, tenant_recommendations, findings>>

\* What the meta tells, parsed; and the members of the tag group (there is one).
LabelsOf == [k \in DOMAIN Settings |-> [r \in Resources |->
  [tags |-> parse_tags(Settings[k].labels[r]), arns |-> Settings[k].labels[r].arns]]]
MembersOf == [k \in DOMAIN Settings |-> {r \in Resources : get_resource_group_id(LabelsOf[k][r]) # {}}]
Labels == LabelsOf[setting]
Members == MembersOf[setting]

\* The date of an hour of a day in the target timezone, and how far it may be ahead.
local_date(day, hour) ==
  LET local == hour + Settings[setting].zone IN
  IF local < 0 THEN day - 1 ELSE IF local < DayHours THEN day ELSE day + 1
local_dates(day) == {local_date(day, hour) : hour \in 0..(DayHours - 1)}
Ahead == IF Settings[setting].zone > 0 THEN 1 ELSE 0

Steps == {"idle", "download", "dump", "divide", "process", "push", "filter", "uploaded"}

TypeOK ==
  /\ setting \in DOMAIN Settings
  /\ days \in [Resources -> 0..MaxDay] /\ captured \in [Resources -> 0..MaxDay]
  /\ \A r \in Resources : \A k \in DOMAIN docs[r] :
       docs[r][k].captured \in 0..(days[r] + Ahead) /\ docs[r][k].job \in 1..scan
  /\ scan \in 0..MaxScans /\ pc \in Steps /\ force \in BOOLEAN
  /\ lost \subseteq Resources /\ unchanged \subseteq Resources /\ files \subseteq Resources
  /\ DOMAIN results \subseteq Members /\ DOMAIN items = DOMAIN results
  /\ unchanged \cap files = {}
  /\ findings \subseteq tenant_recommendations

Nothing == [r \in Resources |-> << >>]

Init ==
  /\ setting \in DOMAIN Settings
  /\ days = [r \in Resources |-> 0] /\ docs = Nothing
  /\ scan = 0 /\ pc = "idle" /\ force = FALSE
  /\ past = Nothing /\ captured = [r \in Resources |-> 0]
  /\ lost = {} /\ unchanged = {} /\ files = {}
  /\ results = << >> /\ items = << >> /\ reports = Nothing
  /\ tenant_recommendations = {} /\ findings = {}

scanVars == <<scan, pc, force, past, captured, lost, unchanged, files, results, items, reports,
              tenant_recommendations, findings>>
dojoVars == <<tenant_recommendations, findings>>

-----------------------------------------------------------------------------
(* Around the executor                                                     *)

NewMetrics(r) ==
  /\ days[r] < MaxDay
  /\ days' = [days EXCEPT ![r] = @ + 1]
  /\ UNCHANGED <<setting, docs, scanVars>>

\* A user answers the latest recommendation with DONT_RECOMMEND or WRONG.
Refuse(r) ==
  /\ docs[r] # << >> /\ ~docs[r][1].refused
  /\ docs' = [docs EXCEPT ![r][1].refused = TRUE]
  /\ UNCHANGED <<setting, days, scanVars>>

-----------------------------------------------------------------------------
(* What is downloaded                                                      *)

\* The elements of a list at some places, in their order: a comprehension with a condition.
Those(list, places) ==
  [n \in 1..Cardinality(places) |->
     list[CHOOSE k \in places : Cardinality({i \in places : i <= k}) = n]]

\* The items of the latest job that recommended something for the resource.
get_tenant_recommendation(r) ==
  Those(docs[r], {k \in DOMAIN docs[r] : docs[r][k].job = docs[r][1].job})

\* POST /jobs takes the parents of the application that are not disabled, and a tenant
\* that one of them covers (in the customer and the cloud of the application).
_get_parents == SelectSeq(Settings[setting].parents, LAMBDA p : p.scope # "DISABLED")
_validate_input_tenants(parents) ==
  \E p \in ToSet(parents) : p.scope = "ALL" \/ (p.scope = "SPECIFIC" /\ p.tenant = Tenant)

\* A job of the tenant is admitted, and reaches it.
StartScan ==
  /\ pc \in {"idle", "uploaded"} /\ scan < MaxScans
  /\ _validate_input_tenants(_get_parents)
  /\ scan' = scan + 1
  /\ force' \in BOOLEAN
  /\ past' = IF force' THEN Nothing ELSE [r \in Resources |-> get_tenant_recommendation(r)]
  /\ pc' = "download"
  /\ captured' = [r \in Resources |-> 0] /\ lost' = {} /\ unchanged' = {} /\ files' = {}
  /\ results' = << >> /\ items' = << >> /\ reports' = Nothing
  /\ tenant_recommendations' = {} /\ findings' = {}
  /\ UNCHANGED <<setting, days, docs>>

Listed == {r \in Resources : days[r] > 0}

filter_keys_by_occurrence_count == {r \in Listed : days[r] < MinDays}

\* Mutant: one more day is no update yet.
filter_keys_without_updates_DayOff ==
  {r \in Listed : past[r] # << >> /\ ~(past[r][1].captured + 1 < days[r])}

filter_keys_without_updates ==
  {r \in Listed : past[r] # << >> /\ ~(past[r][1].captured < days[r])}

\* What is written about a resource: the actions; whether this scan analysed the
\* resource, found it in the history or reports it as a part of a resource group; and
\* the last day taken into account.  The schedule is that of an analysed resource (0: none).
Line(actions, schedule, by, upto) ==
  [actions |-> actions, schedule |-> schedule, by |-> by, upto |-> upto]

ErrorReport == Line(<<"ERROR">>, 0, "scan", 0)

\* Mutant: nobody reports the resources with too few days.
DownloadMetrics_Silent ==
  LET insufficient == IF force THEN {} ELSE filter_keys_by_occurrence_count
      same == IF force THEN {} ELSE filter_keys_without_updates \ insufficient
  IN
  /\ pc = "download"
  /\ lost' \in SUBSET (Listed \ (insufficient \cup same))
  /\ unchanged' = same
  /\ files' = Listed \ (insufficient \cup same \cup lost')
  /\ captured' = days
  /\ force' = FALSE
  /\ pc' = "dump"
  /\ UNCHANGED <<setting, days, docs, scan, past, results, items, reports, dojoVars>>

\* The files are listed and filtered, and those that are left downloaded.  A
\* download that fails is not noticed (nobody asks for the futures' results).
\* Resources with too few days are put aside, to be reported as errors.
DownloadMetrics ==
  LET insufficient == IF force THEN {} ELSE filter_keys_by_occurrence_count
      same == IF force THEN {} ELSE filter_keys_without_updates \ insufficient
  IN
  /\ pc = "download"
  /\ lost' \in SUBSET (Listed \ (insufficient \cup same))
  /\ unchanged' = same
  /\ files' = Listed \ (insufficient \cup same \cup lost')
  /\ captured' = days
  /\ force' = FALSE
  /\ reports' = [r \in Resources |-> IF r \in insufficient THEN <<ErrorReport>> ELSE << >>]
  /\ pc' = "dump"
  /\ UNCHANGED <<setting, days, docs, scan, past, results, items, dojoVars>>

\* A report from the history names one action per item.
PastReport(list) == Line([k \in DOMAIN list |-> list[k].type], 0, "history", list[1].upto)

\* Files that cannot be read or lack columns are reported and dropped; then the
\* unchanged resources are reported as before, and the history is not looked at again.
ValidateAndDump ==
  /\ pc = "dump"
  /\ \E invalid \in SUBSET files :
       /\ files' = files \ invalid
       /\ reports' = [r \in Resources |->
            IF r \in invalid THEN Append(reports[r], ErrorReport)
            ELSE IF r \in unchanged THEN Append(reports[r], PastReport(past[r])) ELSE reports[r]]
  /\ pc' = "divide"
  /\ past' = Nothing /\ unchanged' = {}
  /\ UNCHANGED <<setting, days, docs, scan, force, captured, lost, results, items, dojoVars>>

\* The executor takes the parents again: the tenant's own parent, the last of them, or else the first for all tenants.
resolve_tenant_parent_meta_map(parents) ==
  LET own == {k \in DOMAIN parents : parents[k].scope = "SPECIFIC" /\ parents[k].tenant = Tenant}
      all == {k \in DOMAIN parents : parents[k].scope = "ALL"}
  IN  IF own # {} THEN parents[Max(own)].groups ELSE IF all # {} THEN parents[Min(all)].groups ELSE << >>

ResourceGroups == resolve_tenant_parent_meta_map(Settings[setting].parents)

\* What a group, answered by process_autoscaling_group, says of its members one by one: they
\* are kept, superfluous or failed, and nothing is said of those without recent metrics.
\* The files that are left to process are the MATCHED ones: the others are taken out.
DivideIntoGroups ==
  /\ pc = "divide"
  /\ LET division == DivideByConfigs(ResourceGroups, files, Labels)
         member == UNION {division.groups[g] : g \in DOMAIN division.groups}
         of(r)  == {g \in DOMAIN division.groups : r \in division.groups[g]}
     IN  /\ files' = division.files
         /\ \E said \in [member -> {"NO_ACTION", "SHUTDOWN", "ERROR", "nothing"}] :
              reports' = [r \in Resources |->
                IF r \notin member \/ (r \in member /\ said[r] = "nothing") THEN reports[r]
                ELSE reports[r] \o [k \in 1..Cardinality(of(r)) |-> Line(<<said[r]>>, 0, "group", 0)]]
  /\ pc' = "process"
  /\ UNCHANGED <<setting, days, docs, scan, force, past, captured, lost, unchanged, results, items,
                 dojoVars>>
-----------------------------------------------------------------------------
(* One resource after the other                                            *)

is_shutdown_forbidden(r) ==
  \E k \in DOMAIN docs[r] : docs[r][k].type = "SHUTDOWN" /\ docs[r][k].refused

\* Mutant: the date is that of the day after.
NewDoc_NextDay(action, r, date) ==
  [type |-> action, captured |-> date + 1, upto |-> captured[r], job |-> scan, refused |-> FALSE]

\* A new document.  Its capture date is that of the last record, in the target timezone;
\* which day's file that was (upto) is not kept by the code.
NewDoc(action, r, date) ==
  [type |-> action, captured |-> date, upto |-> captured[r], job |-> scan, refused |-> FALSE]

\* create() for one action after the other: the documents nobody answered yet are
\* deleted but for the latest, which is overwritten at once, by each action what the one
\* before it wrote; without a document new items are built.  The result is [docs, items];
\* an item is [base, item].
Created(actions, r, date) ==
  LET open == {k \in DOMAIN docs[r] : ~docs[r][k].refused}
      kept == Those(docs[r], DOMAIN docs[r] \ open)
      updated(k) == IF k = 1 THEN Those(docs[r], open)[1] ELSE NewDoc(actions[k - 1], r, date)
  IN  IF open = {}
        THEN [docs  |-> docs[r],
              items |-> [k \in DOMAIN actions |-> [base |-> << >>, item |-> NewDoc(actions[k], r, date)]]]
        ELSE [docs  |-> <<NewDoc(Last(actions), r, date)>> \o kept,
              items |-> [k \in DOMAIN actions |-> [base |-> <<updated(k)>>, item |-> updated(k)]]]

\* batch_save: items without a document are inserted, the later ones above.
Inserted(list, made) ==
  LET new == Those(made, {k \in DOMAIN made : made[k].base = << >>})
  IN  Reverse([k \in DOMAIN new |-> new[k].item]) \o list

\* What the algorithms answer: an error when too few days are left (a forced scan
\* downloads them all the same), SHUTDOWN only when nobody refused it.
Answer(r) ==
  {a \in Answers : /\ captured[r] < MinDays => a.actions = <<"ERROR">>
                   /\ a.actions = <<"SHUTDOWN">> => ~is_shutdown_forbidden(r)}

\* A document updated in the database keeps, in memory, what it said before.
ItemInMemory(r, i, saved) ==
  IF i.base = << >> THEN [resource |-> r, type |-> i.item.type, saved |-> saved]
  ELSE [resource |-> r, type |-> i.base[1].type, saved |-> TRUE]

\* A dictionary with one more entry.
With(f, r, value) == [o \in DOMAIN f \cup {r} |-> IF o = r THEN value ELSE f[o]]

\* The history items are built, which changes recent documents at once.  A tagged
\* resource waits for its group; another one is reported, and its new items are
\* saved, or not: that a database error leaves them out is only logged.  The newest
\* file may end at any hour of its day.
process_instance(r) ==
  /\ pc = "process" /\ r \in files
  /\ \E a \in Answer(r), date \in local_dates(captured[r]) :
       LET made == IF a.actions = <<"ERROR">> THEN [docs |-> docs[r], items |-> << >>]
                   ELSE Created(a.actions, r, date)
       IN IF r \in Members
            THEN /\ results' = With(results, r, a)
                 /\ items'   = With(items, r, made.items)
                 /\ docs'    = [docs EXCEPT ![r] = made.docs]
                 /\ UNCHANGED <<reports, tenant_recommendations>>
            ELSE /\ reports' = [reports EXCEPT ![r] = Append(@, Line(a.actions, a.schedule, "scan", captured[r]))]
                 /\ \E saved \in BOOLEAN :
                      /\ docs' = [docs EXCEPT ![r] = IF saved THEN Inserted(made.docs, made.items)
                                                     ELSE made.docs]
                      /\ tenant_recommendations' = tenant_recommendations \cup
                           {ItemInMemory(r, i, saved) : i \in ToSet(made.items)}
                 /\ UNCHANGED <<results, items>>
  /\ files' = files \ {r}
  /\ UNCHANGED <<setting, days, scan, pc, force, past, captured, lost, unchanged, findings>>

\* Defect Dojo is told of what is recommended if the tenant has a parent for it, with an
\* application whose type and API key are right.  Otherwise the scan goes on without it.
get_dojo_tenant_config == Settings[setting].dojo \notin {"none", "no_application"}
dojo_service == get_dojo_tenant_config /\ Settings[setting].dojo \notin {"wrong_type", "no_key"}

\* The text of a finding ends with the item without its id: an item that could not be
\* saved has none, and then there is no report.
converts(i) == i.saved
_to_dojo_report(recommended) == \A i \in recommended : converts(i)

\* That Defect Dojo cannot be told is only logged.
PushFindings ==
  /\ pc = "process" /\ files = {}
  /\ LET recommended == {i \in tenant_recommendations : i.type # "NO_ACTION"} IN
       findings' \in IF dojo_service /\ _to_dojo_report(recommended) THEN {{}, recommended} ELSE {{}}
  /\ tenant_recommendations' = findings'
  /\ pc' = "push"
  /\ UNCHANGED <<setting, days, docs, scan, force, past, captured, lost, unchanged, files,
                 results, items, reports>>

\* A document that was loaded and overwritten in the database keeps its old fields in
\* memory.  Saving it writes the type only if it differs from the one loaded.
Synced(list, made, report) ==
  LET last == Last(made)
      type == sync_history_item(last.item, report).type
      new  == IF last.base = << >> THEN [made EXCEPT ![Len(made)].item.type = type] ELSE made
      old  == IF last.base # << >> /\ type # last.base[1].type /\ list # << >>
                THEN [list EXCEPT ![1].type = type] ELSE list
  IN  Inserted(old, new)

\* The group's reports are compared, written, and the history follows.
FilterGroup ==
  /\ pc = "push"
  /\ LET group == _filter_group(results) IN
       /\ reports' = [r \in Resources |->
            IF r \in DOMAIN results
              THEN reports[r] \o [k \in 1..group.times[r] |->
                   Line(group.reports[r].actions, group.reports[r].schedule, "scan", captured[r])]
              ELSE reports[r]]
       /\ \E saved \in BOOLEAN :
            docs' = [r \in Resources |->
              IF r \in DOMAIN results /\ items[r] # << >> /\ saved
                THEN Synced(docs[r], items[r], group.reports[r]) ELSE docs[r]]
  /\ results' = << >> /\ items' = << >>
  /\ pc' = "filter"
  /\ UNCHANGED <<setting, days, scan, force, past, captured, lost, unchanged, files, dojoVars>>

\* The reports reach the storage together, at the end.
upload_job_results ==
  /\ pc = "filter"
  /\ pc' = "uploaded"
  /\ UNCHANGED <<setting, days, docs, scan, force, past, captured, lost, unchanged,
                 files, results, items, reports, dojoVars>>

\* An exception ends the tenant's scan, or the executor dies: the reports are gone
\* with its directory, the findings are not.
Fails ==
  /\ pc \notin {"idle", "uploaded"}
  /\ pc' = "idle"
  /\ reports' = Nothing /\ results' = << >> /\ items' = << >> /\ files' = {}
  /\ past' = Nothing /\ captured' = [r \in Resources |-> 0] /\ lost' = {} /\ unchanged' = {}
  /\ UNCHANGED <<setting, days, docs, scan, force, dojoVars>>

Next ==
  \/ \E r \in Resources : NewMetrics(r) \/ Refuse(r) \/ process_instance(r)
  \/ StartScan \/ DownloadMetrics \/ ValidateAndDump \/ DivideIntoGroups
  \/ PushFindings \/ FilterGroup \/ upload_job_results \/ Fails

Spec == Init /\ [][Next]_vars

-----------------------------------------------------------------------------
Uploaded == pc = "uploaded"

\* A resource group that matches something takes out what it does not match.
Matches(config, r) == divide(config, {r}, Labels).individual = {}
TakenOut(r) ==
  \E config \in ToSet(ResourceGroups) :
    ~Matches(config, r) /\ \E o \in Resources \ {r} : Matches(config, o)
InGroup(r) == \E config \in ToSet(ResourceGroups) : Matches(config, r)

\* Nothing falls between the ways to a report (too few days, unchanged, analysed, member of
\* a group), whatever earlier scans left in the history when they died: every resource
\* with metrics in the storage is reported if its files arrived, unless a resource group
\* takes it out, and once if it is in no group at all.  What Defect Dojo is told of is
\* reported as well, and by itself.
EveryResourceIsReported ==
  Uploaded =>
    /\ \A r \in Resources \ lost :
         /\ captured[r] > 0 /\ ~TakenOut(r) => reports[r] # << >>
         /\ r \notin Members /\ ~InGroup(r) => Len(reports[r]) <= 1
    /\ \A f \in findings : f.resource \notin Members /\ reports[f.resource] # << >>

\* What is reported takes into account every day that the storage held, also when it
\* comes from the history, and also after a scan that died between writing a document and
\* uploading its reports.  Documents are dated in the target timezone and the storage's
\* folders in its own: where the former is ahead the last day may be missed, and only it.
ReportsCoverTheMetrics ==
  Uploaded => \A r \in Resources : \A line \in ToSet(reports[r]) :
                line.by # "group" /\ line.actions # <<"ERROR">> => line.upto + Ahead >= captured[r]

\* "Filtering contradictory recommendations inside resource groups"
\* (executor.py:374): of the members a scan analysed, none shrinks while another grows, and
\* of those to be scheduled none has a schedule of its own that runs less than 0.95 of
\* another's.
Shrinks(line) == \E a \in ToSet(line.actions) : a \in {"SCALE_DOWN", "SHUTDOWN"}
Grows(line)   == "SCALE_UP" \in ToSet(line.actions)

Contradict(lines) ==
  \E r, o \in Members : \E x \in ToSet(reports[r]), y \in ToSet(reports[o]) :
    x \in lines /\ y \in lines /\ Grows(x) /\ Shrinks(y)

Scheduled(line) == "SCHEDULE" \in ToSet(line.actions) /\ line.schedule \in 1..(Week - 1)

SchedulesDiffer(lines) ==
  \E r, o \in Members : \E x \in ToSet(reports[r]), y \in ToSet(reports[o]) :
    /\ x \in lines /\ y \in lines /\ Scheduled(x) /\ Scheduled(y)
    /\ 100 * x.schedule < 95 * y.schedule

FreshLines == {l \in UNION {ToSet(reports[r]) : r \in Resources} : l.by = "scan"}

FreshGroupIsConsistent == Uploaded => ~Contradict(FreshLines) /\ ~SchedulesDiffer(FreshLines)

\* "leave only the most common (if possible) or most complete" schedule of a group
\* (CHANGELOG.md:143): a member whose schedule was not left is not to be scheduled.
SkippedScheduleIsNotRecommended ==
  Uploaded => \A line \in FreshLines : "SCHEDULE" \in ToSet(line.actions) => line.schedule # Week
=============================================================================
