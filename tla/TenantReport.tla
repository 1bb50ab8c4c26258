---------------------------- MODULE TenantReport ----------------------------
(***************************************************************************)
(* The mail about a tenant (lambda r8s-report-generator): from the history *)
(* of some days, what the latest job of each resource recommends, which    *)
(* resources come first, and what all of it may save.                      *)
(*                                                                         *)
(* A document is [resource, type, job, at, price, savings]: price is that  *)
(* of a month in cents, 0 if it is not known, and savings the options of   *)
(* all that the job recommended for the resource, the best one first.      *)
(* A request is [customer, tenants, since, threshold]; `customer' tells    *)
(* whether there is one, a tenant is [known, documents].                   *)
(***************************************************************************)
EXTENDS AutoscalingGroup

CONSTANTS
  MaxPriority,  \* MAX_PRIORITY_RESOURCES
  MaxPerType    \* MAX_RESOURCES_PER_TYPE

ASSUME LengthsAssumption == MaxPriority \in Nat \ {0} /\ MaxPerType \in Nat \ {0}

NoReport == [kind |-> "no report"]

\* What an executor saves: no option saves more than the resource costs, if that is known,
\* and all that one job recommends for a resource has one price.
IsDocument(d) ==
  /\ d.at \in Int /\ d.price \in Nat /\ d.savings \in Seq(Int)
  /\ d.price # 0 => \A s \in ToSet(d.savings) : s <= d.price

IsHistory(documents) ==
  LET all == ToSet(documents) IN
  /\ documents \in Seq(all)
  /\ \A d \in all : IsDocument(d)
  /\ \A d, e \in all : d.resource = e.resource /\ d.job = e.job => d.price = e.price

IsRequest(q) ==
  /\ q.since \in Int /\ q.threshold \in Int
  /\ \A n \in DOMAIN q.tenants : q.tenants[n].known => IsHistory(q.tenants[n].documents)

Cut(list, length) == SubSeq(list, 1, IF Len(list) < length THEN Len(list) ELSE length)

Usable(d) == d.price # 0 /\ d.savings # << >>

\* The usable documents, the latest first.
Latest(documents) ==
  LET usable == Filtered(documents, {d \in ToSet(documents) : Usable(d)})
  IN  Sorted(usable, {p \in ToSet(usable) \X ToSet(usable) : p[1].at > p[2].at})

Picked(list, places) == FlattenSeq([n \in DOMAIN list |-> IF n \in places THEN <<list[n]>> ELSE << >>])

\* Mutant: the latest document of each type, whatever job it is from.
filter_latest_job_resource_AnyJob(documents) ==
  LET list == Latest(documents)
      first(n) == \A m \in 1 .. n - 1 : list[m].resource # list[n].resource \/ list[m].type # list[n].type
  IN  Picked(list, {n \in DOMAIN list : first(n)})

\* The documents of the latest job of each resource, one of each type.
filter_latest_job_resource(documents) ==
  LET list == Latest(documents)
      latest(r) == list[Min({n \in DOMAIN list : list[n].resource = r})].job
      of_job(n) == list[n].job = latest(list[n].resource)
      first(n) == \A m \in 1 .. n - 1 : list[m].resource # list[n].resource \/ list[m].type # list[n].type \/ ~of_job(m)
  IN  Picked(list, {n \in DOMAIN list : of_job(n) /\ first(n)})

-----------------------------------------------------------------------------
(* One recommendation                                                      *)

Formatted(d, saving, percents) ==
  [resource |-> d.resource, type |-> d.type, price |-> d.price, saving |-> saving, percents |-> percents]

Percents(d, savings) == [n \in DOMAIN savings |-> Round(100 * savings[n], d.price)]
Ascending(savings) == Sorted(savings, {p \in ToSet(savings) \X ToSet(savings) : p[1] < p[2]})

\* Of more than two options the worst and the best.
_format_resize_recommendation(d) ==
  LET all  == Reverse(d.savings)
      ends == IF Len(all) > 2 THEN <<all[1], all[Len(all)]>> ELSE all
  IN  Formatted(d, ends, Percents(d, ends))

_format_schedule_recommendation(d) == Formatted(d, Ascending(d.savings), Percents(d, d.savings))

_format_shutdown_recommendation(d) == Formatted(d, Ascending(d.savings), <<100>>)

\* A document without an action is left out.
format_recommendation(d) ==
  CASE d.type = "SHUTDOWN" -> << _format_shutdown_recommendation(d) >>
    [] d.type = "SCHEDULE" -> << _format_schedule_recommendation(d) >>
    [] d.type \in {"CHANGE_SHAPE", "SCALE_UP", "SCALE_DOWN", "SPLIT"} -> << _format_resize_recommendation(d) >>
    [] OTHER -> << >>

FormattedAll(documents) == FlattenSeq([n \in DOMAIN documents |-> format_recommendation(documents[n])])

-----------------------------------------------------------------------------
(* The resources that come first                                           *)

\* The share that all together save, as [part, whole]: one after the other, each saves
\* its percents of what the others leave.
get_saving_percent(percents) ==
  LET whole == Product([n \in DOMAIN percents |-> 100])
  IN  [part |-> whole - Product([n \in DOMAIN percents |-> 100 - percents[n]]), whole |-> whole]

LeastPercent(f) == Min(ToSet(f.percents))
BestPercent(f) == Max(ToSet(f.percents))

\* The gains are dropped, but for the smallest if there is nothing else.
_get_min_saving_percent(own) ==
  LET least  == [n \in DOMAIN own |-> LeastPercent(own[n])]
      losses == Filtered(least, {p \in ToSet(least) : p <= 0})
  IN  get_saving_percent(IF losses # << >> THEN losses ELSE <<Min(ToSet(least))>>)

\* Mutant: the losses are combined with the gains.
_get_max_saving_percent_All(own) == get_saving_percent([n \in DOMAIN own |-> BestPercent(own[n])])

\* The losses are dropped, but for the smallest if there is nothing else.
_get_max_saving_percent(own) ==
  LET best  == [n \in DOMAIN own |-> BestPercent(own[n])]
      gains == Filtered(best, {p \in ToSet(best) : p >= 0})
  IN  get_saving_percent(IF gains # << >> THEN gains ELSE <<Max(ToSet(best))>>)

_get_resource_saving(own, price) ==
  LET saved(share) == Round(price * share.part, share.whole)
  IN  {saved(_get_min_saving_percent(own)), saved(_get_max_saving_percent(own))}

\* A resource with what is recommended for it, and what the best of all that saves.
PriorityItem(formatted, r) ==
  LET own   == Filtered(formatted, {f \in ToSet(formatted) : f.resource = r})
      price == own[1].price
  IN  [resource |-> r, price |-> price, saving |-> _get_resource_saving(own, price)]

get_priority(formatted, threshold) ==
  LET resources == Distinct([n \in DOMAIN formatted |-> formatted[n].resource])
      items == [n \in DOMAIN resources |-> PriorityItem(formatted, resources[n])]
      high  == Filtered(items, {i \in ToSet(items) : threshold > 0 => Max(i.saving) > threshold})
  IN  Sorted(high, {p \in ToSet(high) \X ToSet(high) : Max(p[1].saving) > Max(p[2].saving)})

-----------------------------------------------------------------------------
(* The report                                                              *)

BestSaving(f) == Max(ToSet(f.saving))

divide_by_recommendation_type(formatted) ==
  LET of_type(type) == Filtered(formatted, {f \in ToSet(formatted) : f.type = type})
      sorted(list)  == Sorted(list, {p \in ToSet(list) \X ToSet(list) : BestSaving(p[1]) > BestSaving(p[2])})
  IN  [type \in {f.type : f \in ToSet(formatted)} |-> Cut(sorted(of_type(type)), MaxPerType)]

\* The types in the order in which they come first in the list.
Displayed(formatted, by_type) ==
  LET types == Distinct([n \in DOMAIN formatted |-> formatted[n].type])
  IN  FlattenSeq([n \in DOMAIN types |-> by_type[types[n]]])

\* A resource counts with its first recommendation.
Counted(list, amounts) ==
  LET used(n) == \E m \in 1 .. n - 1 : list[m].resource = list[n].resource
  IN  Total([n \in DOMAIN list |-> IF used(n) THEN 0 ELSE amounts[n]])

\* With more than two options it counts for nothing.
Loss(f) == IF Len(f.saving) <= 2 /\ f.saving[1] < 0 THEN f.saving[1] ELSE 0
Gain(f) == LET n == Len(f.saving) IN IF n <= 2 /\ f.saving[n] > 0 THEN f.saving[n] ELSE 0

_resources_summary(list) ==
  [resource_count |-> Cardinality({list[n].resource : n \in DOMAIN list}),
   current_estimated_cost |-> Counted(list, [n \in DOMAIN list |-> list[n].price]),
   estimated_saving |-> <<Counted(list, [n \in DOMAIN list |-> Loss(list[n])]),
                          Counted(list, [n \in DOMAIN list |-> Gain(list[n])])>>]

\* Without a usable document there is no most frequent job id: max() of nothing raises.
get_most_frequent_job_id(documents) == documents # << >>

generate_report(documents, since, threshold) ==
  LET recommendations == filter_latest_job_resource(Filtered(documents, {d \in ToSet(documents) : d.at > since}))
      formatted == FormattedAll(recommendations)
      by_type == divide_by_recommendation_type(formatted)
  IN  IF ~get_most_frequent_job_id(recommendations) THEN NoReport
      ELSE [kind |-> "report", detailed |-> by_type,
            high_priority |-> Cut(get_priority(formatted, threshold), MaxPriority),
            total |-> _resources_summary(formatted),
            displayed |-> _resources_summary(Displayed(formatted, by_type))]

\* Whatever raises for one tenant is caught, and the next one is dealt with.
handle_request(q) ==
  IF ~q.customer THEN << >>
  ELSE [n \in DOMAIN q.tenants |->
          IF q.tenants[n].known THEN generate_report(q.tenants[n].documents, q.since, q.threshold)
          ELSE NoReport]

-----------------------------------------------------------------------------
\* A recommendation of a document whose job no other job with usable documents of the
\* resource has overtaken.
IsLatest(f, documents, since) ==
  LET recent == {d \in ToSet(documents) : Usable(d) /\ d.at > since}
      of(d)  == {e \in recent : e.resource = d.resource}
      overtaken(d) == \E e \in of(d) : \A g \in of(d) : g.job = d.job => e.at > g.at
  IN  \E d \in recent : /\ d.resource = f.resource /\ d.type = f.type
                        /\ f \in ToSet(format_recommendation(d)) /\ ~overtaken(d)

Promise(f) == Round(f.price * BestPercent(f), 100)

\* A recommendation that by itself promises more than the threshold brings its resource to
\* the top, if not enough others save as much.
Promoted(f, report, threshold) ==
  LET top == ToSet(report.high_priority)
  IN  Promise(f) > threshold =>
        \/ \E i \in top : i.resource = f.resource
        \/ Len(report.high_priority) = MaxPriority /\ \A i \in top : Max(i.saving) >= Promise(f)

\* What the recommendations for a resource save together is no less than the best of those
\* shown promises, and no more than the resource costs.
SavesTogether(i, shown) ==
  /\ \A f \in shown : f.resource = i.resource => Promise(f) <= Max(i.saving)
  /\ Max(i.saving) <= i.price

\* A sum of what is gained and lost: nothing gained is counted twice or beyond its cost.
SavesItsCost(summary) ==
  summary.estimated_saving[1] <= 0 /\ summary.estimated_saving[2] <= summary.current_estimated_cost

ReportIsTrue(documents, since, threshold, report) ==
  LET shown == UNION {ToSet(report.detailed[t]) : t \in DOMAIN report.detailed} IN
  /\ \A f \in shown : IsLatest(f, documents, since) /\ Promoted(f, report, threshold)
  /\ \A i \in ToSet(report.high_priority) : SavesTogether(i, shown)
  /\ SavesItsCost(report.total) /\ SavesItsCost(report.displayed)
  /\ report.displayed.resource_count <= report.total.resource_count
  /\ report.displayed.current_estimated_cost <= report.total.current_estimated_cost

MailsAreTrue(q, answer) ==
  \A n \in DOMAIN answer : answer[n] # NoReport =>
    ReportIsTrue(q.tenants[n].documents, q.since, q.threshold, answer[n])
=============================================================================
