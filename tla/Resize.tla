-------------------------------- MODULE Resize --------------------------------
(***************************************************************************)
(* How an executor finds better shapes for an instance                     *)
(* (docker/services/resize, customer_preferences_service.py).              *)
(*                                                                         *)
(* A trend has, for each metric, the 90th percentile of the load: result   *)
(* is the direction it asks for and threshold the load the new shape is    *)
(* chosen for.  A metric without data is -1 everywhere.  How probable each *)
(* shape is for the load is left out: no choice of shapes depends on it.   *)
(***************************************************************************)
EXTENDS Lists

CONSTANTS
  Catalog, \* sequence of the shapes of the cloud and resource type:
           \*   [name, series, family, cpu, memory, network, iops, maker, arch]
  Price    \* shape name -> hour price, 0 when it is not known

\* Names are unique; a shape has a processor and memory.
ASSUME CatalogAssumption ==
  /\ Catalog \in Seq(ToSet(Catalog))
  /\ \A m, n \in DOMAIN Catalog : Catalog[m].name = Catalog[n].name => m = n
  /\ \A s \in ToSet(Catalog) : s.cpu \in Nat \ {0} /\ s.memory \in Nat \ {0}
\* The family is a part of the name of the series, or agrees with it in the catalogue.
ASSUME SeriesAssumption ==
  \A s, t \in ToSet(Catalog) : s.series = t.series => s.family = t.family

\* A price is a number of the smallest unit.
ASSUME PriceAssumption == \A s \in ToSet(Catalog) : Price[s.name] \in Nat

NONE  == "NONE"
SPLIT == "SPLIT"  \* ACTION_SPLIT; the other actions are written likewise

Metrics == {"cpu", "memory", "network", "iops"}

Shape(name) == Catalog[CHOOSE n \in DOMAIN Catalog : Catalog[n].name = name]

-----------------------------------------------------------------------------
(* ResizeTrend                                                             *)

\* Twice the value in the code: -0.5 is -1 here.
result_direction(p90) ==
  CASE p90 = -1 -> 0
    [] p90 # -1 /\ p90 <= 20 -> -2
    [] 20 < p90 /\ p90 < 30 -> -1
    [] 30 <= p90 /\ p90 <= 70 -> 0
    [] 70 < p90 /\ p90 < 80 -> 1
    [] 80 <= p90 -> 2

add_metric_trends(load) ==
  [result    |-> [m \in Metrics |-> result_direction(load[m])],
   threshold |-> load]

requires_resize(trend) ==
  \/ trend.result["cpu"] # 0 \/ trend.result["memory"] # 0
  \/ trend.result["network"] > 0 \/ trend.result["iops"] > 0

\* The action for a single trend; several trends make a SPLIT.
get_resize_action(trend) ==
  LET r == trend.result IN
  IF ~ requires_resize(trend) THEN NONE
  ELSE IF r["cpu"] <= 0 /\ r["memory"] <= 0 /\ r["network"] <= 0 /\ r["iops"] <= 0
       THEN "SCALE_DOWN"
  ELSE IF r["cpu"] > 0 /\ r["memory"] >= 0 THEN "SCALE_UP"
  ELSE "CHANGE_SHAPE"

Magnitude(x) == IF x < 0 THEN -x ELSE x

\* The metric that is relaxed when too few shapes fit all of them: the processor when it
\* has room and memory lacks it, memory in every other case.
Optional(trend) ==
  IF trend.result["cpu"] < 0 /\ 0 < trend.result["memory"] THEN "cpu" ELSE "memory"

discard_optional_requirements(trend) ==
  [result    |-> [trend.result EXCEPT ![Optional(trend)] = Magnitude(@),
                                      !["network"] = 0, !["iops"] = 0],
   threshold |-> [trend.threshold EXCEPT ![Optional(trend)] = 60]]

AtLeast(x, y) == IF x < y THEN y ELSE x

\* Mutant: the limit is multiplied with instead of divided by.
MinRange_Times(provided, threshold) ==
  AtLeast((70 * provided * AtLeast(threshold, 5)) \div 100, 100)

\* Hundredths of the least capacity of which no more than 70%, and of the greatest of
\* which no less than 30% is used; at least one unit each.
MinRange(provided, threshold) ==
  AtLeast((200 * provided * AtLeast(threshold, 5) + 70) \div 140, 100)
MaxRange(provided, threshold) ==
  AtLeast((200 * provided * AtLeast(threshold, 5) + 30) \div 60, 100)

\* The network and the disk bound the choice only when their load is not the desired one.
Suits(shape, current, trend) ==
  /\ \A m \in {"cpu", "memory"} :
       /\ MinRange(current[m], trend.threshold[m]) <= 100 * shape[m]
       /\ 100 * shape[m] <= MaxRange(current[m], trend.threshold[m])
  /\ \A m \in {"network", "iops"} :
       trend.result[m] # 0 /\ current[m] # 0 =>
         MinRange(current[m], trend.threshold[m]) <= 100 * shape[m]

-----------------------------------------------------------------------------
(* The shapes to choose from                                               *)

\* A rule of the parent: [action, cloud, names], the names of the shapes it matches.
Names(rules, action) == UNION {r.names : r \in {r \in rules : r.action = action}}
HasRule(rules, action) == \E r \in rules : r.action = action

\* Rules of every cloud count; several allow rules add up.
get_allowed_instance_types(shapes, rules) ==
  Filtered(shapes, {s \in ToSet(shapes) :
    /\ HasRule(rules, "allow") => s.name \in Names(rules, "allow")
    /\ s.name \notin Names(rules, "deny")})

\* The processor of a shape with no known manufacturer, or the architecture of one that
\* runs both, does not restrict the choice.
apply_compatibility_filter(shapes, current, rule) ==
  LET makers == IF rule = "SAME" THEN {current.maker}
                ELSE IF current.maker = "AWS" THEN {"AWS"} ELSE {"Intel", "AMD"}
  IN IF rule = NONE THEN shapes
     ELSE Filtered(shapes, {s \in ToSet(shapes) :
            /\ current.maker # NONE => s.maker \in makers
            /\ current.arch # NONE => s.arch = current.arch})

\* Only adjustments from the meta of the instance get here, and they say DONT_RECOMMEND;
\* of the feedback, filter_applied lets APPLIED through, which changes nothing.
apply_adjustment(shapes, dont_recommend) == IF dont_recommend THEN << >> ELSE shapes

\* All shapes have priority when no rule prioritizes any.
process_priority_filters(shapes, rules) ==
  IF HasRule(rules, "prioritize")
  THEN Filtered(shapes, {s \in ToSet(shapes) : s.name \in Names(rules, "prioritize")})
  ELSE shapes

_sort_shapes(shapes) ==
  Sorted(shapes, {p \in ToSet(shapes) \X ToSet(shapes) :
    p[1].cpu < p[2].cpu \/ (p[1].cpu = p[2].cpu /\ p[1].memory < p[2].memory)})

\* Mutant: only the family is guarded by forbid_change_series.
others_allowed_FamilyOnly(q) == ~ q.forbid_change_family

others_allowed(q) == ~ q.forbid_change_series /\ ~ q.forbid_change_family

\* Prioritised shapes (with rules for this cloud), the series, the family, all others.
\* The names tell series and family.  AWS ends the series with a dot, so that a name that
\* starts with it is of the series; the names of AZURE and GOOGLE are compared by prefixes
\* that other series start with too (Standard_D, n2), which is not modelled.
divide_by_priority(shapes, q, action) ==
  LET current == Shape(q.current)
      rules   == {r \in q.rules : r.cloud = q.cloud}
      series  == Filtered(shapes, {s \in ToSet(shapes) :
                   s.series = current.series /\ (action = SPLIT \/ s.name # current.name)})
      family  == Filtered(shapes, {s \in ToSet(shapes) \ ToSet(series) : s.family = current.family})
      other   == Filtered(shapes, ToSet(shapes) \ (ToSet(series) \cup ToSet(family)))
  IN  (IF rules = {} THEN << >> ELSE process_priority_filters(shapes, rules))
      \o _sort_shapes(series)
      \o (IF q.forbid_change_series THEN << >> ELSE _sort_shapes(family))
      \o (IF others_allowed(q) THEN _sort_shapes(other) ELSE << >>)

-----------------------------------------------------------------------------
(* The recommendation                                                      *)

_remove_shape_duplicates(shapes) == Distinct(shapes)

Take(shapes, n) == SubSeq(shapes, 1, IF Len(shapes) < n THEN Len(shapes) ELSE n)

suitable_shapes(trend, q, action) ==
  LET current == Shape(q.current)
      allowed == apply_adjustment(
                   apply_compatibility_filter(
                     get_allowed_instance_types(Catalog, q.rules), current, q.compatibility),
                   q.dont_recommend)
      divided == divide_by_priority(allowed, q, action)
  IN _remove_shape_duplicates(Filtered(divided, {s \in ToSet(divided) : Suits(s, current, trend)}))

\* One pass: nothing to choose, or what suits.
Pass(trend, q, action) ==
  IF requires_resize(trend) THEN suitable_shapes(trend, q, action)
  ELSE IF action = SPLIT THEN << Shape(q.current) >> ELSE << >>

\* Too few shapes: the shapes that fit without the optional requirements are added.
recommend_size(trend, q, action, max_results) ==
  LET first == Pass(trend, q, action)
      again == Take(Pass(discard_optional_requirements(trend), q, action), 5)
  IN IF ~ requires_resize(trend) THEN first
     ELSE IF Len(first) >= max_results THEN Take(first, max_results)
     ELSE Take(_remove_shape_duplicates(first \o again), max_results)

\* The current shape is no recommendation, unless as a part of a SPLIT.
_cleanup_recommended_shapes(shapes, q, action) ==
  Filtered(_remove_shape_duplicates(shapes), {s \in ToSet(shapes) : action = SPLIT \/ s.name # q.current})

\* From the cheapest to the most expensive, then those without a price.
sort_shapes(shapes, q) ==
  IF q.by_price
  THEN Sorted(shapes, {p \in ToSet(shapes) \X ToSet(shapes) :
         Price[p[1].name] # 0 /\ (Price[p[2].name] = 0 \/ Price[p[1].name] < Price[p[2].name])})
  ELSE shapes

\* Of the trends with the same directions, the first one stays.
remove_duplicates(trends) ==
  FlattenSeq([n \in DOMAIN trends |->
    IF \E m \in 1..(n - 1) : trends[m].result = trends[n].result THEN << >> ELSE <<trends[n]>>])

Trends(loads) == remove_duplicates([n \in DOMAIN loads |-> add_metric_trends(loads[n])])

Action(trends) == IF Len(trends) > 1 THEN SPLIT ELSE get_resize_action(trends[1])

\* The part of process_instance that chooses the shapes.  q: the loads of one period or
\* of several different ones, the current shape, the settings and the rules that apply.
RecommendedShapes(q) ==
  LET trends == Trends(q.loads)
      action == Action(trends)
      found  == IF Len(trends) = 1 THEN recommend_size(trends[1], q, action, q.max_results)
                ELSE FlattenSeq([n \in DOMAIN trends |-> recommend_size(trends[n], q, action, 1)])
  IN sort_shapes(_cleanup_recommended_shapes(found, q, action), q)

-----------------------------------------------------------------------------
(* What a recommendation promises                                          *)

\* The parent's rules hold for every shape but the current one, which a SPLIT may keep.
RulesKept(q, shapes) ==
  \A s \in ToSet(shapes) :
    s.name # q.current =>
      /\ HasRule(q.rules, "allow") => s.name \in Names(q.rules, "allow")
      /\ s.name \notin Names(q.rules, "deny")

\* A recommended shape has the processor for the load of some period, whichever
\* requirements were relaxed.
RoomForCpu(q, shapes) ==
  \A s \in ToSet(shapes) : \E n \in DOMAIN q.loads :
    q.loads[n]["cpu"] * Shape(q.current).cpu <= 100 * s.cpu

\* With no rules for the cloud, the forbidden changes are not recommended.
SeriesKept(q, shapes) ==
  (\A r \in q.rules : r.cloud # q.cloud) =>
    \A s \in ToSet(shapes) :
      /\ q.forbid_change_series => s.series = Shape(q.current).series
      /\ q.forbid_change_family => s.series = Shape(q.current).series
                                   \/ s.family = Shape(q.current).family
=============================================================================
