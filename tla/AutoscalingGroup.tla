--------------------------- MODULE AutoscalingGroup ---------------------------
(***************************************************************************)
(* A resource group of the parent with the policy AUTO_SCALING: its        *)
(* resources are taken as copies of one instance, and the recommendation   *)
(* is how many of them to run (process_autoscaling_group).                 *)
(*                                                                         *)
(* A group is [resources: a sequence of [type, load, day, failed, meta],   *)
(* min, max: the thresholds in percent, desired: the load between them if  *)
(* the policy stores thresholds, step: the policy's scale_step, cooldown:  *)
(* in days, last: the last recommendation].  `load' is the 90th            *)
(* percentile of a resource's CPU and memory, `day' that of its last       *)
(* metrics; `meta' tells whether the storage has a meta entry for it.      *)
(* `last' is [age, weekday, action, members, recommended]: days since it   *)
(* was added, days since Monday, the resources that ran then and had meta; *)
(* age NoLast when there is none.                                          *)
(***************************************************************************)
EXTENDS Lists, FiniteSetsExt

AutoDetect == 0  \* scale_step is not given
NoLast == -1
NotStored == 0   \* the policy has no thresholds: the algorithm's are used
Unreported == "none"

\* The group that the parent stores, its resources and its last recommendation.  A step is
\* a number of instances; thresholds of zero would be divided by.
Member == [type : STRING, load : Nat, day : Nat, failed : BOOLEAN, meta : BOOLEAN]
ScalingGroup ==
  {g \in [resources : Seq(Member), min : Nat, max : Nat, desired : Nat, step : Nat, cooldown : Nat,
          last : [age : Nat \cup {NoLast}, weekday : Nat, action : STRING, members : SUBSET Nat, recommended : Nat]] :
     g.min + g.max > 1}

\* Python's round(n / d): to the nearest, a half to the even one.
Round(n, d) ==
  LET q == n \div d  r == n % d
  IN  IF 2 * r < d \/ (2 * r = d /\ q % 2 = 0) THEN q ELSE q + 1

\* get_recent_recommendation looks no further back than Monday.
CoolingDown(g) ==
  /\ g.last.age # NoLast /\ g.last.age <= g.last.weekday
  /\ g.last.age < g.cooldown

Loaded(g) == {i \in DOMAIN g.resources : ~g.resources[i].failed}
OfType(g, t) == {i \in Loaded(g) : g.resources[i].type = t}
Types(g) == {g.resources[i].type : i \in Loaded(g)}

\* The most frequent type, if no other one is as frequent.
_find_non_matching_autoscaling_resources(g) ==
  {t \in Types(g) : \A o \in Types(g) \ {t} : Cardinality(OfType(g, t)) > Cardinality(OfType(g, o))}

\* Mutant: resources without recent metrics count as running.
_filter_outdated_resources_All(g, targets) == targets

\* Those with metrics of the group's last day.
_filter_outdated_resources(g, targets) ==
  LET last == Max({g.resources[i].day : i \in targets})
  IN  {i \in targets : g.resources[i].day >= last}

TotalLoad(g, targets) == 
  Total([i \in DOMAIN g.resources |-> IF i \in targets THEN g.resources[i].load ELSE 0])

_get_autoscaling_thresholds(g) ==
  [min |-> g.min, desired |-> IF g.desired # NotStored THEN g.desired ELSE Round(g.min + g.max, 2), max |-> g.max]

\* How far the number of instances is from the one that brings the load to the
\* desired one; 100 / desired is rounded to two digits before it is used.
_get_autoscaling_scale_step(g, targets) ==
  IF g.step # AutoDetect THEN g.step
  ELSE LET needed == Round(TotalLoad(g, targets)
                            * Round(10000, _get_autoscaling_thresholds(g).desired), 10000)
           spare  == Cardinality(targets) - needed
       IN  IF spare < 0 THEN -spare ELSE spare

\* The average load is outside of the thresholds or not.
get_autoscaling_group_scale_action(g, targets) ==
  LET n == Cardinality(targets) IN
  IF TotalLoad(g, targets) <= g.min * n THEN "SCALE_DOWN"
  ELSE IF TotalLoad(g, targets) >= g.max * n THEN "SCALE_UP" ELSE "NO_ACTION"

Blocked(step, n) == step >= n

format_autoscaling_recommendation(action, n, step) ==
  [action |-> action, current |-> n,
   recommended |-> CASE action = "SCALE_UP" -> n + step [] action = "SCALE_DOWN" -> n - step [] OTHER -> n]

\* What is recommended for the running resources, and the number of them that it leads to
\* (format_autoscaling_recommendation).
Scaled(g, targets) ==
  LET n      == Cardinality(targets)
      action == get_autoscaling_group_scale_action(g, targets)
      step   == IF action = "NO_ACTION" THEN 0 ELSE _get_autoscaling_scale_step(g, targets)
  IN  IF action = "SCALE_DOWN" /\ Blocked(step, n)
        THEN IF g.step = AutoDetect THEN format_autoscaling_recommendation("SCALE_DOWN", n, n - 1)
             ELSE format_autoscaling_recommendation("NO_ACTION", n, 0)
      ELSE format_autoscaling_recommendation(action, n, step)

\* What is reported of each resource by itself: those that run are left as they are, the
\* ones of another type are superfluous, what could not be loaded is an error.  Of the
\* ones without recent metrics nothing is said.
dump_autoscaling_resource(g, type, targets, i) ==
  IF i \in targets THEN "NO_ACTION"
  ELSE IF g.resources[i].type # type THEN "SHUTDOWN" ELSE Unreported
dump_autoscaling_failed_resource == "ERROR"

\* The last recommendation again, its step being the distance of the recommended number
\* from that of the resources recorded; and of each of these that it be left as it is,
\* whether there are metrics of it or not.
dump_group_report_from_recommendation(last) ==
  LET n == Cardinality(last.members)
      step == IF n > last.recommended THEN n - last.recommended ELSE last.recommended - n
      past == format_autoscaling_recommendation(last.action, n, step)
  IN  [action |-> "PAST", current |-> n, recommended |-> past.recommended,
       members |-> [i \in last.members |-> "NO_ACTION"]]

\* The group's recommendation: the last one while it cools down.  Without a most
\* frequent type (a tie, or no resource could be loaded) an exception ends the scan.
process_autoscaling_group(g) ==
  LET types   == _find_non_matching_autoscaling_resources(g)
      type    == CHOOSE t \in types : TRUE
      targets == _filter_outdated_resources(g, OfType(g, type))
      scaled  == Scaled(g, targets)
  IN
  IF CoolingDown(g) THEN dump_group_report_from_recommendation(g.last)
  ELSE IF types = {} THEN [action |-> "RAISES", current |-> 0, recommended |-> 0, members |-> << >>]
  ELSE [action |-> scaled.action, current |-> scaled.current, recommended |-> scaled.recommended,
        members |-> [i \in DOMAIN g.resources |-> IF i \in Loaded(g) THEN dump_autoscaling_resource(g, type, targets, i)
                                                ELSE dump_autoscaling_failed_resource]]

\* What the history keeps of it, for the scans while the group cools down: of the
\* resources that run, those with a meta entry.
create_group_recommendation(g, answer) ==
  [age |-> 0, weekday |-> g.last.weekday, action |-> answer.action, recommended |-> answer.recommended,
   members |-> {i \in DOMAIN answer.members : answer.members[i] = "NO_ACTION" /\ g.resources[i].meta}]

-----------------------------------------------------------------------------
New(answer) == answer.action \notin {"PAST", "RAISES"}

\* The resources that run, as a scan a day later would see them alone.
Peers(g) ==
  LET day == Max({g.resources[i].day : i \in {i \in Loaded(g) :
                   g.resources[i].type \in _find_non_matching_autoscaling_resources(g)}})
  IN  Filtered(g.resources, {r \in ToSet(g.resources) :
        ~r.failed /\ r.day = day /\ r.type \in _find_non_matching_autoscaling_resources(g)})

\* A scan that finds the resources that run alone recommends the same; it is for as many
\* as are reported to be left as they are; and the next scan, while the group cools down,
\* repeats it, if there is a meta entry for each of them.
OnlyPeersCount(g, answer) ==
  New(answer) =>
    LET alone == Scaled([g EXCEPT !.resources = Peers(g)], DOMAIN Peers(g))
        next  == [g EXCEPT !.last = create_group_recommendation(g, answer)]
        again == process_autoscaling_group(next)
    IN  /\ answer.current = Len(Peers(g))
        /\ <<alone.action, alone.current, alone.recommended>> =
             <<answer.action, answer.current, answer.recommended>>
        /\ CoolingDown(next) /\ (\A n \in DOMAIN Peers(g) : Peers(g)[n].meta) =>
             /\ again.current = answer.current
             /\ again.recommended = answer.recommended
=============================================================================
