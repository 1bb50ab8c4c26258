---------------------------- MODULE WeeklySchedule ----------------------------
(***************************************************************************)
(* How an executor turns the idle periods of an instance into a weekly     *)
(* schedule of its running time (docker/services/schedule).                *)
(*                                                                         *)
(* Time is counted in points of one recording step.  A day has Points of   *)
(* them, a week has WeekLength days; the data cover whole days, the first  *)
(* of which is weekday 0.  idle is the sequence of these days, each one    *)
(* the set of its points that the clustering found to be idle.             *)
(***************************************************************************)
EXTENDS Lists

CONSTANTS
  Points,      \* recording steps in a day
  WeekLength,  \* weekdays (7 in the code)
  MinDays,     \* min_allowed_days_schedule
  MaxDays,     \* max_allowed_days_schedule
  MinDuration, \* min_schedule_day_duration_minutes, in points
  MaxDiff      \* MAX_GROUPING_DIFFERENCE_SECONDS, in points

ASSUME ScheduleAssumption ==
  /\ Points \in Nat \ {0, 1} /\ WeekLength \in Nat \ {0}
  /\ MinDays \in Nat \ {0} /\ MaxDays \in Nat \ {0}
  /\ MinDuration \in Nat \ {0} /\ MaxDiff \in Nat

TimePoints == 0 .. Points - 1
WeekDays   == 0 .. WeekLength - 1

\* A daily or grouped schedule.  The stop 0 is midnight, "00:00".
ScheduleItem == [days : SUBSET WeekDays, start : TimePoints, stop : TimePoints]

\* The point at which an item really ends.
EndOf(i) == IF i.stop = 0 THEN Points ELSE i.stop

AlwaysRun == << [days |-> WeekDays, start |-> 0, stop |-> 0] >>

\* The one item runs all week: _is_schedule_always_run.  A generated item never
\* ends at "00:00" but at "23:50" (as_dict).
IsAlwaysRun(schedule) ==
  /\ Len(schedule) = 1
  /\ schedule[1].days = WeekDays /\ schedule[1].start = 0 /\ EndOf(schedule[1]) = Points

-----------------------------------------------------------------------------
\* Metrics older than max_days before the last day are discarded: the days that
\* are left are one more than max_days.
Considered(idle) ==
  IF Len(idle) > MaxDays THEN (Len(idle) - MaxDays) .. Len(idle) ELSE 1 .. Len(idle)

weekday(n) == (n - 1) % WeekLength

\* The intervals of neighbouring points in a set that no longer interval contains.
Runs(set) ==
  {r \in set \X set :
     /\ r[1] <= r[2] /\ (r[1] .. r[2]) \subseteq set
     /\ r[1] - 1 \notin set /\ r[2] + 1 \notin set}

\* The idle periods of a day: a run of two points or more, together with the lone points
\* before it, back to the period before.
get_time_ranges(points) ==
  LET long == {r \in Runs(points) : r[1] < r[2]}
      open(r) == {p \in points : p <= r[2] /\ \A s \in long : s[2] < r[2] => p > s[2]}
  IN {<<CHOOSE p \in open(r) : \A o \in open(r) : p <= o, r[2]>> : r \in long}

\* On how many of the days considered the time belongs to an idle period.
count(idle, day, point) ==
  Cardinality({n \in Considered(idle) :
    weekday(n) = day /\ \E r \in get_time_ranges(idle[n]) : r[1] <= point /\ point <= r[2]})

\* Twice the median of the counts of a day (statistics.quantiles, n = 4, second).
TwiceMedian(idle, day) ==
  LET counts == SortSeq([i \in 1 .. Points |-> count(idle, day, i - 1)], <)
      m == Points \div 2
  IN IF Points % 2 = 1 THEN 2 * counts[m + 1] ELSE counts[m] + counts[m + 1]

\* The times of a weekday at which the instance has to run: those that are not idle on
\* three of four of these days, and as often as at half of the times.
get_action_period(idle, day) ==
  LET median == TwiceMedian(idle, day)
  IN {p \in TimePoints :
        ~ /\ 2 * count(idle, day, p) >= median
          /\ 4 * WeekLength * count(idle, day, p) >= 3 * Cardinality(Considered(idle))}

\* A run of a single point has no stop and is dropped; one that lasts until the last
\* point stops at midnight.
to_day_schedule(idle, day) ==
  {[days |-> {day}, start |-> r[1], stop |-> IF r[2] = Points - 1 THEN 0 ELSE r[2]] :
     r \in {r \in Runs(get_action_period(idle, day)) : r[1] < r[2]}}

duration(i) == EndOf(i) - i.start

get_day_schedule(idle, day) == {i \in to_day_schedule(idle, day) : duration(i) >= MinDuration}

generate_daily_schedule(idle) == UNION {get_day_schedule(idle, day) : day \in WeekDays}

-----------------------------------------------------------------------------
(* Grouping the daily schedules                                            *)

distance(a, b) == IF a < b THEN b - a ELSE a - b

\* Start and stop differ by an hour at most; midnight counts as the start of the day.
is_similar(i, j) == distance(i.start, j.start) <= MaxDiff /\ distance(i.stop, j.stop) <= MaxDiff

\* Mutant: the common schedule stops when the first one does.
Common_FirstStop(same) ==
  [days  |-> UNION {i.days : i \in same},
   start |-> CHOOSE s \in {i.start : i \in same} : \A i \in same : s <= i.start,
   stop  |-> CHOOSE s \in {i.stop : i \in same} : \A i \in same : s <= i.stop]

\* Earliest start, latest stop (get_common_start_stop), all the weekdays.
Common(same) ==
  [days  |-> UNION {i.days : i \in same},
   start |-> CHOOSE s \in {i.start : i \in same} : \A i \in same : s <= i.start,
   stop  |-> CHOOSE s \in {i.stop : i \in same} : \A i \in same : s >= i.stop]

\* Sorted by start, those with the same start by weekday.
Earlier(i, j) ==
  i.start < j.start \/ (i.start = j.start /\ \E d \in i.days : \A e \in j.days : d < e)

Similar(daily, i) == {j \in daily : is_similar(i, j)}

\* An item that no group took in yet makes a group of all that are similar to it,
\* those included that another group took in.
Extended(groups, i, daily) ==
  IF i \in groups.processed \/ <<i.start, i.stop>> \in groups.keys THEN groups
  ELSE [grouped   |-> Append(groups.grouped, Common(Similar(daily, i))),
        processed |-> groups.processed \cup Similar(daily, i),
        keys      |-> groups.keys \cup {<<i.start, i.stop>>}]

Groups(daily) ==
  LET sorted == Sorted(SetToSeq(daily), {p \in daily \X daily : Earlier(p[1], p[2])})
      upto[n \in 0..Len(sorted)] ==
        IF n = 0 THEN [grouped |-> << >>, processed |-> {}, keys |-> {}]
        ELSE Extended(upto[n - 1], sorted[n], daily)
  IN  upto[Len(sorted)].grouped

\* Those that run longest in a week come first.
Longer(i, j) == duration(i) * Cardinality(i.days) > duration(j) * Cardinality(j.days)

group_by_days(daily) ==
  LET groups == Groups(daily)
  IN  Sorted(groups, {p \in ToSet(groups) \X ToSet(groups) : Longer(p[1], p[2])})

\* disabled: one of the recommendations that the caller passes says that schedules are
\* not to be recommended (_is_schedule_disabled).
generate_schedule(idle, disabled) ==
  IF disabled \/ Len(idle) < MinDays THEN AlwaysRun
  ELSE group_by_days(generate_daily_schedule(idle))

-----------------------------------------------------------------------------
(* What a schedule promises, for the data it was made from                 *)

Covers(schedule, day, point) ==
  \E n \in 1 .. Len(schedule) :
    /\ day \in schedule[n].days
    /\ schedule[n].start <= point /\ point < EndOf(schedule[n])

\* Times that belong to no idle period of any day of this weekday.
Busy(idle, day) == {p \in TimePoints : count(idle, day, p) = 0}

\* A schedule does not stop the instance in a period, long enough to count, in which it
\* was busy every week.  Settings whose shortest period is no longer than the distance at
\* which two are merged are excepted: midnight then loses to an early hour.
BusyIsCovered(idle, schedule) ==
  MinDuration > MaxDiff =>
    \A day \in WeekDays : \A r \in Runs(Busy(idle, day)) :
      r[2] - r[1] >= MinDuration =>
        \A p \in r[1] .. (r[2] - 1) : Covers(schedule, day, p)
=============================================================================
