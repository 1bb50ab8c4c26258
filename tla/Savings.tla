------------------------------- MODULE Savings -------------------------------
(***************************************************************************)
(* What following a recommendation saves (docker/services/saving).         *)
(*                                                                         *)
(* A price is that of an hour; a month has a fixed number of hours, which  *)
(* is left out.  An option's cost is in hundredths of this price.          *)
(***************************************************************************)
EXTENDS WeeklySchedule, Resize, AutoscalingGroup

\* Hundredths of the week that an item runs.  An item that lasts until midnight ends ten
\* minutes earlier in the report (as_dict); they are not counted here.
_get_schedule_coverage_percent(i) ==
  Round(100 * Cardinality(i.days) * duration(i), WeekLength * Points)

\* Mutant: the part that runs longest stands for all of them.
Coverage_First(schedule) == _get_schedule_coverage_percent(schedule[1])

\* What always runs is no SCHEDULE and has no such option (the code would count it as 0,
\* its item ending where it starts).
Coverage(schedule) ==
  Total([n \in DOMAIN schedule |-> _get_schedule_coverage_percent(schedule[n])])

Option(action, target, cost) == [action |-> action, target |-> target, cost |-> cost]

Priced(shapes) == Filtered(shapes, {s \in ToSet(shapes) : Price[s.name] # 0})

_calculate_resize_saving(action, shapes) ==
  LET priced == Priced(shapes)
  IN  [n \in DOMAIN priced |-> Option(action, priced[n].name, 100 * Price[priced[n].name])]

\* share[n]: hundredths of the time the n-th shape is to be used.  A shape without a price
\* raises, and there is no such option.
_calculate_split_saving(shapes, share) ==
  LET used == {n \in DOMAIN shapes : share[n] # 0}
  IN  IF \E n \in used : Price[shapes[n].name] = 0 THEN << >>
      ELSE << Option(SPLIT, NONE, Total([n \in DOMAIN shapes |-> share[n] * Price[shapes[n].name]])) >>

calculator(action, q) ==
  CASE action \in {"SCALE_DOWN", "SCALE_UP", "CHANGE_SHAPE"} -> _calculate_resize_saving(action, q.shapes)
    [] action = "SCHEDULE" -> << Option(action, NONE, Price[q.current] * Coverage(q.schedule)) >>
    [] action = "SHUTDOWN" -> << Option(action, NONE, 0) >>
    [] action = SPLIT      -> _calculate_split_saving(q.shapes, q.share)
    [] OTHER               -> << >>

\* The options, the one that saves most first; none when the price of the current shape is
\* not known.  q: the actions, current, shapes, share and schedule of a recommendation.
calculate_savings(q) ==
  LET actions == IF "SHUTDOWN" \in ToSet(q.actions) THEN Append(q.actions, "SCALE_DOWN") ELSE q.actions
      options == FlattenSeq([n \in DOMAIN actions |-> calculator(actions[n], q)])
  IN  IF Price[q.current] = 0 THEN << >>
      ELSE Sorted(options, {p \in ToSet(options) \X ToSet(options) : p[1].cost < p[2].cost})

-----------------------------------------------------------------------------
\* The points of the week at which the instance runs.
Running(schedule) == {t \in WeekDays \X TimePoints : Covers(schedule, t[1], t[2])}

\* Two parts of a schedule run at the same time of the same day.
Intercept(schedule) ==
  \E m, n \in DOMAIN schedule, t \in WeekDays \X TimePoints :
    m # n /\ Covers(<<schedule[m]>>, t[1], t[2]) /\ Covers(<<schedule[n]>>, t[1], t[2])

\* But for the rounding of each of its parts, a schedule costs at least the share of the
\* week that it runs, and no more unless parts of it intercept: these are paid twice.
CostsItsRunningTime(schedule) ==
  LET week    == WeekLength * Points
      running == 100 * Cardinality(Running(schedule))
  IN  /\ 2 * (running - week * Coverage(schedule)) <= Len(schedule) * week
      /\ ~Intercept(schedule) => 2 * (week * Coverage(schedule) - running) <= Len(schedule) * week

\* The shapes that are recommended by price and the options of changing to them come in
\* one order: the first shape that has a price is the option that saves most.
FirstShapeSavesMost(q, shapes) ==
  LET options == calculate_savings([actions |-> <<Action(Trends(q.loads))>>, current |-> q.current, shapes |-> shapes,
                                    share |-> [n \in DOMAIN shapes |-> 100 \div Len(shapes)], schedule |-> AlwaysRun])
  IN  q.by_price /\ options # << >> /\ options[1].target # NONE => options[1].target = Priced(shapes)[1].name
=============================================================================
