-------------------------- MODULE MetricsProcessing ---------------------------
(***************************************************************************)
(* What an executor makes of the metrics of one instance before any        *)
(* algorithm sees them (docker/services/metrics_service.py): the files of  *)
(* all days are merged, cut at the start, averaged where they are old, and *)
(* divided into whole days and these into periods of one load.             *)
(*                                                                         *)
(* A time is the number of recording steps since the first midnight; the   *)
(* metrics are a function from times to the load, NoData where the file    *)
(* says -1.  A question is a record:                                       *)
(*   files      the instance's files, a sequence of metrics, by date       *)
(*   readable   whether the files can be parsed and have every column      *)
(*   applied    times at which applied recommendations were answered       *)
(*   meta       what the meta files say of the instance, a sequence of     *)
(*              [created, creation, postponed], see _read_meta_file        *)
(*   settings   [min_days, max_days, threshold, factor, thresholds,        *)
(*              discard]: of the algorithm; `threshold' is in days,        *)
(*              `factor' the averaged step in recording steps              *)
(***************************************************************************)
EXTENDS WeeklySchedule, FiniteSetsExt, Functions

NoData == -1
NoTime == -1
Actions == {"SCHEDULE", "SHUTDOWN", "SCALE_DOWN", "SCALE_UP", "CHANGE_SHAPE", "SPLIT", "NO_ACTION"}

day(t) == t \div Points

-----------------------------------------------------------------------------
(* Settings and meta                                                       *)

\* The settings the API takes and the model stores: three thresholds, in no order.  It
\* takes no other threshold day and averaged step than the model's defaults of 14 days
\* and 15 minutes.  Only recording steps that divide the averaged step are considered:
\* some of them make one, and two of these or more fill a day.
ValidSettings(s) ==
  /\ s.thresholds \in [1 .. 3 -> 0 .. 100]
  /\ s.min_days \in 1 .. 90 /\ s.max_days \in 7 .. 365
  /\ s.threshold \in Nat \ {0} /\ s.factor \in Nat \ {0}
  /\ Points % s.factor = 0 /\ 2 * s.factor <= Points /\ s.discard \in BOOLEAN

MetaEntry ==
  [created : Nat \cup {NoTime}, creation : Nat \cup {NoTime},
   postponed : SUBSET [actions : SUBSET STRING, passed : BOOLEAN]]

IsSeries(df) ==
  /\ IsFiniteSet(DOMAIN df) /\ DOMAIN df \subseteq Nat
  /\ df \in [DOMAIN df -> Nat \cup {NoData}]

IsQuestion(q) ==
  /\ Len(q.files) \in Nat /\ DOMAIN q.files = 1 .. Len(q.files)
  /\ \A n \in DOMAIN q.files : IsSeries(q.files[n])
  /\ q.readable \in BOOLEAN /\ q.applied \subseteq Nat
  /\ q.meta \in Seq(MetaEntry) /\ ValidSettings(q.settings)

NoMeta == [created |-> NoTime, creation |-> NoTime, postponed |-> {}]

\* An entry that was created later, or any one as long as there is no such time,
\* overwrites what it names.
Updated(known, entry) ==
  LET Named(new, old) == IF new = NoTime THEN old ELSE new IN
  IF known.created = NoTime \/ entry.created > known.created
    THEN [created   |-> Named(entry.created, known.created),
          creation  |-> Named(entry.creation, known.creation),
          postponed |-> IF entry.postponed = {} THEN known.postponed ELSE entry.postponed]
  ELSE known

\* The meta of an instance from the entries of several days, each one with
\* createDateTimestamp (created), creationDateTimestamp (creation) and postponeSettings
\* (postponed), or without.
_read_meta_file(entries) ==
  LET known[n \in 0 .. Len(entries)] == IF n = 0 THEN NoMeta ELSE Updated(known[n - 1], entries[n])
  IN  known[Len(entries)]

\* Settings that postpone nothing the executor knows, or that have passed, do not count.
\* entries: [actions, passed].
get_postponed_settings(entries) ==
  {e \in entries : e.actions \cap Actions # {} /\ ~e.passed}

\* The actions that are not to be recommended: one adjustment each.
to_adjustments(meta) ==
  UNION {e.actions \cap Actions : e \in get_postponed_settings(meta.postponed)}

-----------------------------------------------------------------------------
(* One series of whole steps                                               *)

\* The files are concatenated in the order of their dates; of two records of one time
\* the later file's is kept (fill_missing_timestamps).
merge_metric_files(files) ==
  LET last(t) == Max({n \in DOMAIN files : t \in DOMAIN files[n]})
  IN  [t \in UNION {DOMAIN files[n] : n \in DOMAIN files} |-> files[last(t)][t]]

\* Nothing but -1 for every metric: nothing to analyse.
validate_metric_file(q) ==
  q.readable /\ \E t \in DOMAIN merge_metric_files(q.files) : merge_metric_files(q.files)[t] # NoData

trim_from_appliance_date(df, applied) ==
  Restrict(df, {t \in DOMAIN df : \A a \in applied : t > a})

\* From the first to the last time, without gaps: what is missing counts as no load.
fill_missing_timestamps(df) ==
  [t \in Min(DOMAIN df) .. Max(DOMAIN df) |-> IF t \in DOMAIN df THEN df[t] ELSE 0]

\* Metrics from before the creation, or else without any load from the start, are left out.
discard_start(df, creation, discard) ==
  LET loaded == {t \in DOMAIN df : df[t] \notin {0, NoData}} IN
  IF creation # NoTime THEN Restrict(df, {t \in DOMAIN df : t >= creation})
  ELSE IF discard /\ loaded # {} THEN Restrict(df, {t \in DOMAIN df : t >= Min(loaded)})
  ELSE df

get_last_period(df, days) ==
  Restrict(df, {t \in DOMAIN df : t >= Max(DOMAIN df) - days * Points})

\* The step of a day's averages: longer when it is more than threshold days old.
IsOld(d, last, threshold) == d < last - threshold
StepOf(d, last, s) == IF IsOld(d, last, s.threshold) THEN s.factor ELSE 1

\* The metrics before the threshold's day are averaged, bin by bin, each one of records
\* without gaps; the mean is rounded down, which no integer threshold tells.
group_by_time(df, s) ==
  LET last == day(Max(DOMAIN df))
      bin(t) == t - (t % StepOf(day(t), last, s))
      mean(b) == LET records == {t \in DOMAIN df : bin(t) = b}
                     length == Cardinality(records)
                 IN  Total([n \in 1 .. length |-> df[Min(records) + n - 1]]) \div length
  IN  [b \in {bin(t) : t \in DOMAIN df} |-> mean(b)]

\* What load_df makes of the metrics, or << >> for an error: the files cannot be read,
\* nothing is left, or less than min_days between the first and the last time.  A
\* postponed action is a recommendation whose date has a timezone: it cannot be compared
\* with the date of an applied one, which has none, and that is an error too.
load_df(q, meta) ==
  LET cut  == trim_from_appliance_date(merge_metric_files(q.files), q.applied)
      used == discard_start(fill_missing_timestamps(cut), meta.creation, q.settings.discard)
  IN  IF \/ q.applied # {} /\ to_adjustments(meta) # {}
         \/ DOMAIN cut = {} \/ DOMAIN used = {}
         \/ (Max(DOMAIN used) - Min(DOMAIN used)) \div Points < q.settings.min_days
        THEN << >>
      ELSE group_by_time(get_last_period(used, q.settings.max_days), q.settings)

-----------------------------------------------------------------------------
(* Days and periods                                                        *)

Days(df) == {day(t) : t \in DOMAIN df}
OfDay(df, d) == {t \in DOMAIN df : day(t) = d}

\* Mutant: the first day is taken for averaged from the threshold's day on.
divide_by_days_FromThreshold(df, s) ==
  LET first == Min(Days(df))
      last  == Max(Days(df))
      step  == IF last - first >= s.threshold THEN s.factor ELSE 1
  IN  Days(df) \ ({d \in {last}  : Cardinality(OfDay(df, d)) < Points} \cup
                  {d \in {first} : Cardinality(OfDay(df, d)) < Points \div step})

\* The last and the first day are left out if records of them are missing.
divide_by_days(df, s) ==
  LET first == Min(Days(df))
      last  == Max(Days(df))
      step  == StepOf(first, last, s)
  IN  Days(df) \ ({d \in {last}  : Cardinality(OfDay(df, d)) < Points} \cup
                  {d \in {first} : Cardinality(OfDay(df, d)) < Points \div step})

Classes == 1 .. 4

\* The class of a cluster's centroid: shutdown, low, good or over utilised.
ClassOf(load, thresholds) ==
  IF load < thresholds[1] THEN 1
  ELSE IF thresholds[1] <= load /\ load < thresholds[2] THEN 2
  ELSE IF thresholds[2] <= load /\ load < thresholds[3] THEN 3
  ELSE 4

\* The periods of a day in one class.  The clustering is left out: the times of one load
\* are one cluster.
process_day(df, d, class, s) ==
  LET step == StepOf(d, day(Max(DOMAIN df)), s)
  IN  get_time_ranges({t \div step : t \in {t \in OfDay(df, d) : ClassOf(df[t], s.thresholds) = class}})

\* All periods of a class, each with its day: the times are bins of the day's step.
divide_on_periods(df, s) ==
  [class \in Classes |-> UNION {{<<d, r>> : r \in process_day(df, d, class, s)} : d \in divide_by_days(df, s)}]

\* How many records of the class its periods hold.
period_length(df, class, periods, s) ==
  LET records(d, r) ==
        LET step == StepOf(d, day(Max(DOMAIN df)), s) IN
        {t \in OfDay(df, d) : /\ ClassOf(df[t], s.thresholds) = class
                              /\ r[1] <= t \div step /\ t \div step <= r[2]}
  IN  Cardinality(UNION {records(p[1], p[2]) : p \in periods})

\* The classes of load with a twentieth of the metrics each, if they are two or more:
\* the instance then has different loads to be split between shapes.
get_non_straight_periods(df, periods, s) ==
  LET enough == {c \in Classes \ {1} : 20 * period_length(df, c, periods[c], s) >= Cardinality(DOMAIN df)}
  IN  IF Cardinality(enough) < 2 THEN {} ELSE enough

-----------------------------------------------------------------------------
Failure(status) == [status |-> status, days |-> {}, trends |-> {}, shutdown |-> FALSE]

\* The beginning of process_instance: what is analysed, the classes of load that each get
\* a trend of their own, and whether nothing but shutdown periods was found, which leaves
\* an empty schedule and so recommends SHUTDOWN (get_general_action).
AnalyseMetrics(q) ==
  LET meta == _read_meta_file(q.meta)
      df == load_df(q, meta)
      periods == divide_on_periods(df, q.settings)
  IN  IF ~validate_metric_file(q) THEN Failure("ERROR")
      ELSE IF to_adjustments(meta) = Actions THEN Failure("POSTPONED")
      ELSE IF df = << >> THEN Failure("ERROR")
      ELSE [status   |-> "OK",
            days     |-> divide_by_days(df, q.settings),
            trends   |-> get_non_straight_periods(df, periods, q.settings),
            shutdown |-> \A c \in Classes \ {1} : periods[c] = {}]

-----------------------------------------------------------------------------
(* What the analysis promises                                              *)

\* The times from which on the metrics count.
UsedFrom(q) ==
  LET all  == merge_metric_files(q.files)
      left == {t \in DOMAIN all : \A a \in q.applied : t > a}
      busy == {t \in left : all[t] > 0}
      creation == _read_meta_file(q.meta).creation
      start == CASE creation # NoTime -> Max({creation, Min(left)})
                 [] creation = NoTime /\ q.settings.discard /\ busy # {} -> Min(busy)
                 [] OTHER -> Min(left)
  IN  Max({start, Max(left) - q.settings.max_days * Points})

LastTime(q) == Max(DOMAIN merge_metric_files(q.files))

\* The days from midnight to midnight within the metrics that count.  Of an averaged day
\* the records before the end of its first bin may be missing.
WholeDays(q) ==
  LET last == day(LastTime(q)) IN
  {d \in day(UsedFrom(q)) .. last :
     /\ UsedFrom(q) <= d * Points + StepOf(d, last, q.settings) - 1
     /\ (d + 1) * Points - 1 <= LastTime(q)}

\* Every whole day is analysed and no other one; and an instance that is busy for one of
\* them from midnight to midnight, at one load, is not shut down.
DaysAreWhole(q, answer) ==
  answer.status = "OK" =>
    /\ answer.days = WholeDays(q)
    /\ answer.shutdown =>
         ~ \E d \in answer.days :
             \A t \in (d * Points) .. (d * Points + Points - 1) :
               /\ t \in DOMAIN merge_metric_files(q.files)
               /\ merge_metric_files(q.files)[t] >= Max(ToSet(q.settings.thresholds))
=============================================================================
