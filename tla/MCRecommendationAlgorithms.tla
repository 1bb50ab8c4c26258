---------------------- MODULE MCRecommendationAlgorithms ----------------------
\* Days of eight points over a week of three days; a catalogue of six shapes; groups
\* of up to three instances; a tenant of three resources.
EXTENDS RecommendationAlgorithms

\* Idle never, at both ends of the day, a lone point, at other hours of the night.
Patterns == {{}, {0, 1}, {0, 1, 2, 7}, {0, 1, 5, 6, 7}, {0, 1, 6, 7}, {0, 1, 2, 3, 6}}

MCScheduleInputs ==
  [idle : UNION {[1 .. n -> Patterns] : n \in 2 .. 4} \cup
            {x \o y : x, y \in [1 .. 3 -> Patterns \ {{}, {0, 1}, {0, 1, 2, 7}}]}, disabled : {FALSE}] \cup
  [idle : [1 .. 3 -> Patterns], disabled : {TRUE}]

S(name, series, family, cpu, memory, maker) ==
  [name |-> name, series |-> series, family |-> family, cpu |-> cpu, memory |-> memory,
   network |-> 10, iops |-> IF cpu = 4 THEN 0 ELSE 100 * cpu, maker |-> maker, arch |-> "64"]

MCCatalog ==
  << S("m.large", "m", "general", 4, 16, "Intel"), S("m.small", "m", "general", 2, 8, "Intel"),
     S("m.xlarge", "m", "general", 8, 32, "Intel"), S("t.medium", "t", "general", 6, 24, "AMD"),
     S("c.large", "c", "compute", 6, 12, "AWS"), S("r.large", "r", "memory", 4, 30, NONE) >>

MCPrice == [n \in {"m.large", "m.small", "m.xlarge", "t.medium", "c.large", "r.large"} |->
              CASE n = "m.small" -> 1 [] n = "t.medium" -> 0 [] n = "c.large" -> 2 [] OTHER -> 3]

Rule(action, cloud, names) == [action |-> action, cloud |-> cloud, names |-> names]
RuleSets ==
  { {}, {Rule("deny", "AWS", {"m.xlarge", "m.small"})},
    {Rule("allow", "AWS", {"m.xlarge", "c.large"}), Rule("deny", "AZURE", {"c.large"}),
     Rule("prioritize", "AWS", {"t.medium", "m.xlarge"})},
    {Rule("prioritize", "AZURE", {"t.medium", "r.large"}), Rule("allow", "AZURE", {"t.medium", "m.large"})} }

Loads ==
  {[cpu |-> c, memory |-> m, network |-> n, iops |-> i] :
     c \in {10, 25, 50, 75, 90}, m \in {-1, 10, 25, 50, 75}, n \in {-1, 85}, i \in {-1, 90}}

MCResizeInputs ==
  [loads : {<<l>> : l \in Loads} \cup
           {<<l, k>> : l, k \in {l \in Loads : l.network = -1 /\ l.iops = -1 /\ l.memory \in {10, 75}}},
   current : {"m.large", "t.medium"}, cloud : {"AWS"}, rules : RuleSets,
   forbid_change_series : BOOLEAN, forbid_change_family : BOOLEAN,
   compatibility : {NONE, "COMPATIBLE"}, dont_recommend : {FALSE},
   max_results : {1, 4}, by_price : {TRUE}]
  \cup
  [loads : {<<l>> : l \in Loads}, current : {"m.large", "r.large"}, cloud : {"AWS"}, rules : {{}},
   forbid_change_series : BOOLEAN, forbid_change_family : {FALSE},
   compatibility : {"SAME"}, dont_recommend : BOOLEAN, max_results : {2}, by_price : {FALSE}]

Members == [type : {"m.large", "c.large"}, load : {5, 30, 95}, day : {8, 9}, failed : {FALSE}, meta : {TRUE}]
           \cup
           [type : {"m.large"}, load : {60}, day : {9}, failed : BOOLEAN, meta : {FALSE}]

MCGroupInputs ==
  [resources : UNION {[1 .. n -> Members] : n \in 1 .. 3}, min : {30}, max : {70}, desired : {NotStored, 35}, step : {AutoDetect, 2},
   cooldown : {7}, last : {[age |-> NoLast, weekday |-> 1, action |-> "NO_ACTION", members |-> {}, recommended |-> 0]}]
  \cup
  [resources : [1 .. 2 -> Members], min : {30}, max : {70}, desired : {NotStored}, step : {1}, cooldown : {2, 7},
   last : [age : {0, 1, 2, 6, 7}, weekday : {0, 2, 6}, action : {"SCALE_DOWN"}, members : {{1, 3}}, recommended : {1}]]

\* The load at a time: busy, idle, two loads by turns, nothing before a time, unknown.
LoadAt(pattern, t) ==
  CASE pattern = "busy" -> 80
    [] pattern = "idle" -> 5
    [] pattern = "turns" -> IF t % 8 < 4 THEN 80 ELSE 20
    [] pattern = "late" -> IF t < 11 THEN 0 ELSE 50
    [] pattern = "unknown" -> NoData

\* Two files that overlap or leave a gap; the second one may tell another load.
TwoFiles(a, b, gap, p, q) ==
  << [t \in a .. (b \div 2) |-> LoadAt(p, t)], [t \in (b \div 2 + gap) .. b |-> LoadAt(q, t)] >>

S3(threshold, factor, min, discard) ==
  [min_days |-> min, max_days |-> 7, threshold |-> threshold, factor |-> factor,
   thresholds |-> <<10, 30, 70>>, discard |-> discard]

MCSettings == {S3(1, 2, 1, TRUE), S3(2, 4, 1, FALSE), S3(2, 2, 2, TRUE)}

NewMeta(c, n, p) == [created |-> c, creation |-> n, postponed |-> p]
Postpone(actions, passed) == [actions |-> actions, passed |-> passed]
Metas ==
  { << >>, <<NewMeta(NoTime, NoTime, {}), NewMeta(2, 10, {}), NewMeta(1, 12, {})>>,
    <<NewMeta(1, NoTime, {Postpone({"SHUTDOWN"}, FALSE), Postpone({"SPLIT"}, TRUE)})>>,
    <<NewMeta(1, NoTime, {Postpone(Actions, FALSE)})>> }

MetricsCases ==
  [files : {TwoFiles(a, b, gap, p, q) : a \in {0, 1, 2, 5}, b \in {15, 16, 23, 26, 31, 39}, gap \in {-1, 1, 4},
                                        p \in {"busy", "idle", "late", "unknown"}, q \in {"busy", "turns", "late", "unknown"}},
   readable : {TRUE}, applied : {{}, {3, 8}}, meta : Metas, settings : MCSettings]
  \cup
  [files : {<<[t \in a .. b |-> LoadAt("turns", t)]>> : a \in 0 .. 8, b \in 63 .. 72},
   readable : BOOLEAN, applied : {{}}, meta : {<< >>}, settings : MCSettings]

\* Documents of a resource by one job: [type, savings], the prices are 100, 200 and 60.
\* Two jobs save theirs by turns.
Combinations ==
  { << >>, <<[type |-> "NO_ACTION", savings |-> << >>]>>, <<[type |-> "NO_ACTION", savings |-> <<30>>]>>,
    <<[type |-> "SCHEDULE", savings |-> <<30, -40>>], [type |-> "SCALE_UP", savings |-> <<-20, -40>>]>>,
    <<[type |-> "SCALE_DOWN", savings |-> <<55, 40, 20>>]>>, <<[type |-> "SHUTDOWN", savings |-> <<60, 40>>]>>,
    <<[type |-> "SCALE_UP", savings |-> <<-40>>]>>,
    <<[type |-> "SCHEDULE", savings |-> <<30>>], [type |-> "SPLIT", savings |-> <<30>>]>> }

DocumentsOf(resource, price, job, combination) ==
  [n \in DOMAIN combination |->
     [resource |-> resource, type |-> combination[n].type, job |-> job, at |-> 100 * job + 120 * (n - 1) + price \div 50,
      price |-> price, savings |-> combination[n].savings]]

Known(documents) == [known |-> TRUE, documents |-> documents]
Histories ==
  {DocumentsOf("a", 100, 1, x) \o DocumentsOf("a", 100, 2, y) \o DocumentsOf("b", 200, 2, z) \o DocumentsOf("c", 60, 1, w) :
     x, y, z, w \in Combinations}

MCReportInputs ==
  [customer : {TRUE}, tenants : {<<Known(h)>> : h \in Histories}, since : {0, 150}, threshold : {0, 35}]
  \cup
  [customer : BOOLEAN, tenants : [1 .. 2 -> {[known |-> FALSE, documents |-> << >>], Known(DocumentsOf("a", 0, 1, <<[type |-> "SPLIT", savings |-> <<9>>]>>)),
     Known(DocumentsOf("a", 100, 1, <<[type |-> "SPLIT", savings |-> <<9>>]>>))}], since : {0}, threshold : {0}]

MCMetricsInputs == {q \in MetricsCases : ValidSettings(q.settings)}
=============================================================================
