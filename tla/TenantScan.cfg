SPECIFICATION Spec
CONSTANTS
  r1 = r1
  r2 = r2
  t1 = t1
  t2 = t2
  Tenant = t1
  Resources <- MCResources
  Settings <- MCSettings
  Answers <- MCAnswers
  MinDays = 2
  DayHours = 2
  MaxDay = 3
  MaxScans = 2
INVARIANTS TypeOK EveryResourceIsReported ReportsCoverTheMetrics FreshGroupIsConsistent
CHECK_DEADLOCK FALSE
