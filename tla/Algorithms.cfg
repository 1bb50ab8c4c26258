SPECIFICATION Spec
CONSTANTS
  Points = 8
  WeekLength = 3
  MinDays = 3
  MaxDays = 5
  MinDuration = 2
  MaxDiff = 1
  Catalog <- MCCatalog
  Price <- MCPrice
  ScheduleInputs <- MCScheduleInputs
  ResizeInputs <- MCResizeInputs
  GroupInputs <- MCGroupInputs
  MetricsInputs <- MCMetricsInputs
  ReportInputs <- MCReportInputs
  MaxPriority = 2
  MaxPerType = 1
INVARIANTS
  WholeDaysAreAnalysed
  BusyTimeIsScheduled
  ShapeRulesKept
  CpuIsEnough
  GroupIsSizedByItsPeers
  RecommendationIsForeseen
  SavingsMatchRecommendation
  MailMatchesHistory
CHECK_DEADLOCK FALSE
