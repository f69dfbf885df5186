SPECIFICATION Spec
CONSTANTS
  FirstQuarters <- MCFirstQuarters
  MaxFilings = 5
  MaxOdd = 1
  MaxUnseen = 1
  FramesUntil = 1
  Periods <- MCPeriods
  PeriodTypes = {"FY"}
  Columns = {2}
  StatementsAsked = {"income", "balance", "cashflow"}
  SeriesAsked = {"revenue", "cash_from_operations", "total_assets"}
  MetricsAsked = {"fcf"}
  Pages = {2}
INVARIANTS
  OwnPeriod
  BridgeCloses
  SeriesOfQuarters
PROPERTY ReportedStays
