SPECIFICATION DocsSpec
CONSTANTS
  r1 = r1
  Companies = {1}
  NDocs = 5
  CompanyOf <- MCOf
  FormOf <- MCForm
  Tagged = {1, 3, 4}
  Arranged = {3}
  Prose = {1, 3}
  Kinds = {"audit", "notices", "changes"}
  Viewers = {r1}
  RecentSize = 3
  EventLimit = 2
  Lookback = 2
  Limit = 2
  MaxVersion = 2
  MaxDocRuns = 2
  MaxDocAsks = 2
  MaxDocFaults = 1
INVARIANTS AbsenceIsHonest CoverIsCurrent ComparedWhenBothParsed
CHECK_DEADLOCK FALSE
