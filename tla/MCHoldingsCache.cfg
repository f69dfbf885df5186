SPECIFICATION Spec13F
CONSTANTS
  Managers = {1, 2}
  N13F = 4
  Of <- MCOf
  Cusip <- MCCusip
  Bad = {2}
  Located = {3, 4}
  MaxFaults13F = 1
  MaxRuns13F = 2
  MaxAsks13F = 2
  MaxLists = 2
INVARIANT RunCovers
PROPERTY ResolutionKept
CHECK_DEADLOCK FALSE
