SPECIFICATION Spec
CONSTANTS
  Ciks = {1, 2}
  N = 4
  Form <- MCForm
  Feeds <- MCFeeds
  Subject <- MCSubject
  Window = 2
  Limits = {1, 2}
  RunLimit = 2
  Requests = {r1, r2}
  MaxFaults = 1
  MaxRuns = 2
  MaxAsks = 2
INVARIANTS NeverOlder ReparseCovers
PROPERTY NothingDropped
SYMMETRY Alike
CHECK_DEADLOCK FALSE
