SPECIFICATION Spec
CONSTANTS
  g1 = g1
  g2 = g2
  Ciks = {1, 2}
  Groups = {g1, g2}
  NoGroup = NoGroup
  MinSize = 1
  Keep = 1
  Asked = {"spreads", "themes", "percentiles", "ratio"}
  Jobs = {"profiles", "components", "mix", "peers", "scores", "stats", "ratios"}
  LastDay = 2
  MaxMoves = 1
  MaxRuns = 3
  MaxAsks = 1
  MaxFaults = 1
SYMMETRY Sym
INVARIANTS OneRunShown GroupIsRankedGroup
PROPERTIES SnapshotsGoForward
CHECK_DEADLOCK FALSE
