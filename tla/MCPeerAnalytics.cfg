CONSTANTS
  Companies = {1, 2, 3}
  Groups = {"tech"}
  NoGroup = "none"
  Sic <- MCSic
  NA <- MCNA
  MinSize = 2
  Timeout = 3
  MaxFilings = 3
  MaxFaults = 2
SPECIFICATION Spec
INVARIANTS
  PublishedFromWholeWalk
  CompleteMeansConsistent
  WalkCoversAll
PROPERTY CatchUpWithinTimeout
