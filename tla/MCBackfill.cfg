CONSTANTS
  Companies = {1, 2, 3, 4}
  NFacts <- MCNFacts
  Unparsable = {1}
  Parsers = {p1, p2}
  BatchSize = 2
  QueueMax = 2
  Limit = 3
  Faults = {"sigint", "sigint_startup", "write", "parser", "writer", "kill", "power"}
  MaxFaults = 2
SPECIFICATION Spec
CHECK_DEADLOCK FALSE
INVARIANTS
  CheckpointBackedByFacts
  WriterAccountsForAll
PROPERTIES
  RefinesIngest
  RunEnds
  EveryCompanyIngested
