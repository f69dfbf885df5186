SPECIFICATION AccessSpec
CONSTANTS
  api = api  batch = batch  r1 = r1  r2 = r2  job = job
  Procs <- MCProcs
  Api = api
  NoProc = none
  Tasks <- MCTasks
  Home <- MCHome
  Interval = 2
  Ttl = 3
  Window = 4
  MaxBoots = 1
INVARIANT Throttled
PROPERTIES ActsAsOneMap EveryRequestEnds
