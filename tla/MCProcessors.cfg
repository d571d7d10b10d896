CONSTANTS
  Cpus = {c1, c2, c3}
  Wrap = 7
  NAps = 2
  MaxCalls = 3
  NOnline = 3
  Shooters = {1, 2}
  Masked = {1}
  Pages = {p, q}
  MaxGeneration = 3
  NoPage = NoPage
  Threads = {1, 2, 3}
  NCpus = 2
  NSlots = 3
  MAX_PRIORITY = 31
  Priorities = {1}
  NoThread = NoThread
  Affinity <- Bound
  Budgets = {1, 3}
  MaxYields = 2

SPECIFICATION ProcessorsSpec
INVARIANTS MutualExclusion OkMeansDone OkMeansInvalidated 
PROPERTIES FifoSpec FailClosed ShootdownEnds 
CHECK_DEADLOCK FALSE
