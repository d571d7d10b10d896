CONSTANTS
  NThreads = 3
  MaxGen = 3
  Limit = 2
  MaxSleep = 2
  NCpus = 1
  NSlots = 3
  MAX_PRIORITY = 31
  Priorities = {0}
  NoThread = NoThread
  Threads <- ThreadIds
  MAX_TASKS = 2
  TickSpace = 8
  Periods = {0, 2}
  Budget = 2
  TickSteps = {1, 3}
  MaxTaskTicks = 3
  MaxTaskCalls = 3
  MaxTaskGenerations = 2
  Watched <- TwoServices
  SERVICE_RESTART_LIMIT = 2
  LOGIN_ATTEMPTS = 2
  MaxDeaths = 4
  MaxSpawnFaults = 1
SPECIFICATION LoopsSpec
 
PROPERTIES  PendingTasksRun ServicesComeBack
CHECK_DEADLOCK FALSE
