CONSTANTS
  JobPids <- RunPids
  NoOwner <- Nobody
  NJobs = 1
  NMembers = 3
  MaxJobGen = 2
  NProcs = 3
  MaxGen = 2
  MaxHandles = 1
  Contexts = {k, p, q}
  FatFs = {fat}
  KuroFs = {kuro}
  ReadOnlyFs = {}
  RootFs = fat
  Inputs <- PathArguments
  Modes <- OpenModes
  MountSlots = 2
  OpenSlots = 2
  MaxDepth = 2
  MaxSize = 2
  MaxNodes = 4
  MaxFileGen = 2
  MaxFileRefs = 2
  MaxMountGen = 2
  MaxChanges = 3
  RuntimePids = {p, q}
  KernelContext = k
  MaximumContexts = 2
  MaximumHandles = 2
  Disk <- VolumeTree
  ConfigurationPath <- FileOfSettings
  MaxHandleGen = 2
  MaxSpawns = 2
  Threads = {1, 2, 3}
  NCpus = 3
  NSlots = 3
  MAX_PRIORITY = 31
  Priorities = {1, 2}
  NoThread = 0
SPECIFICATION BenchSpec
INVARIANTS MembersAreProcesses  PolicyExact
PROPERTIES ZombiesStayForTheirParent OwnDirectory
CHECK_DEADLOCK FALSE
