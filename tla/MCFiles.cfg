CONSTANTS
  Contents = {a, b, c}
  None = None
  Partial = Partial
  MaxCalls = 3
  NInodes = 4
  NExtents = 5
  Names = {"a", "b", "c"}
  Data = {x, y}
  EntriesPerBlock = 2
  NoIntent = NoIntent
  Budgets <- EachInterrupted
  MaxCluster = 5
  Slots = 1
  FileNames = {x, y}
  MaxUnits = 2
  MaxTags = 2
  MaxFaults = 2
  RamPaths <- RamArguments
  RAMFS_MAX_NODES = 4
  RAMFS_MAX_CHILDREN = 3
  RAMFS_MAX_PATH_DEPTH = 2
  RAMFS_MAX_FILE_SIZE = 1
  RAMFS_MAX_TOTAL_FILE_BYTES = 1
  FirstCapacity = 1
  AhciSectors = {1, 2}
  NewValues = {7}
  MaxAhciRequests = 3
  Blocks = {1, 2}
  WriteValues = {7}
  QueueEntries = 3
  Ids = 20
  MaxNvmeRequests = 3
  VirtioCallers = {c1, c2}
  VirtioBlocks = {1, 2}
  VirtioValues = {7}
  MaximumBlockDevices = 1
  OtherDevices <- RegisteredDisks
  MaxVirtioCalls = 4
  UiPids = {"L1", "H1", "A1"}
  ParentOf <- ParentsOf
  UiTitles <- Titles
  UiBounds <- AskedBounds
  UiFrames <- Frames
  Pointers <- Points
  PinsUsed = {1}
  Screens <- ScreenSizes
  Running <- Session
  BootScreen <- FirstScreen
  MAX_WINDOWS = 3
  MAX_DAMAGE_REGIONS = 2
  MaxUiInputs = 2
  MaxUiCalls = 3
  MaxModes = 1
  kCapacity = 4
  Places = {1, 2}
  KeyCodes = {7}
  Ticks = {1}
  WheelLimit = 2
  MaxUiEvents = 4
SPECIFICATION BenchSpec
INVARIANTS MountRecovers FilesWhole   DesktopExact
PROPERTIES ReplaceIsAtomic
CHECK_DEADLOCK FALSE
