CONSTANTS
  UsbPorts = {1, 2}
  UsbSlots = {1, 2}
  UsbKinds = {"Keyboard", "Storage"}
  MAXIMUM_DEFERRED_EVENTS = 2
  PollEvents = 1
  MaxPlugs = 2
  MaxReports = 1
  LastBlock = 2
  BlocksPerTransfer = 2
  StickValues = {"w"}
  Media = {"scratch", "signed", "plain"}
  MaxStickCalls = 2
  MAXIMUM_DEVICES = 2
  MAXIMUM_CHILDREN = 1
  DeviceKinds = {"pci", "usb"}
  HotRemovable = {"usb"}
  DriverTable <- TwoDrivers
  MaxDeviceChanges = 5
  PciFunctions = {"nic", "edu", "e1000", "e1000e"}
  RouteKind <- RouteKinds
  TableEntries <- EntriesOf
  HardwareVectors = {1, 2}
  MaxRoutes = 3
  SoundCards = {"hda", "ac97"}
  Codec <- ModemCodec
  Players = {"p", "q"}
  Samples = {"x", "y"}
  MaxPlays = 4
  Base = 0
  FrameCount = 24
  BitmapFrames = {1}
  DmaLimit = 6
  Width = 3
  Spaces = {"p", "q"}
  UserBase = 81
  UserEnd = 162
  MAX_IMAGE_PAGES = 6
  StackPages <- OneStackPage
  Trampoline = 36
  UserHeapBase = 30
  UserHeapEnd = 33
  UserHeapRequests = {1, 2}
  MaxAllocations = 2
  DriverPages = {54, 63}
  MaxDma = 1
  MaxMemoryCalls = 4
  Executables <- Programs
  HeapBase = 3
  HeapBytes = 90
  HeaderSize = 8
  PrefixSize = 6
  HeaderAlign = 2
  MaxLive = 3
  HeapRequests <- HeapAsked
SPECIFICATION BenchSpec
   
PROPERTIES UsbStepsSafe
CHECK_DEADLOCK FALSE
