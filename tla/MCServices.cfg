CONSTANTS
  Pids = {"p1", "p2"}
  Names = {"n1", "n2"}
  Versions = {1, 2, 3}
  NEndpoints = 2
  NChannels = 2
  MaxPending = 2
  MaxMessages = 1
  MaxBinds = 2
  MaxConnects = 2
  NoPid = "none"
  ServiceKinds = {"eventd", "notificationd", "sessiond", "clipboardd", "dnsd", "audiod", "accountd", "app-registryd"}
  Callers <- Connects
  MAX_CLIENTS = 2
  MAX_RECORDS = 2
  QUEUE_DEPTH = 1
  KernelEvents = 2
  ChannelMessages = 1
  Manifests <- Files
  ProfileFiles <- Profiles
  MaxServiceCalls <- ServiceCalls
  MaxServiceRestarts <- ServiceRestarts
  SettingKeys = {"j", "k"}
  SettingValues = {"x", "y"}
  SETTINGSD_MAX_RECORDS = 2
  MaxSettingCalls = 4
  MaxFsFaults = 2
  MaxSettingCrashes = 2
SPECIFICATION BenchSpec
INVARIANTS ChannelsExact  StoreHonest
PROPERTIES AcceptedSurviveEndpointClose
CHECK_DEADLOCK FALSE
