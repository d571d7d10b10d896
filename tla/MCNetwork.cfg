CONSTANTS
  SeqSpace = 32
  ClientIsn = 30
  PeerIsn = 30
  MaxSegment = 2
  Capacity = 2
  Depth = 1
  Transmissions = 2
  PeerWindows = {2}
  Streams <- OneSends
  MaxFlight = 2
  MaxTimeouts = 2
  NEIGHBOR_TABLE_CAPACITY = 3
  HostNames = {"n1", "n2"}
  Transactions = 2
  FirstPort = 1
  LastPort = 3
  PollBudget = 1
  MaxFrames = 1
  MaxRequests = 3
  MaxUnasked = 1
  DhcpServers = {"s1", "s2"}
  OptionSets <- DhcpOptions
  ATTEMPTS = 2
  BodyUnits = 2
  OutputCapacity = 2
  MaxFetches = 2
  Cards = {"virtio", "e1000", "pcnet"}
  DESCRIPTOR_COUNT = 2
  MaxCardFrames = 3
  MaxStarts = 2
  SocketOwners = {1, 2}
  MAX_SOCKETS = 2
  MAX_TCP_SESSIONS = 2
  MAX_RX_DATAGRAMS = 1
  BindPorts = {1}
  EphemeralPorts = {8, 9}
  RemoteHosts = {"h"}
  TCP_CONNECT_TRANSMISSION_LIMIT = 2
  MaxSocketCalls = 6
SPECIFICATION BenchSpec
INVARIANTS  PeerGetsStreamOnce NetworkExact 
PROPERTIES SocketsKeepWord
CHECK_DEADLOCK FALSE
