CONSTANTS
  SeqSpace = 32
  ClientIsn = 30
  PeerIsn = 30
  MaxSegment = 2
  Capacity = 2
  Depth = 1
  Transmissions = 2
  PeerWindows = {1, 2}
  Streams <- OneWay
  MaxFlight = 2
  MaxTimeouts = 2
SPECIFICATION TcpSpec
INVARIANT PeerGetsStreamOnce
CHECK_DEADLOCK FALSE
