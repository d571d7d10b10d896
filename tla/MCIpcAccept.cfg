CONSTANTS
  Pids = {"p1", "p2"}
  Names = {"n1", "n2"}
  Versions = {}
  NEndpoints = 2
  NChannels = 2
  MaxPending = 2
  MaxMessages = 1
  MaxBinds = 2
  MaxConnects = 2
  NoPid = "none"
SPECIFICATION Spec
INVARIANT AcceptedByItsService
CHECK_DEADLOCK FALSE
