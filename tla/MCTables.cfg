CONSTANTS
  Pids = {p1, p2, p3}
  NoPid = NoPid
  Sharers = {p1, p2, p3}
  NoSharer = NoPid
  JobPids = {p1, p2, p3}
  NoOwner = NoPid
  NEvents = 2
  EventGrants = 2
  EventCreates = 2
  MaxSignals = 2
  NFrames = 2
  MaxPages = 2
  NObjects = 2
  ObjectGrants = 2
  MaxViews = 2
  ObjectCreates = 3
  NJobs = 2
  NMembers = 2
  MaxJobGen = 2
SPECIFICATION TablesSpec
SYMMETRY Interchangeable
INVARIANTS EventsExact SharedExact JobsReclaimable
PROPERTIES StaleJobIds
CHECK_DEADLOCK FALSE
