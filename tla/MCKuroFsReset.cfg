CONSTANTS
  NInodes = 4
  NExtents = 5
  Names = {a, b, c}
  Data = {x, y}
  EntriesPerBlock = 2
  NoIntent = NoIntent
  Budgets <- ResetThenLoss
SPECIFICATION Spec
INVARIANT MountRecovers
CHECK_DEADLOCK FALSE
