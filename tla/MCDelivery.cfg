SPECIFICATION Spec
CONSTANTS
  v = v
  w = w
  m1 = m1
  m2 = m2
  m3 = m3
  m4 = m4
  NoTarget = NoTarget
  None = None
  Msgs = {m1, m2, m3, m4}
  Sends = {m1, m2, m3, m4}
  Targets = {v, w}
  To <- MCTo
  Loops = {1, 2}
  Own = 1
  MaxRows = 2
  Window = 1
  GlobalMax = 2
  TargetMax = 1
  WarnCooldown = 1
  SweepIdle = 2
  MaxTime = 3
  MaxFaults = 2
  MaxMoves = 2
  MaxRestarts = 1
  ViaLink = {m1}
  Announced = {m2}
CONSTRAINT Corners
INVARIANT WindowsAreBounded
INVARIANT WarningsApart
INVARIANT RefusalsAreEarned
INVARIANT ToldTheTruth
INVARIANT SilenceHasACause
INVARIANT ShutDoorsStayShut
INVARIANT CopiedTwiceHasACause
CHECK_DEADLOCK FALSE
