SPECIFICATION LimiterSpec
CONSTANTS
  private = private
  group = group
  Global = Global
  Chats = {private, group}
  Cost <- MCCost
  Cap <- MCCap
  MaxTracked = 1
  Idle = 4
  MaxTime = 6
  Watch = {private, group, Global}
INVARIANT BurstBound
PROPERTY PruningForgivesNoDebt
